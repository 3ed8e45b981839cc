------------------------------ MODULE DCCEXParser ------------------------------
(***************************************************************************)
(* The command parser: how a serial stream is cut into commands, what a    *)
(* command calls and replies, and the stash that keeps one asynchronous    *)
(* programming command until its callback.  A text is a sequence of        *)
(* tokens: brackets, opcodes, and whole words (numbers and keywords).      *)
(***************************************************************************)
EXTENDS Integers, Sequences, SequencesExt

CONSTANTS
  MAX_BUFFER,     \* characters of a serial command, its end included
  MAX_PARAMS,
  Serial          \* the serial stream

ASSUME ParserAssumption == MAX_BUFFER \in Nat \ {0} /\ MAX_PARAMS \in Nat \ (0..3)

VARIABLES
  buffer, inCommandPayload,   \* of the serial stream's parser
  frame,                      \* history: the text since its last '<'
  last,                       \* the last command: text, what it called, reply
  stash,                      \* stashBusy, stashStream, stashP
  ackOp,                      \* the programming operation that runs
  answer                      \* the last one that was answered, and where

serialVars == <<buffer, inCommandPayload, frame>>
parseVars == <<last, stash, ackOp, answer>>

None == [stream |-> "none", text |-> <<>>]
NoStash == [busy |-> FALSE, stream |-> "none", text |-> <<>>]

ParserInit ==
  /\ buffer = <<>> /\ inCommandPayload = FALSE /\ frame = <<>>
  /\ last = [stream |-> "none", text |-> <<>>, frame |-> <<>>,
             call |-> <<>>, reply |-> "none"]
  /\ stash = NoStash /\ ackOp = None /\ answer = None

-----------------------------------------------------------------------------
(* splitValues: the words after the opcode; what is not a word is read as  *)
(* zeros without end.                                                      *)

Keyword == [PROG |-> -29718, MAIN |-> 11339, JOIN |-> -30750, CABS |-> -11981,
            RAM |-> 25982, CMD |-> 9962, WIT |-> 31594, WIFI |-> -5583,
            ACK |-> 3113, ON |-> 2657, DCC |-> 6436, SLOW |-> -17209]
Value == [word \in {ToString(n) : n \in -1..255} |->
            CHOOSE n \in -1..255 : ToString(n) = word] @@ Keyword

splitValues(com) ==
  LET words == SelectInSubSeq(com, 2, Len(com), LAMBDA c : c \notin DOMAIN Value)
      stop == IF words = 0 THEN Len(com) + 1 ELSE words
      params == IF stop <= Len(com) \/ stop - 2 > MAX_PARAMS
                THEN MAX_PARAMS ELSE stop - 2
  IN [params |-> params,
      p |-> [i \in 0..MAX_PARAMS-1 |-> IF i + 2 < stop THEN Value[com[i + 2]] ELSE 0]]

\* What is left of the text when the '<' and everything from '>' are taken off.
Command(text) ==
  LET open == SelectInSeq(text, LAMBDA c : c # "<")
      com == IF open = 0 THEN <<>> ELSE SubSeq(text, open, Len(text))
      close == SelectInSubSeq(com, 2, Len(com), LAMBDA c : c = ">")
  IN IF close = 0 THEN com ELSE SubSeq(com, 1, close - 1)

-----------------------------------------------------------------------------
(* What a command calls, and whether it has a reply; X refuses it.         *)

Answered(call) == {[call |-> call, reply |-> "text"]}
Silent(call) == {[call |-> call, reply |-> "none"]}
Refused == {[call |-> <<>>, reply |-> "X"]}

DCCSpeed(tspeed) ==
  IF tspeed < 0 THEN 1 ELSE IF tspeed > 0 THEN tspeed + 1 ELSE 0

Throttle(params, p) ==
  LET first == params - 3
      cab == p[first]  tspeed == p[first + 1]  direction == p[first + 2]
  IN IF /\ params \in {3, 4} /\ tspeed \in -1..126
        /\ ~(cab = 0 /\ DCCSpeed(tspeed) > 1) /\ direction \in 0..1
     THEN Answered(<<"setThrottle", cab, DCCSpeed(tspeed), direction>>)
     ELSE Refused

\* The group of <f>, by the top three bits of its byte or its first byte.
Functions(params, p) ==
  LET first == CASE params = 2 /\ p[1] \div 32 = 4 -> 0
                 [] params = 2 /\ p[1] \div 32 = 6 -> 5
                 [] params = 2 /\ p[1] \div 32 = 5 -> 9
                 [] params = 3 /\ p[1] = 222 -> 13
                 [] params = 3 /\ p[1] = 223 -> 21
                 [] OTHER -> -1
  IN Silent(IF first < 0 THEN <<>> ELSE <<"setFn", p[0], first>>)

\* Whatever its word, all but <1 JOIN> part the tracks.
Power(opcode, params, p) ==
  IF params > 1 THEN Refused
  ELSE IF params = 0 \/ p[0] \in {Keyword.MAIN, Keyword.PROG, Keyword.JOIN}
       THEN Answered(<<"setPowerMode", opcode, p[0]>>)
       ELSE {[call |-> <<"setProgTrackSyncMain">>, reply |-> "X"]}

\* parseD never refuses: what it does not know it leaves unanswered.
Diagnostics(params, p) ==
  CASE params > 0 /\ p[0] \in {Keyword.CABS, Keyword.RAM} -> Answered(<<>>)
    [] params > 0 /\ p[0] \in {Keyword.ACK, Keyword.CMD, Keyword.WIFI,
                               Keyword.WIT, Keyword.DCC} -> Silent(<<"Diag", p[0]>>)
    [] OTHER -> Silent(<<>>)

\* <T>, <Z> and <S> may fail, by what is defined and what memory there is.
Definitions(opcode, params) ==
  CASE params = 0 -> IF opcode = "S" THEN Answered(<<>>) ELSE Answered(<<>>) \cup Refused
    [] params = 1 -> Refused \cup
         (IF opcode = "T" THEN Answered(<<"remove">>) ELSE Silent(<<"remove">>))
    [] params = 2 -> Refused \cup (IF opcode = "S" THEN {} ELSE Answered(<<"activate">>))
    [] params = 3 -> IF opcode = "T" THEN Answered(<<"create">>) \cup Refused
                     ELSE Silent(<<"create">>)
    [] OTHER -> Refused

\* All but the programming commands.
Outcomes(opcode, params, p) ==
  CASE opcode = "t" -> Throttle(params, p)
    [] opcode = "f" -> Functions(params, p)
    [] opcode = "a" -> Silent(IF p[2] \in 0..1 THEN <<"setAccessory">> ELSE <<>>)
    [] opcode \in {"T", "Z", "S"} -> Definitions(opcode, params)
    [] opcode = "w" -> Silent(<<"writeCVByteMain">>)
    [] opcode = "b" -> Silent(<<"writeCVBitMain">>)
    [] opcode \in {"1", "0"} -> Power(opcode, params, p)
    [] opcode = "Q" -> Answered(<<"checkAll">>)
    [] opcode \in {"c", "s", "#"} -> Answered(<<>>)
    [] opcode = "E" -> Answered(<<"store">>)
    [] opcode = "e" -> Answered(<<"clear">>)
    [] opcode = "D" -> Diagnostics(params, p)
    [] opcode = "F" -> Silent(<<"setFn", p[0], p[1]>>)
    [] opcode = "+" -> {[call |-> <<"ATCommand">>, reply |-> "X"]}
    [] OTHER -> Refused

\* The arities at which a programming command goes to the stash.
Programs(opcode, params) ==
  \/ opcode \in {"W", "B"}
  \/ opcode = "V" /\ params \in {2, 3}
  \/ opcode = "R" /\ params \in {0, 3}

-----------------------------------------------------------------------------
(* parse and the callbacks.                                                *)

\* Seeded fault: the stash of an operation that runs is used again.
stashAlways(stream, com, blocking) ==
  stash' = [busy |-> ~blocking, stream |-> stream, text |-> com]

\* A blocking operation has called back, and left the stash, within parse.
stashCallback(stream, com, blocking) ==
  /\ ~stash.busy
  /\ stash' = [busy |-> ~blocking, stream |-> stream, text |-> com]

Report(stream, com, outcome) ==
  last' = [stream |-> stream, text |-> com, frame |-> frame,
           call |-> outcome.call, reply |-> outcome.reply]

Program(stream, com, blocking) ==
  LET asked == [stream |-> stream, text |-> com]
  IN /\ stashCallback(stream, com, blocking)
     /\ Report(stream, com, [call |-> <<"prog", com[1]>>, reply |-> "none"])
     /\ ackOp' = IF blocking THEN None ELSE asked
     /\ answer' = IF blocking THEN asked ELSE None

parse(stream, text, blocking) ==
  LET com == Command(text)
      v == splitValues(com)
      programs == Programs(com[1], v.params)
  IN \/ com = <<>> /\ UNCHANGED parseVars
     \/ com # <<>> /\ programs /\ Program(stream, com, blocking)
     \/ /\ com # <<>> /\ UNCHANGED <<stash, ackOp, answer>>
        /\ \E outcome \in
             IF ~programs THEN Outcomes(com[1], v.params, v.p)
             ELSE IF stash.busy THEN Refused ELSE {} :
               Report(stream, com, outcome)

\* callback_W, _B, _Vbit, _Vbyte, _R and _Rloco, when the operation ends.
Callback ==
  /\ ackOp # None /\ ackOp' = None
  /\ answer' = [stream |-> stash.stream, text |-> stash.text]
  /\ stash' = [stash EXCEPT !.busy = FALSE]
  /\ UNCHANGED last

-----------------------------------------------------------------------------
(* loop: one character of the serial stream.  '>' parses what the buffer   *)
(* holds, in a command or not; a buffer that is full is dropped first.     *)

\* Seeded fault: a dropped command goes on with its next character.
flushBuffer(full) ==
  [text |-> IF full THEN <<>> ELSE buffer, inside |-> inCommandPayload]

flush(full) ==
  [text |-> IF full THEN <<>> ELSE buffer, inside |-> inCommandPayload /\ ~full]

SerialChar(ch) ==
  LET kept == flush(Len(buffer) = MAX_BUFFER)
  IN \/ /\ ch = "<" /\ buffer' = <<>> /\ inCommandPayload' = TRUE
        /\ frame' = <<>> /\ UNCHANGED parseVars
     \/ /\ ch = ">" /\ buffer' = kept.text /\ inCommandPayload' = FALSE
        /\ parse(Serial, kept.text, FALSE) /\ UNCHANGED frame
     \/ /\ ch \notin {"<", ">"} /\ inCommandPayload' = kept.inside
        /\ buffer' = IF kept.inside THEN Append(kept.text, ch) ELSE kept.text
        /\ frame' = IF inCommandPayload /\ Len(frame) <= MAX_BUFFER
                    THEN Append(frame, ch) ELSE frame
        /\ UNCHANGED parseVars
=============================================================================
