----------------------------- MODULE WifiInterface -----------------------------
(***************************************************************************)
(* The WiFi interface: an ESP8266 on a serial line that is spoken to with  *)
(* AT commands.  Requests of clients arrive as +IPD,<id>,<length>:<data>   *)
(* between the modem's own answers; the station reads them character by    *)
(* character, executes them one at a time, and sends the reply after       *)
(* asking the modem for a prompt.  The modem and the clients are outside   *)
(* the repository; a request may clash with any step of a reply.           *)
(***************************************************************************)
EXTENDS Integers, Sequences, SequencesExt

CONSTANTS
  Clients,           \* connection ids
  Kinds,             \* of requests: "jmri", "withrottle", "http"
  MAX_WIFI_BUFFER,   \* characters that the buffer keeps of a request
  ReplyLengths,      \* of replies, the text of one command being 1
  MaxFifo,           \* bound: characters waiting when a client sends
  MaxRestarts        \* bound: restarts of the station

ASSUME WifiAssumption ==
  /\ Clients \subseteq 0..9 /\ Kinds \subseteq {"jmri", "withrottle", "http"}
  /\ MAX_WIFI_BUFFER \in Nat \ {0} /\ ReplyLengths \subseteq Nat \ {0}
  /\ MaxFifo \in Nat

VARIABLES
  connected,     \* what setup made of the modem
  loopstate,     \* 0..7 a request comes in, 99 it is there, 10..12 the reply
  connectionId, datalength, closeAfter,
  buffer,        \* the request, then the reply
  executed,      \* the last request that was executed, and for whom
  late,          \* LOOP_TIMEOUT is over since loopTimeoutStart
  fifo,          \* characters from the modem
  modem,         \* what the modem does, for which client; how much data it
                 \* wants and what it has taken of it
  open,          \* clients with a connection
  delivered,     \* what a client is being sent
  restarts

station ==
  <<connected, loopstate, connectionId, datalength, closeAfter, buffer, executed>>
link == <<fifo, modem, open, delivered>>
vars == <<station, late, link, restarts>>

None == [client |-> -1, data |-> <<>>]
Idle == [state |-> "idle", client |-> 0, length |-> 0, taken |-> <<>>]
Sending == [Idle EXCEPT !.state = "sending"]
Wants(id, length) ==
  [state |-> "want", client |-> id, length |-> length, taken |-> <<>>]

FirstOf(s, n) == SubSeq(s, 1, IF Len(s) < n THEN Len(s) ELSE n)

\* A number below ten, as the modem prints it and the station reads it.
Digits == <<"0", "1", "2", "3", "4", "5", "6", "7", "8", "9">>
Printed(n) == Digits[n + 1]
Digit(c) == CHOOSE n \in 0..9 : Printed(n) = c

\* A reply, in pieces of a command's length that carry the client's id, and
\* the text of n commands.
Reply(id, n) == [i \in 1..n |-> Printed(id)]
Commands(n) == [i \in 1..n |-> "AT"]

\* The data of a request: a <command>, a WiThrottle line, or HTTP with the dot
\* of its version in it.  Each carries its client's id, to tell them apart.
Payload(kind, id) ==
  CASE kind = "jmri" -> <<"<", Printed(id), ">">>
    [] kind = "withrottle" -> <<Printed(id)>>
    [] kind = "http" -> <<"G", ".", Printed(id), Printed(id)>>
IPD(kind, id) ==
  LET data == Payload(kind, id)
  IN <<"nl", "+", "I", "P", "D", "comma", Printed(id), "comma", Printed(Len(data)), ":">>
       \o data

-----------------------------------------------------------------------------
(* What the station says to the modem: link after it.  A modem that waits  *)
(* for data takes whatever comes for it, until it has the length it was    *)
(* told; what is too much is dropped.                                      *)

Take(data) ==
  LET taken == FirstOf(modem.taken \o data, modem.length)
      filled == Len(taken) = modem.length
  IN /\ delivered' = IF filled THEN [client |-> modem.client, data |-> taken]
                               ELSE delivered
     /\ modem' = IF filled THEN Sending ELSE [modem EXCEPT !.taken = taken]

\* AT+CIPSEND=id,length: OK and a prompt, busy p... or ERROR.
CIPSEND(id, length, left) ==
  \/ /\ modem.state = "want" /\ Take(Commands(1))
     /\ fifo' = left /\ UNCHANGED open
  \/ /\ modem.state = "sending" /\ fifo' = left \o <<".">>
     /\ UNCHANGED <<modem, open, delivered>>
  \/ /\ modem.state = "idle" /\ id \in open
     /\ modem' = Wants(id, length) /\ fifo' = left \o <<"K", ">">>
     /\ UNCHANGED <<open, delivered>>
  \/ /\ modem.state = "idle" /\ id \notin open /\ fifo' = left \o <<"R">>
     /\ UNCHANGED <<modem, open, delivered>>

CIPCLOSE(id, left) ==
  \/ /\ modem.state = "want" /\ Take(Commands(1))
     /\ fifo' = left /\ UNCHANGED open
  \/ /\ modem.state = "sending" /\ fifo' = left \o <<".">>
     /\ UNCHANGED <<modem, open, delivered>>
  \/ /\ modem.state = "idle" /\ open' = open \ {id} /\ fifo' = left \o <<"K">>
     /\ UNCHANGED <<modem, delivered>>

\* The reply itself; it is an error when the modem does not wait for data.
Send(left) ==
  \/ /\ modem.state = "want" /\ Take(buffer)
     /\ fifo' = left /\ UNCHANGED open
  \/ /\ modem.state # "want" /\ fifo' = left \o <<"R">>
     /\ UNCHANGED <<modem, open, delivered>>

Silent(left) == fifo' = left /\ UNCHANGED <<modem, open, delivered>>

-----------------------------------------------------------------------------
(* loop: one character.                                                    *)

ch == Head(fifo)
rest == Tail(fifo)

GoTo(state) == loopstate' = state /\ Silent(rest)

\* States 0 to 4 recognise "+IPD,".
Header ==
  /\ \/ loopstate = 0 /\ connectionId' = 0 /\ GoTo(IF ch = "+" THEN 1 ELSE 0)
     \/ /\ loopstate \in 1..4 /\ UNCHANGED connectionId
        /\ GoTo(IF ch = <<"I", "P", "D", "comma">>[loopstate] THEN loopstate + 1 ELSE 0)
  /\ UNCHANGED <<datalength, buffer>>

\* States 5 and 6 read the id and the length.
Numbers ==
  \/ /\ loopstate = 5
     /\ connectionId' = IF ch = "comma" THEN connectionId ELSE 10 * connectionId + Digit(ch)
     /\ GoTo(IF ch = "comma" THEN 6 ELSE 5)
     /\ UNCHANGED <<datalength, buffer>>
  \/ /\ loopstate = 6
     /\ datalength' = IF ch = ":" THEN datalength ELSE 10 * datalength + Digit(ch)
     /\ GoTo(IF ch # ":" THEN 6 ELSE IF datalength = 0 THEN 99 ELSE 7)
     /\ buffer' = <<>> /\ UNCHANGED connectionId

\* Seeded fault: the last character of the data is left in the line.
DataOneShort ==
  /\ loopstate = 7
  /\ buffer' = IF Len(buffer) < MAX_WIFI_BUFFER THEN Append(buffer, ch) ELSE buffer
  /\ datalength' = IF datalength <= 2 THEN 0 ELSE datalength - 1
  /\ GoTo(IF datalength <= 2 THEN 99 ELSE 7)
  /\ UNCHANGED connectionId

\* State 7 keeps what fits.
Data ==
  /\ loopstate = 7
  /\ buffer' = IF Len(buffer) < MAX_WIFI_BUFFER THEN Append(buffer, ch) ELSE buffer
  /\ datalength' = datalength - 1
  /\ GoTo(IF datalength = 1 THEN 99 ELSE 7)
  /\ UNCHANGED connectionId

\* State 10 waits for the prompt; a dot is the modem's "busy".
AwaitPrompt ==
  /\ loopstate = 10 /\ ~late
  /\ \/ /\ ch = ">" /\ Send(rest) /\ loopstate' = IF closeAfter THEN 11 ELSE 0
     \/ ch = "." /\ GoTo(12)
     \/ ch \notin {">", "."} /\ GoTo(10)
  /\ UNCHANGED <<connectionId, datalength, buffer>>

\* State 11 waits for SEND OK to close the connection.
AwaitSent ==
  /\ loopstate = 11 /\ ~late
  /\ \/ ch = "K" /\ CIPCLOSE(connectionId, rest) /\ loopstate' = 0
     \/ ch # "K" /\ GoTo(11)
  /\ UNCHANGED <<connectionId, datalength, buffer>>

\* Seeded fault: the retry is sent to the client of the clashing request.
RetryAsFirst ==
  /\ loopstate = 12
  /\ \/ ch = "+" /\ connectionId' = 0 /\ GoTo(1)
     \/ /\ ch = "K" /\ CIPSEND(0, Len(buffer), rest) /\ loopstate' = 10
        /\ UNCHANGED connectionId
     \/ ch \notin {"+", "K"} /\ GoTo(12) /\ UNCHANGED connectionId
  /\ UNCHANGED <<datalength, buffer>>

\* Seeded fault: a request that clashes is not listened to.
RetryOnly ==
  /\ loopstate = 12
  /\ \/ ch = "K" /\ CIPSEND(connectionId, Len(buffer), rest) /\ loopstate' = 10
     \/ ch # "K" /\ GoTo(12)
  /\ UNCHANGED <<connectionId, datalength, buffer>>

\* State 12 waits for the modem to be free; a request costs the reply.
Retry ==
  /\ loopstate = 12
  /\ \/ ch = "+" /\ connectionId' = 0 /\ GoTo(1)
     \/ /\ ch = "K" /\ CIPSEND(connectionId, Len(buffer), rest) /\ loopstate' = 10
        /\ UNCHANGED connectionId
     \/ ch \notin {"+", "K"} /\ GoTo(12) /\ UNCHANGED connectionId
  /\ UNCHANGED <<datalength, buffer>>

Read ==
  /\ connected /\ fifo # <<>>
  /\ Header \/ Numbers \/ Data \/ AwaitPrompt \/ AwaitSent \/ Retry
  /\ UNCHANGED <<connected, closeAfter, late, executed, restarts>>

\* States 10 and 11 give up after LOOP_TIMEOUT, which is looked at when a
\* character comes and costs it.
TimeOut ==
  /\ connected /\ fifo # <<>>
  /\ loopstate \in {10, 11} /\ late /\ late' = FALSE
  /\ GoTo(0)
  /\ UNCHANGED <<connected, connectionId, datalength, closeAfter, buffer, executed,
                 restarts>>

\* The request is executed: HTTP is intercepted and its connection closed
\* after the reply, a '<' goes to the parser, all else to WiThrottle.  Each
\* of them may have nothing to say.
Process ==
  /\ connected /\ loopstate = 99
  /\ executed' = [client |-> connectionId, data |-> buffer]
  /\ LET http == buffer[1] = "G"
     IN /\ closeAfter' = http
        /\ \/ /\ \E n \in ReplyLengths :
                   /\ buffer' = Reply(connectionId, n)
                   /\ CIPSEND(connectionId, n, fifo)
              /\ loopstate' = 10
           \/ /\ buffer' = <<>> /\ loopstate' = 0
              /\ IF http THEN CIPCLOSE(connectionId, fifo) ELSE Silent(fifo)
  /\ UNCHANGED <<connected, connectionId, datalength, late, restarts>>

-----------------------------------------------------------------------------
(* setup: the station restarts and the modem does not.  When a request is  *)
(* found waiting the modem is taken to be set up, and loopstate says that  *)
(* "+IPD" was read; but what follows it is read away with the answer to    *)
(* ATE0.  Otherwise there is a dialogue of several commands, which may     *)
(* fail.  A modem that waits for data takes commands for it.               *)

Told(n) ==
  \/ modem.state = "want" /\ Take(Commands(n))
  \/ modem.state # "want" /\ modem' = Idle /\ delivered' = None

setup ==
  /\ restarts < MaxRestarts /\ restarts' = restarts + 1
  /\ \/ "+" \in ToSet(fifo) /\ loopstate' = 4 /\ connected' = TRUE /\ Told(1)
     \/ /\ loopstate' = 0 /\ connected' \in BOOLEAN
        /\ \E n \in 0..modem.length : Told(n)
  /\ connectionId' = 0 /\ datalength' = 0 /\ closeAfter' = FALSE
  /\ buffer' = <<>> /\ fifo' = <<>> /\ late' = FALSE
  /\ UNCHANGED <<executed, open>>

-----------------------------------------------------------------------------
(* The modem, the clients and time.                                        *)

SendOK ==
  /\ modem.state = "sending" /\ modem' = Idle /\ fifo' = fifo \o <<"K">>
  /\ delivered' = None /\ UNCHANGED <<station, late, open, restarts>>

Request ==
  /\ Len(fifo) <= MaxFifo
  /\ \E id \in open, kind \in Kinds : fifo' = fifo \o IPD(kind, id)
  /\ UNCHANGED <<station, late, modem, open, delivered, restarts>>

ConnectOrLeave ==
  /\ \E id \in Clients :
       open' = IF id \in open THEN open \ {id} ELSE open \cup {id}
  /\ UNCHANGED <<station, late, fifo, modem, delivered, restarts>>

\* The clock that TimeOut looks at.
Elapse ==
  /\ loopstate \in {10, 11} /\ ~late /\ late' = TRUE
  /\ UNCHANGED <<station, link, restarts>>

Init ==
  /\ connected = TRUE /\ late = FALSE /\ loopstate = 0 /\ connectionId = 0 /\ datalength = 0
  /\ closeAfter = FALSE /\ buffer = <<>> /\ executed = None
  /\ fifo = <<>> /\ modem = Idle /\ open = {} /\ delivered = None
  /\ restarts = 0

Next ==
  \/ Read \/ TimeOut \/ Process \/ setup
  \/ SendOK \/ Request \/ ConnectOrLeave \/ Elapse

Spec == Init /\ [][Next]_vars

\* The main loop goes on, the modem sends, and time passes.
FairSpec ==
  /\ Spec /\ WF_vars(Read) /\ WF_vars(TimeOut) /\ WF_vars(Process)
  /\ WF_vars(SendOK) /\ WF_vars(Elapse)

-----------------------------------------------------------------------------
(* Properties.                                                             *)

\* What is executed for a client is a request of that client, as much of it
\* as the buffer holds, whatever the modem said in between.
ExecutesWholeRequests ==
  executed.client # -1 =>
    \E kind \in Kinds :
      executed.data = FirstOf(Payload(kind, executed.client), MAX_WIFI_BUFFER)

\* What a client is sent is the whole reply to its own request: through busy
\* modems, clashing requests, timeouts and restarts a reply stays with the id
\* that asked, or is lost.  The exception begins with the text of a command,
\* which a modem takes that still waits for data.
RepliesGoToTheAsker ==
  delivered.client # -1 =>
    \/ delivered.data = Reply(delivered.client, Len(delivered.data))
    \/ delivered.data[1] = "AT"

\* As long as clients go on sending, the station comes back to listening, or
\* finds a request while it waits for the modem: no lost prompt, closed
\* connection or clash leaves it waiting for ever.
ListensAgain == []<><<Request>>_vars => []<>(loopstate \in {0, 1})
=============================================================================
