------------------------------- MODULE Transport -------------------------------
(***************************************************************************)
(* The socket transports (Ethernet and WiFi have the same handlers) beside *)
(* the serial stream, in one main loop and with the one parser's stash.    *)
(* TCP is a stream that a read may cut anywhere; UDP loses and repeats.    *)
(* The network library and the clients are outside the repository.         *)
(***************************************************************************)
EXTENDS DCCEXParser

CONSTANTS
  Clients, NoClient,
  MAX_SOCK_NUM, MAX_ETH_BUFFER,
  Lines,          \* what comes over the serial line, whole or broken
  Commands,       \* what clients send
  MaxInputs       \* bound: lines, commands and connections

\* A client sends whole commands, one bracket at each end; what arrives of
\* them is another matter.  The line may bring anything.
ASSUME TransportAssumption ==
  /\ MAX_SOCK_NUM \in Nat \ {0} /\ MAX_ETH_BUFFER \in Nat \ (0..1)
  /\ Serial \notin Clients /\ NoClient \notin Clients
  /\ Lines \subseteq Seq(STRING) /\ Commands \subseteq Seq(STRING)
  /\ \A c \in Commands :
       /\ Len(c) > 2 /\ c[1] = "<" /\ c[Len(c)] = ">"
       /\ \A i \in 2..(Len(c) - 1) : c[i] \notin {"<", ">"}

VARIABLES
  protocol, connected,   \* as setup leaves them
  clients,               \* the slots of tcpHandler
  at,                    \* 0 before accept, then the slot it comes to
  arrivals, open,        \* connections not accepted yet, connections
  inbox,                 \* what a client sent that was not read
  datagrams,
  line,                  \* what waits on the serial line
  inputs

netVars == <<protocol, connected, clients, at, arrivals, open, inbox, datagrams>>
vars == <<serialVars, parseVars, netVars, line, inputs>>

Slots == 1..MAX_SOCK_NUM

-----------------------------------------------------------------------------
\* Seeded fault: a text is parsed wherever it begins.
TransportParseAll(stream, command) == parse(stream, command, TRUE)

\* Transport::parse: what does not begin with '<' is not for the parser.
TransportParse(stream, command) ==
  IF command[1] = "<" THEN parse(stream, command, TRUE) ELSE UNCHANGED parseVars

\* NetworkInterface::setup: hardware, address and socket, or none of them.
setup ==
  /\ connected = "no" /\ connected' \in {"yes", "failed"}
  /\ UNCHANGED <<serialVars, parseVars, protocol, clients, at, arrivals, open,
                 inbox, datagrams, line, inputs>>

\* tcpHandler: a new client takes the first free slot.  When there is none it
\* is forgotten, and a slot is not free until the handler has gone past it.
Accept ==
  /\ protocol = "TCP" /\ connected # "no" /\ at = 0 /\ at' = 1
  /\ \/ arrivals = {} /\ UNCHANGED <<arrivals, clients>>
     \/ \E client \in arrivals :
          LET free == {i \in Slots : clients[i] = NoClient}
          IN /\ arrivals' = arrivals \ {client}
             /\ clients' = IF free = {} THEN clients
                           ELSE [clients EXCEPT ![Min(free)] = client]
  /\ UNCHANGED <<serialVars, parseVars, protocol, connected, open, inbox,
                 datagrams, line, inputs>>

\* A connection that was closed counts as connected while it has data.
IsConnected(client, unread) == client \in open \/ unread[client] # <<>>

\* Seeded fault: only the client that was just served is stopped.
StopServed(unread) ==
  [i \in Slots |-> IF i = at /\ clients[i] # NoClient
                      /\ unread[clients[i]] # inbox[clients[i]]
                      /\ ~IsConnected(clients[i], unread)
                   THEN NoClient ELSE clients[i]]

StopDisconnected(unread) ==
  [i \in Slots |-> IF clients[i] # NoClient /\ ~IsConnected(clients[i], unread)
                   THEN NoClient ELSE clients[i]]

\* Reads once, as much as there is; all of it goes to the parser as one text.
Serve ==
  /\ at > 0 /\ at' = (at + 1) % (MAX_SOCK_NUM + 1)
  /\ LET client == clients[at]
     IN IF client # NoClient /\ inbox[client] # <<>>
        THEN \E n \in 1..Min({Len(inbox[client]), MAX_ETH_BUFFER - 1}) :
               /\ TransportParse(client, SubSeq(inbox[client], 1, n))
               /\ inbox' = [inbox EXCEPT ![client] = SubSeq(@, n + 1, Len(@))]
        ELSE UNCHANGED <<parseVars, inbox>>
  /\ clients' = StopDisconnected(inbox')
  /\ UNCHANGED <<serialVars, protocol, connected, arrivals, open, datagrams,
                 line, inputs>>

\* udpHandler: one datagram, whole; the network may bring it again.
udpHandler ==
  /\ protocol = "UDP" /\ connected # "no"
  /\ \E d \in datagrams :
       /\ TransportParse(d.client, SubSeq(d.text, 1, Min({Len(d.text), MAX_ETH_BUFFER - 1})))
       /\ datagrams' \in {datagrams, datagrams \ {d}}
  /\ UNCHANGED <<serialVars, protocol, connected, clients, at, arrivals, open,
                 inbox, line, inputs>>

-----------------------------------------------------------------------------
(* The main loop's other parts, between two calls of the handler.          *)

SerialLoop ==
  /\ at = 0 /\ line # <<>> /\ SerialChar(Head(line)) /\ line' = Tail(line)
  /\ UNCHANGED <<netVars, inputs>>

DCCLoop ==
  /\ at = 0 /\ Callback /\ UNCHANGED <<serialVars, netVars, line, inputs>>

-----------------------------------------------------------------------------
(* The clients and the line.                                               *)

Input == inputs < MaxInputs /\ inputs' = inputs + 1

Type ==
  /\ Input /\ line = <<>> /\ line' \in Lines
  /\ UNCHANGED <<serialVars, parseVars, netVars>>

Connect ==
  /\ Input /\ protocol = "TCP" /\ connected = "yes"
  /\ \E c \in Clients \ (open \cup ToSet(clients) \cup arrivals) :
       /\ open' = open \cup {c} /\ arrivals' = arrivals \cup {c}
       /\ inbox' = [inbox EXCEPT ![c] = <<>>]
  /\ UNCHANGED <<serialVars, parseVars, protocol, connected, clients, at,
                 datagrams, line>>

Leave ==
  /\ \E c \in open : open' = open \ {c}
  /\ UNCHANGED <<serialVars, parseVars, protocol, connected, clients, at,
                 arrivals, inbox, datagrams, line, inputs>>

SendCommand ==
  /\ Input
  /\ \/ /\ \E c \in open, command \in Commands :
             inbox' = [inbox EXCEPT ![c] = @ \o command]
        /\ UNCHANGED datagrams
     \/ /\ protocol = "UDP" /\ connected = "yes"
        /\ \E c \in Clients, command \in Commands :
             datagrams' = datagrams \cup {[client |-> c, text |-> command]}
        /\ UNCHANGED inbox
  /\ UNCHANGED <<serialVars, parseVars, protocol, connected, clients, at,
                 arrivals, open, line>>

LoseDatagram ==
  /\ \E d \in datagrams : datagrams' = datagrams \ {d}
  /\ UNCHANGED <<serialVars, parseVars, protocol, connected, clients, at,
                 arrivals, open, inbox, line, inputs>>

Init ==
  /\ ParserInit /\ protocol \in {"TCP", "UDP"} /\ connected = "no"
  /\ clients = [i \in Slots |-> NoClient] /\ at = 0
  /\ arrivals = {} /\ open = {} /\ inbox = [c \in Clients |-> <<>>]
  /\ datagrams = {} /\ line = <<>> /\ inputs = 0

Next ==
  \/ setup \/ Accept \/ Serve \/ udpHandler \/ SerialLoop \/ DCCLoop
  \/ Type \/ Connect \/ Leave \/ SendCommand \/ LoseDatagram

Spec == Init /\ [][Next]_vars

\* The main loop goes round, and an operation ends (EveryOperationEnds).
FairSpec ==
  /\ Spec
  /\ WF_vars(Accept) /\ WF_vars(Serve) /\ SF_vars(DCCLoop)

-----------------------------------------------------------------------------
(* Properties.                                                             *)

\* A command is executed as it was sent.  On the serial line it is all that
\* came since the last '<', or nothing: never the rest of one that was too
\* long.  From the network, where a read may cut a command and more of it is
\* ignored, it is a beginning of one command: never a rest, nor two together.
ExecutesWhatWasSent ==
  CASE last.stream = "none" -> TRUE
    [] last.stream = Serial -> last.text = last.frame
    [] OTHER -> \E c \in Commands : IsPrefix(last.text, Command(c))

\* A programming command that was taken is answered, to the stream and with
\* the parameters that asked, whatever the others ask for in the meantime.
TakenIsAnswered ==
  \A text \in {Command(l) : l \in Lines} :
    LET asked == [stream |-> Serial, text |-> text]
    IN ackOp = asked ~> answer = asked

\* A client that has left does not hold its slot for ever.
SlotsAreFreed ==
  \A i \in Slots, c \in Clients :
    (clients[i] = c /\ c \notin open) ~> (clients[i] # c \/ c \in open)
=============================================================================
