------------------------------ MODULE WiThrottle ------------------------------
(***************************************************************************)
(* The WiThrottle server: one object per client id with the locos the      *)
(* client drives, the messages of the clients, and the heartbeat that      *)
(* stops the locos of a client that has vanished.  The speed table is      *)
(* LocoTable's, here with room for every loco.  Clients are outside the    *)
(* repository: they come, send, vanish, and leave their id to the next.    *)
(***************************************************************************)
EXTENDS Integers, Sequences, SequencesExt

CONSTANTS
  Clients,       \* connection ids
  Cabs,          \* loco addresses
  Letters,       \* throttle letters on a client
  MAX_MY_LOCO,   \* locos of one client
  Speeds,        \* DCC speeds: 0 stop, 1 emergency stop, above is moving
  Timeout,       \* ticks without a message that make a client vanished
  MaxMessages    \* bound: messages of all the clients, and other switchings

ASSUME ThrottleAssumption ==
  /\ Cabs \subseteq Nat \ {0} /\ {"", "*"} \cap Letters = {}
  /\ MAX_MY_LOCO \in Nat \ {0} /\ Timeout \in Nat /\ Speeds \subseteq 0..127

VARIABLES
  throttles,   \* the list from firstThrottle on
  table,       \* cab -> [speed, forward]
  power,       \* the main track has power
  gone,        \* clients that no longer send
  told,        \* client -> the power state it was last told
  letGo,       \* cabs whose driver released them or quit
  messages

dcc == <<table, power>>
history == <<told, letGo>>
vars == <<throttles, dcc, gone, history, messages>>

Slots == 1..MAX_MY_LOCO
NoLoco == [throttle |-> "", cab |-> 0]

\* Slots as the LOOPLOCOS macro finds them; cab -1 is every cab.  The macro
\* takes the letter '*' for every slot, the empty ones too: no client is given it
\* (ThrottleAssumption).
Matching(wt, letter, cab) ==
  {s \in Slots : /\ wt.myLocos[s].throttle = letter
                 /\ wt.myLocos[s].cab = cab \/ cab < 0}
CabsOf(wt) ==
  {wt.myLocos[s].cab : s \in {t \in Slots : wt.myLocos[t].throttle # ""}}
Known(id) == {i \in DOMAIN throttles : throttles[i].client = id}

-----------------------------------------------------------------------------
(* The objects.                                                            *)

New(id) ==
  [client |-> id, myLocos |-> [s \in Slots |-> NoLoco], heartBeatEnable |-> FALSE,
   heartBeat |-> 0, initSent |-> FALSE, lastPowerState |-> FALSE]

\* Seeded fault: only the newest object is looked at.
getThrottleFirst(id) ==
  IF throttles # <<>> /\ throttles[1].client = id THEN throttles
  ELSE <<New(id)>> \o throttles

\* getThrottle: the list in which the client has an object.
getThrottle(id) ==
  IF Known(id) # {} THEN throttles ELSE <<New(id)>> \o throttles

-----------------------------------------------------------------------------
(* The messages: what each makes of the client's object wt, the speed      *)
(* table and the power, with the power state that goes to the client.      *)

Unchanged(wt) == [wt |-> wt, table |-> table, power |-> power,
                  tell |-> {}, free |-> {}, quit |-> FALSE]

\* DCC::setThrottle of each of these cabs, with the direction they have.
setThrottle(cabs, speed) ==
  [c \in Cabs |-> IF c \in cabs THEN [table[c] EXCEPT !.speed = speed] ELSE table[c]]

\* locoAction: V, X (speed 1), I and Q (speed 0) keep the direction.
Drive(wt, letter, cab, speed) ==
  LET cabs == {wt.myLocos[s].cab : s \in Matching(wt, letter, cab)}
  IN [Unchanged(wt) EXCEPT !.table = setThrottle(cabs, speed)]

\* locoAction R keeps the speed.
Turn(wt, letter, cab, forward) ==
  LET cabs == {wt.myLocos[s].cab : s \in Matching(wt, letter, cab)}
  IN [Unchanged(wt) EXCEPT !.table =
        [c \in Cabs |-> IF c \in cabs THEN [@[c] EXCEPT !.forward = forward] ELSE @[c]]]

\* multithrottle +: the first free slot, if there is one.
Add(wt, letter, cab) ==
  LET free == {s \in Slots : wt.myLocos[s].throttle = ""}
  IN {IF free = {} THEN Unchanged(wt)
      ELSE [Unchanged(wt) EXCEPT
              !.wt.myLocos[CHOOSE s \in free : \A t \in free : s <= t] =
                [throttle |-> letter, cab |-> cab]]}

\* multithrottle -: the loco stays in the speed table as it is.
Release(wt, letter, cab) ==
  LET slots == Matching(wt, letter, cab)
  IN [Unchanged(wt) EXCEPT
        !.free = {wt.myLocos[s].cab : s \in slots},
        !.wt.myLocos = [s \in Slots |->
           IF s \in slots THEN [@[s] EXCEPT !.throttle = ""] ELSE @[s]]]

\* * switches the heartbeat.
Heartbeat(wt, on) == [Unchanged(wt) EXCEPT !.wt.heartBeatEnable = on]

\* PPA switches the power and tells the client.
PowerMessage(wt, on) ==
  [Unchanged(wt) EXCEPT !.power = on, !.tell = {on}, !.wt.lastPowerState = on]

\* Seeded fault: what is sent is not remembered.
HelloForgetful(wt) ==
  [Unchanged(wt) EXCEPT !.tell = {power}, !.wt.initSent = TRUE]

\* HU: the client is connected, and told the power.
Hello(wt) ==
  [Unchanged(wt) EXCEPT !.tell = {power}, !.wt.initSent = TRUE,
                        !.wt.lastPowerState = power]

\* Q: the client is told to drop its locos, which run on, and its object goes.
Quit(wt) == [Unchanged(wt) EXCEPT !.quit = TRUE, !.free = CabsOf(wt)]

Effects(wt) ==
  {Heartbeat(wt, on) : on \in BOOLEAN} \cup {Hello(wt), Quit(wt)}
    \cup {PowerMessage(wt, on) : on \in BOOLEAN}
    \cup (UNION {Add(wt, letter, cab) : letter \in Letters, cab \in Cabs})
    \cup {Release(wt, letter, cab) : letter \in Letters, cab \in Cabs \cup {-1}}
    \cup {Turn(wt, letter, cab, forward)
            : letter \in Letters, cab \in Cabs \cup {-1}, forward \in BOOLEAN}
    \cup {Drive(wt, letter, cab, speed)
            : letter \in Letters, cab \in Cabs \cup {-1}, speed \in Speeds}

\* parse: every message is a heartbeat, and a connected client is first told
\* the power state if it is not the one it was told.  A message of one line: one
\* of several is several steps, and nothing follows Q, after which the code goes
\* on with the object that it has deleted.
parse ==
  \E id \in Clients \ gone :
    \E i \in DOMAIN getThrottle(id) :
      LET old == getThrottle(id)[i]
          news == IF old.initSent /\ old.lastPowerState # power THEN {power} ELSE {}
          wt == [old EXCEPT !.heartBeat = 0, !.lastPowerState =
                   IF old.initSent THEN power ELSE @]
      IN /\ old.client = id
         /\ \A j \in 1..(i - 1) : getThrottle(id)[j].client # id
         /\ \E effect \in Effects(wt) :
              LET heard == IF effect.tell # {} THEN effect.tell ELSE news
              IN /\ throttles' = IF effect.quit THEN RemoveAt(getThrottle(id), i)
                                 ELSE [getThrottle(id) EXCEPT ![i] = effect.wt]
                 /\ table' = effect.table /\ power' = effect.power
                 /\ told' = [told EXCEPT ![id] = IF heard = {} THEN @ ELSE heard]
                 /\ letGo' = (letGo \cup effect.free) \ UNION {CabsOf(throttles'[j]) : j \in DOMAIN throttles'}
         /\ messages < MaxMessages /\ messages' = messages + 1
         /\ UNCHANGED gone

-----------------------------------------------------------------------------
(* The heartbeat.                                                          *)

\* Seeded fault: a client that never said HU is not watched.
StaleAfterHello(wt) ==
  wt.initSent /\ wt.heartBeatEnable /\ wt.heartBeat > Timeout

Stale(wt) == wt.heartBeatEnable /\ wt.heartBeat > Timeout

\* Seeded fault: only the loco of the first slot is stopped.
StoppedFirstSlot(wt) == setThrottle({wt.myLocos[1].cab}, 1)

\* The emergency stop of all the locos of an object that is dropped.
Stopped(wt) == setThrottle(CabsOf(wt), 1)

\* WiThrottle::loop and checkHeartbeat.  The object is freed before its
\* nextThrottle is read: the walk may end there, or go on to the next stale
\* object, which is another step.  That the freed memory holds anything else by
\* then is left out.
loop ==
  \E i \in DOMAIN throttles :
    /\ Stale(throttles[i]) /\ \A j \in 1..(i - 1) : ~Stale(throttles[j])
    /\ throttles' = RemoveAt(throttles, i)
    /\ table' = Stopped(throttles[i])
    /\ UNCHANGED <<power, gone, history, messages>>

Tick ==
  /\ \E i \in DOMAIN throttles : throttles[i].heartBeat <= Timeout
  /\ throttles' = [i \in DOMAIN throttles |->
       [throttles[i] EXCEPT !.heartBeat = IF @ > Timeout THEN @ ELSE @ + 1]]
  /\ UNCHANGED <<dcc, gone, history, messages>>

-----------------------------------------------------------------------------
(* The clients, and the power commands of others.                          *)

Vanish == \E id \in Clients \ gone :
  gone' = gone \cup {id} /\ UNCHANGED <<throttles, dcc, history, messages>>

\* A new client is given the id of one that is gone.
Connect ==
  /\ messages < MaxMessages /\ messages' = messages + 1
  /\ \E id \in gone : gone' = gone \ {id} /\ told' = [told EXCEPT ![id] = {}]
  /\ UNCHANGED <<throttles, dcc, letGo>>

OthersSwitch ==
  /\ messages < MaxMessages /\ messages' = messages + 1
  /\ power' = ~power
  /\ UNCHANGED <<throttles, table, gone, history>>

Init ==
  /\ throttles = <<>> /\ power = FALSE
  /\ table = [c \in Cabs |-> [speed |-> 0, forward |-> TRUE]]
  /\ gone = {} /\ told = [id \in Clients |-> {}] /\ letGo = {} /\ messages = 0

Next == parse \/ loop \/ Tick \/ Vanish \/ Connect \/ OthersSwitch

Spec == Init /\ [][Next]_vars

\* Time passes and the main loop comes round; no client has to send.
FairSpec == Spec /\ WF_vars(loop) /\ WF_vars(Tick)

-----------------------------------------------------------------------------
(* Properties.                                                             *)

\* The list has one object for each client that is known, and no more
\* ("one WiThrottle instance created for each WiThrottle client").
TypeOK ==
  /\ \A i, j \in DOMAIN throttles :
       i # j => throttles[i].client # throttles[j].client
  /\ \A i \in DOMAIN throttles :
       throttles[i].heartBeat \in 0..(Timeout + 1)
  /\ table \in [Cabs -> [speed : 0..127, forward : BOOLEAN]]

\* A loco runs only under somebody's hand: one that moves is in some object's
\* list, or its driver let it go with a message.  In particular no client that
\* is dropped leaves a running loco behind, whichever slot or letter it had.
NoRunaway ==
  \A cab \in Cabs :
    table[cab].speed > 1 =>
      cab \in letGo \/ \E i \in DOMAIN throttles : cab \in CabsOf(throttles[i])

\* The locos of a client that vanished with its heartbeat on come to a stop,
\* unless another client drives them or the id has a new owner.
VanishedClientsLocosStop ==
  \A id \in Clients, cab \in Cabs :
    (id \in gone /\ \E i \in Known(id) :
        throttles[i].heartBeatEnable /\ cab \in CabsOf(throttles[i]))
    ~> (table[cab].speed <= 1 \/ id \notin gone
        \/ \E i \in DOMAIN throttles :
             throttles[i].client # id /\ cab \in CabsOf(throttles[i]))

\* What the server takes a client to know of the power is what the client was
\* last told, whoever switched it; a client that took over an id may have been
\* told nothing.
RememberedIsTold ==
  \A i \in DOMAIN throttles :
    throttles[i].initSent =>
      told[throttles[i].client] \in {{}, {throttles[i].lastPowerState}}
=============================================================================
