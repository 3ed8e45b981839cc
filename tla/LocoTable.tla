------------------------------- MODULE LocoTable -------------------------------
(***************************************************************************)
(* The speed table: what the station remembers of each loco, the throttle  *)
(* and function operations on it, and the reminders that the main loop     *)
(* sends round and round so that a loco that missed a packet obeys in the  *)
(* end.  The main track is its one-place mailbox (TrackPackets); packets   *)
(* may be lost on the rails.  The locos are outside the repository: they   *)
(* do what the packets they hear tell them.                                *)
(***************************************************************************)
EXTENDS Integers, FiniteSets, FiniteSetsExt

CONSTANTS
  MAX_LOCOS,    \* slots of the table
  Cabs,         \* addresses in use; negative ones come from careless clients
  Listening,    \* the locos that are on the track
  Speeds,       \* 0 is stop, 1 emergency stop, above is moving
  Functions,    \* the functions in use, of 0..28
  NoPacket,
  MaxCommands,  \* bound: operations of the users
  MaxLosses     \* bound: packets lost on the rails

ASSUME TableAssumption ==
  /\ MAX_LOCOS \in Nat \ {0} /\ Cabs \subseteq Int \ {0}
  /\ Listening \subseteq {c \in Cabs : c > 0}
  /\ Speeds \subseteq 0..127 /\ Speeds # {}
  /\ Functions \subseteq 0..28

VARIABLES
  speedTable,   \* slot -> [loco, speed, forward, groupFlags, functions]
  nextLoco,     \* the slot at which the search for the next loco begins
  loopStatus,   \* the next reminder of the current loco
  mailbox,      \* the packet waiting for the main track, or NoPacket
  locos,        \* what each loco does
  halted,       \* a broadcast stop was the last throttle command but stops
  commands, losses

users == <<halted, commands>>
vars == <<speedTable, nextLoco, loopStatus, mailbox, locos, users, losses>>

Slots == 0..(MAX_LOCOS - 1)
Groups == 1..5
Locos == {c \in Cabs : c > 0}

\* updateGroupflags
GroupOf(f) ==
  IF f <= 4 THEN 1 ELSE IF f <= 8 THEN 2 ELSE IF f <= 12 THEN 3
  ELSE IF f <= 20 THEN 4 ELSE 5
InGroup(g) == {f \in Functions : GroupOf(f) = g}

Free == [loco |-> 0, speed |-> 0, forward |-> FALSE, groupFlags |-> {},
         functions |-> {}]

SpeedPacket(cab, speed, forward) ==
  [kind |-> "speed", cab |-> cab, speed |-> speed, forward |-> forward]
FunctionPacket(cab, group, on) ==
  [kind |-> "functions", cab |-> cab, group |-> group, on |-> on]

Init ==
  /\ speedTable = [s \in Slots |-> Free]
  /\ nextLoco = 0 /\ loopStatus = 0 /\ mailbox = NoPacket
  /\ locos = [c \in Listening |-> [speed |-> 0, forward |-> FALSE, functions |-> {}]]
  /\ halted = FALSE
  /\ commands = 0 /\ losses = 0

-----------------------------------------------------------------------------
(* lookupSpeedTable: the slot of a loco, taking a free one for a loco that *)
(* has none; -1 when there is none to take.                                *)

SlotsOf(table, cab) == {s \in Slots : table[s].loco = cab}

\* Seeded fault: a free slot is preferred to the one the loco has.
LookupFreeFirst(table, cab) ==
  IF SlotsOf(table, 0) # {} THEN
    [reg |-> Min(SlotsOf(table, 0)),
     table |-> [table EXCEPT ![Min(SlotsOf(table, 0))] =
                  [Free EXCEPT !.loco = cab, !.forward = TRUE]]]
  ELSE IF SlotsOf(table, cab) # {} THEN
    [reg |-> Min(SlotsOf(table, cab)), table |-> table]
  ELSE [reg |-> -1, table |-> table]

Lookup(table, cab) ==
  IF SlotsOf(table, cab) # {} THEN
    [reg |-> Min(SlotsOf(table, cab)), table |-> table]
  ELSE IF SlotsOf(table, 0) # {} THEN
    [reg |-> Min(SlotsOf(table, 0)),
     table |-> [table EXCEPT ![Min(SlotsOf(table, 0))] =
                  [Free EXCEPT !.loco = cab, !.forward = TRUE]]]
  ELSE [reg |-> -1, table |-> table]

\* getThrottleDirection, and the table it leaves behind.
Direction(table, cab) ==
  LET found == Lookup(table, cab)
  IN found.reg >= 0 /\ found.table[found.reg].forward

\* Seeded fault: a broadcast is remembered as if 0 were a loco.
RememberWithoutBroadcast(table, cab, speed, forward) ==
  LET found == Lookup(table, cab)
  IN IF found.reg < 0 THEN table
     ELSE [found.table EXCEPT ![found.reg].speed = speed,
                              ![found.reg].forward = forward]

\* getThrottleSpeed: the -1 of a loco without a slot is returned as a byte, and
\* setThrottle keeps seven bits of it.
SpeedOf(table, cab) ==
  LET found == Lookup(table, cab)
  IN IF found.reg < 0 THEN 127 ELSE found.table[found.reg].speed

\* updateLocoReminder: a broadcast stops every slot and turns none.
Remember(table, cab, speed, forward) ==
  LET found == Lookup(table, cab)
  IN IF cab = 0 THEN [s \in Slots |-> [table[s] EXCEPT !.speed = speed]]
     ELSE IF found.reg < 0 THEN table
     ELSE [found.table EXCEPT ![found.reg].speed = speed,
                              ![found.reg].forward = forward]

-----------------------------------------------------------------------------
(* The operations of the users.  schedulePacket holds the caller until the *)
(* mailbox is empty.                                                       *)

Command ==
  /\ commands < MaxCommands /\ commands' = commands + 1
  /\ UNCHANGED <<nextLoco, loopStatus, locos, losses>>

setThrottle(table, cab, speed, forward) ==
  /\ mailbox = NoPacket
  /\ mailbox' = SpeedPacket(cab, speed, forward)
  /\ speedTable' = Remember(table, cab, speed, forward)
  /\ halted' = IF speed > 1 THEN FALSE ELSE (halted \/ cab = 0)

\* <t>: a broadcast may only stop.
ThrottleCommand ==
  \E cab \in Cabs \cup {0}, speed \in Speeds, forward \in BOOLEAN :
    /\ cab = 0 => speed <= 1
    /\ setThrottle(speedTable, cab, speed, forward)
    /\ Command

\* WiThrottle V, X, I and Q: keep the direction, which is read from the table
\* first.
WiThrottleSpeed ==
  \E cab \in Locos, speed \in Speeds :
    /\ setThrottle(Lookup(speedTable, cab).table, cab, speed,
                   Direction(speedTable, cab))
    /\ Command

\* WiThrottle R: keep the speed.
WiThrottleDirection ==
  \E cab \in Locos, forward \in BOOLEAN :
    /\ setThrottle(Lookup(speedTable, cab).table, cab,
                   SpeedOf(speedTable, cab), forward)
    /\ Command

\* Set or clear functions of a slot and mark their groups as touched.
Touched(table, reg, fns, on) ==
  [table EXCEPT ![reg].functions = on,
                ![reg].groupFlags = @ \cup {GroupOf(f) : f \in fns}]

\* funcmap: setFn of every function of a range.
setFunctions(cab, fns, on) ==
  LET found == Lookup(speedTable, cab)
  IN /\ cab > 0 /\ found.reg >= 0
     /\ speedTable' = Touched(found.table, found.reg, fns,
          (found.table[found.reg].functions \ fns) \cup on)
     /\ UNCHANGED <<mailbox, halted>>

setFn ==
  \E cab \in Cabs, f \in Functions, on \in BOOLEAN :
    /\ setFunctions(cab, {f}, IF on THEN {f} ELSE {})
    /\ Command

\* The first byte of the packet that reminds a loco of a group.
GroupByte(g) ==
  CASE g = 1 -> 128 [] g = 2 -> 176 [] g = 3 -> 160 [] g = 4 -> 222 [] g = 5 -> 223

\* parsef: the group that a first byte of <f> stands for (p[1] & 0xE0), or 0.
ParsedGroup(byte) ==
  CASE byte = 222 -> 4
    [] byte = 223 -> 5
    [] OTHER -> LET groupcode == (byte \div 32) * 32
                IN CASE groupcode = 128 -> 1 [] groupcode = 192 -> 2
                     [] groupcode = 160 -> 3 [] OTHER -> 0

\* <f>: a client sets a group's functions with the byte that the station
\* itself uses for them on the rails.
FunctionCommandFor(cab, g, on) ==
  LET parsed == ParsedGroup(GroupByte(g))
  IN on \subseteq InGroup(parsed) /\ setFunctions(cab, InGroup(parsed), on)

FunctionCommand ==
  \E cab \in Locos, g \in Groups, on \in SUBSET Functions :
    FunctionCommandFor(cab, g, on) /\ Command

\* changeFn: F2 is held, the others toggle when pressed.
changeFn ==
  \E cab \in Locos, f \in Functions, pressed \in BOOLEAN :
    LET found == Lookup(speedTable, cab)
        old == found.table[found.reg].functions
        on == IF f = 2 THEN (IF pressed THEN old \cup {f} ELSE old \ {f})
              ELSE IF ~pressed THEN old
              ELSE IF f \in old THEN old \ {f} ELSE old \cup {f}
    IN /\ found.reg >= 0
       /\ speedTable' = Touched(found.table, found.reg, {f}, on)
       /\ UNCHANGED <<mailbox, halted>>
       /\ Command

\* getThrottleSpeed and getThrottleDirection take a slot for an unknown loco.
QueryThrottle ==
  \E cab \in Locos :
    /\ speedTable' = Lookup(speedTable, cab).table
    /\ UNCHANGED <<mailbox, halted>>
    /\ Command

forgetLoco ==
  \E cab \in Cabs :
    LET found == Lookup(speedTable, cab)
    IN /\ speedTable' = IF found.reg < 0 THEN speedTable
                        ELSE [found.table EXCEPT ![found.reg].loco = 0]
       /\ UNCHANGED <<mailbox, halted>>
       /\ Command

forgetAllLocos ==
  /\ speedTable' = [s \in Slots |-> [speedTable[s] EXCEPT !.loco = 0]]
  /\ UNCHANGED <<mailbox, halted>>
  /\ Command

-----------------------------------------------------------------------------
(* issueReminders: one reminder of the loco whose turn it is.              *)

\* The slots in the order in which the search visits them.
Turn(s) == (s - nextLoco + MAX_LOCOS) % MAX_LOCOS
Used == {s \in Slots : speedTable[s].loco > 0}

Reminder(entry) ==
  IF loopStatus = 0 THEN SpeedPacket(entry.loco, entry.speed, entry.forward)
  ELSE IF loopStatus \in entry.groupFlags
  THEN FunctionPacket(entry.loco, loopStatus,
                      entry.functions \cap InGroup(loopStatus))
  ELSE NoPacket

\* Seeded fault: the same loco is reminded for ever.
RemindTheSame ==
  /\ mailbox = NoPacket
  /\ \E slot \in Used :
       /\ \A other \in Used : Turn(slot) <= Turn(other)
       /\ mailbox' = Reminder(speedTable[slot])
       /\ loopStatus' = IF loopStatus = 5 THEN 0 ELSE loopStatus + 1
  /\ UNCHANGED <<speedTable, nextLoco, locos, users, losses>>

\* Seeded fault: the reminders of a loco end one too late.
RemindOneTooMany ==
  /\ mailbox = NoPacket
  /\ \E slot \in Used :
       /\ \A other \in Used : Turn(slot) <= Turn(other)
       /\ mailbox' = Reminder(speedTable[slot])
       /\ loopStatus' = IF loopStatus = 6 THEN 0 ELSE loopStatus + 1
       /\ nextLoco' = IF loopStatus = 6 THEN slot + 1 ELSE nextLoco
  /\ UNCHANGED <<speedTable, locos, users, losses>>

issueReminders ==
  /\ mailbox = NoPacket
  /\ \E slot \in Used :
       /\ \A other \in Used : Turn(slot) <= Turn(other)
       /\ mailbox' = Reminder(speedTable[slot])
       /\ loopStatus' = IF loopStatus = 5 THEN 0 ELSE loopStatus + 1
       /\ nextLoco' = IF loopStatus = 5 THEN slot + 1 ELSE nextLoco
  /\ UNCHANGED <<speedTable, locos, users, losses>>

-----------------------------------------------------------------------------
(* The rails.                                                              *)

Obey(loco, cab, packet) ==
  CASE packet.kind = "speed" /\ packet.cab = 0 ->
         [loco EXCEPT !.speed = packet.speed]
    [] packet.kind = "speed" /\ packet.cab = cab ->
         [loco EXCEPT !.speed = packet.speed, !.forward = packet.forward]
    [] packet.kind = "functions" /\ packet.cab = cab ->
         [loco EXCEPT !.functions = (@ \ InGroup(packet.group)) \cup packet.on]
    [] OTHER -> loco

Transmit ==
  /\ mailbox # NoPacket /\ mailbox' = NoPacket
  /\ locos' = [c \in Listening |-> Obey(locos[c], c, mailbox)]
  /\ UNCHANGED <<speedTable, nextLoco, loopStatus, users, losses>>

Lose ==
  /\ mailbox # NoPacket /\ mailbox' = NoPacket
  /\ losses < MaxLosses /\ losses' = losses + 1
  /\ UNCHANGED <<speedTable, nextLoco, loopStatus, locos, users>>

Users ==
  \/ ThrottleCommand \/ WiThrottleSpeed \/ WiThrottleDirection
  \/ setFn \/ FunctionCommand \/ changeFn \/ QueryThrottle \/ forgetLoco \/ forgetAllLocos

Next == Users \/ issueReminders \/ Transmit \/ Lose

Spec == Init /\ [][Next]_vars

\* The interrupt takes what waits, and the main loop comes round again.
FairSpec == Spec /\ WF_vars(Transmit \/ Lose) /\ WF_vars(issueReminders)

-----------------------------------------------------------------------------
(* Properties.                                                             *)

\* Every variable keeps its range; nextLoco may be one past the last slot.
TypeOK ==
  /\ speedTable \in [Slots -> [loco : Cabs \cup {0}, speed : 0..127,
       forward : BOOLEAN, groupFlags : SUBSET Groups,
       functions : SUBSET Functions]]
  /\ nextLoco \in 0..MAX_LOCOS /\ loopStatus \in 0..5
  /\ halted \in BOOLEAN

\* A loco has one slot: with two, reminders would order it about in turn.
OneSlotPerLoco ==
  \A s, t \in Slots :
    s # t /\ speedTable[s].loco # 0 => speedTable[s].loco # speedTable[t].loco

\* After a broadcast stop no packet moves a loco until a user does: the table
\* that the reminders are made of was stopped with it, free slots included.
BroadcastStopHolds ==
  halted =>
    /\ \A s \in Slots : speedTable[s].speed <= 1
    /\ mailbox # NoPacket /\ mailbox.kind = "speed" => mailbox.speed <= 1

\* The groups that the code says it reminds a loco of again and again; of 4 and
\* 5 it says "dont send them again".
RepeatedGroups == 1..3

\* When the users fall silent every loco in the table comes to run as the
\* table says, though packets to it were lost, with the functions F0-F12 of
\* every group that a user has touched: its turn always comes, and every
\* reminder of its turn.
LocosObey ==
  <>[](\A s \in {u \in Used : speedTable[u].loco \in Listening} :
         LET entry == speedTable[s]
             loco == locos[entry.loco]
         IN /\ loco.speed = entry.speed /\ loco.forward = entry.forward
            /\ \A g \in entry.groupFlags \cap RepeatedGroups :
                 loco.functions \cap InGroup(g) = entry.functions \cap InGroup(g))
=============================================================================
