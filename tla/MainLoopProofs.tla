---------------------------- MODULE MainLoopProofs ----------------------------
(***************************************************************************)
(* Proofs about what the main loop does on its own, for every value of the *)
(* constants.  The reminders: the slots of the speed table stay apart, and *)
(* a broadcast stop is not undone by one.  The overload check: no track    *)
(* has power that nobody wants, and joined tracks are in phase.            *)
(***************************************************************************)
EXTENDS LocoTable, PowerMonitor, WellFoundedInduction, TLAPS

-----------------------------------------------------------------------------
(* The speed table and its reminders, for every number of slots and every  *)
(* set of locos, speeds and functions.                                     *)

USE TableAssumption

Entry ==
  [loco : Cabs \cup {0}, speed : 0..127, forward : BOOLEAN,
   groupFlags : SUBSET Groups, functions : SUBSET Functions]

\* A table that an operation may leave behind.
Sound(table) ==
  /\ table \in [Slots -> Entry]
  /\ \A s, t \in Slots : s # t /\ table[s].loco # 0 => table[s].loco # table[t].loco

\* No reminder made of it moves a loco.
Still(table) == \A s \in Slots : table[s].speed <= 1

IInv ==
  /\ Sound(speedTable)
  /\ nextLoco \in 0..MAX_LOCOS /\ loopStatus \in 0..5 /\ halted \in BOOLEAN
  /\ BroadcastStopHolds

-----------------------------------------------------------------------------
(* The first slot of a kind: a set of naturals has a least element.        *)

LEMMA LeastExists ==
  ASSUME NEW S, S \subseteq Nat, S # {} PROVE \E m \in S : \A n \in S : m <= n
  <1> DEFINE Less == {ss \in Nat \X Nat : ss[1] < ss[2]}
  <1>1. IsWellFoundedOn(Less, Nat)
    BY NatLessThanWellFounded DEF OpToRel
  <1>2. PICK m \in S : \A n \in S : ~ (<<n, m>> \in Less)
    <2> HIDE DEF Less
    <2> QED BY <1>1, WFMin
  <1>3. \A n \in S : ~(n < m)
    BY <1>2
  <1> QED BY <1>3

LEMMA FirstSlot ==
  ASSUME NEW table, NEW cab, SlotsOf(table, cab) # {}
  PROVE  /\ Min(SlotsOf(table, cab)) \in Slots
         /\ table[Min(SlotsOf(table, cab))].loco = cab
  <1>1. SlotsOf(table, cab) \subseteq Nat
    BY DEF SlotsOf, Slots
  <1>2. Min(SlotsOf(table, cab)) \in SlotsOf(table, cab)
    BY <1>1, LeastExists DEF Min
  <1> QED BY <1>2 DEF SlotsOf

-----------------------------------------------------------------------------
(* The operators on tables.                                                *)

\* One slot is written: the table stays sound if no other slot has the loco
\* that is written there.
LEMMA WriteSlot ==
  ASSUME NEW table, Sound(table), NEW reg \in Slots, NEW entry \in Entry,
         \/ entry.loco \in {0, table[reg].loco}
         \/ \A s \in Slots : table[s].loco # entry.loco
  PROVE  /\ Sound([table EXCEPT ![reg] = entry])
         /\ Still(table) /\ entry.speed <= 1 => Still([table EXCEPT ![reg] = entry])
  <1> DEFINE after == [table EXCEPT ![reg] = entry]
  <1>1. /\ after \in [Slots -> Entry]
        /\ \A s \in Slots : after[s] = IF s = reg THEN entry ELSE table[s]
    BY DEF Sound
  <1>2. Sound(after) /\ (Still(table) /\ entry.speed <= 1 => Still(after))
    <2> HIDE DEF after
    <2> QED BY <1>1 DEF Sound, Still
  <1> QED BY <1>2

\* lookupSpeedTable gives a loco its own slot, or a free one at speed 0.
LEMMA LookupSound ==
  ASSUME NEW table, Sound(table), NEW cab \in Cabs
  PROVE  /\ Sound(Lookup(table, cab).table)
         /\ Still(table) => Still(Lookup(table, cab).table)
         /\ Lookup(table, cab).reg \in Slots \cup {-1}
         /\ Lookup(table, cab).reg = -1 => Lookup(table, cab).table = table
  <1>1. CASE SlotsOf(table, cab) # {}
    <2>1. Lookup(table, cab) = [reg |-> Min(SlotsOf(table, cab)), table |-> table]
      BY <1>1 DEF Lookup
    <2>2. Min(SlotsOf(table, cab)) \in Slots
      BY <1>1, FirstSlot
    <2> QED BY <2>1, <2>2 DEF Slots
  <1>2. CASE SlotsOf(table, cab) = {} /\ SlotsOf(table, 0) # {}
    <2> DEFINE new == Min(SlotsOf(table, 0))
               entry == [Free EXCEPT !.loco = cab, !.forward = TRUE]
    <2>1. new \in Slots
      BY <1>2, FirstSlot
    <2>2. entry \in Entry /\ entry.loco = cab /\ entry.speed = 0
      <3>1. Free \in Entry /\ Free.speed = 0
        BY DEF Entry, Free
      <3> QED BY ZenonT(30), <3>1 DEF Entry
    <2>3. Lookup(table, cab) = [reg |-> new, table |-> [table EXCEPT ![new] = entry]]
      BY <1>2 DEF Lookup
    <2>4. \A s \in Slots : table[s].loco # cab
      BY <1>2 DEF SlotsOf
    <2> HIDE DEF new, entry
    <2>5. /\ Sound([table EXCEPT ![new] = entry])
          /\ Still(table) => Still([table EXCEPT ![new] = entry])
      BY <2>1, <2>2, <2>4, WriteSlot
    <2> QED BY <2>1, <2>3, <2>5 DEF Slots
  <1>3. CASE SlotsOf(table, cab) = {} /\ SlotsOf(table, 0) = {}
    BY <1>3 DEF Lookup
  <1> QED BY <1>1, <1>2, <1>3

\* updateLocoReminder.
LEMMA RememberSound ==
  ASSUME NEW table, Sound(table), NEW cab \in Cabs \cup {0},
         NEW speed \in 0..127, NEW forward \in BOOLEAN
  PROVE  /\ Sound(Remember(table, cab, speed, forward))
         /\ speed <= 1 /\ (cab = 0 \/ Still(table))
              => Still(Remember(table, cab, speed, forward))
  <1>1. CASE cab = 0
    <2> DEFINE after == [s \in Slots |-> [table[s] EXCEPT !.speed = speed]]
    <2>1. Remember(table, cab, speed, forward) = after
      BY <1>1 DEF Remember
    <2>2. /\ after \in [Slots -> Entry]
          /\ \A s \in Slots : after[s].loco = table[s].loco /\ after[s].speed = speed
      BY DEF Sound, Entry
    <2>3. Sound(after) /\ (speed <= 1 => Still(after))
      <3> HIDE DEF after
      <3> QED BY <2>2 DEF Sound, Still
    <2> QED BY <2>1, <2>3
  <1>2. CASE cab # 0 /\ Lookup(table, cab).reg = -1
    BY <1>2 DEF Remember
  <1>3. CASE cab # 0 /\ Lookup(table, cab).reg \in Slots
    <2> DEFINE kept == Lookup(table, cab).table
               reg == Lookup(table, cab).reg
               entry == [kept[reg] EXCEPT !.speed = speed, !.forward = forward]
    <2>1. Sound(kept) /\ (Still(table) => Still(kept))
      BY <1>3, LookupSound
    <2>2. reg \in Slots /\ ~(reg < 0)
      BY <1>3 DEF Slots
    <2>3. Remember(table, cab, speed, forward)
            = [kept EXCEPT ![reg].speed = speed, ![reg].forward = forward]
      BY <1>3, <2>2 DEF Remember
    <2> HIDE DEF kept, reg
    <2>4. kept[reg] \in Entry /\ kept \in [Slots -> Entry]
      BY <2>1, <2>2 DEF Sound
    <2>5. Remember(table, cab, speed, forward) = [kept EXCEPT ![reg] = entry]
      BY <2>2, <2>3, <2>4 DEF Entry
    <2>6. entry \in Entry /\ entry.loco = kept[reg].loco /\ entry.speed = speed
      BY <2>4 DEF Entry
    <2> HIDE DEF entry
    <2>7. /\ Sound([kept EXCEPT ![reg] = entry])
          /\ Still(kept) /\ speed <= 1 => Still([kept EXCEPT ![reg] = entry])
      BY <2>1, <2>2, <2>6, WriteSlot
    <2> QED BY <1>3, <2>1, <2>5, <2>7
  <1> QED BY <1>1, <1>2, <1>3, LookupSound

\* The functions of a slot.
LEMMA TouchedSound ==
  ASSUME NEW table, Sound(table), NEW reg \in Slots,
         NEW fns \in SUBSET Functions, NEW on \in SUBSET Functions
  PROVE  /\ Sound(Touched(table, reg, fns, on))
         /\ Still(table) => Still(Touched(table, reg, fns, on))
  <1> DEFINE groups == {GroupOf(f) : f \in fns}
             entry == [table[reg] EXCEPT !.functions = on,
                                         !.groupFlags = table[reg].groupFlags \cup groups]
  <1>1. groups \subseteq Groups
    BY DEF GroupOf, Groups
  <1>2. table[reg] \in Entry /\ table \in [Slots -> Entry]
    BY DEF Sound
  <1>3. Touched(table, reg, fns, on)
          = [table EXCEPT ![reg].functions = on, ![reg].groupFlags = @ \cup groups]
    BY DEF Touched
  <1> HIDE DEF groups
  <1>4. Touched(table, reg, fns, on) = [table EXCEPT ![reg] = entry]
    BY <1>2, <1>3 DEF Entry
  <1>5. /\ entry \in Entry /\ entry.loco = table[reg].loco
        /\ entry.speed = table[reg].speed
    BY <1>1, <1>2 DEF Entry
  <1> HIDE DEF entry
  <1>6. /\ Sound([table EXCEPT ![reg] = entry])
        /\ Still(table) /\ table[reg].speed <= 1 => Still([table EXCEPT ![reg] = entry])
    BY <1>5, WriteSlot
  <1> QED BY <1>4, <1>6 DEF Still

\* forgetLoco.
LEMMA ForgetSound ==
  ASSUME NEW table, Sound(table), NEW reg \in Slots
  PROVE  /\ Sound([table EXCEPT ![reg].loco = 0])
         /\ Still(table) => Still([table EXCEPT ![reg].loco = 0])
  <1> DEFINE entry == [table[reg] EXCEPT !.loco = 0]
  <1>1. entry \in Entry /\ entry.loco = 0 /\ entry.speed = table[reg].speed
    BY DEF Sound, Entry
  <1>2. [table EXCEPT ![reg].loco = 0] = [table EXCEPT ![reg] = entry]
    OBVIOUS
  <1> HIDE DEF entry
  <1> QED BY <1>1, <1>2, WriteSlot DEF Still

LEMMA QueriesTyped ==
  ASSUME NEW table, Sound(table), NEW cab \in Cabs
  PROVE  Direction(table, cab) \in BOOLEAN /\ SpeedOf(table, cab) \in 0..127
  <1>1. /\ Lookup(table, cab).reg \in Slots \cup {-1}
        /\ Lookup(table, cab).table \in [Slots -> Entry]
    BY LookupSound DEF Sound
  <1>2. CASE Lookup(table, cab).reg = -1
    BY <1>2 DEF Direction, SpeedOf
  <1>3. CASE Lookup(table, cab).reg \in Slots
    <2>1. Lookup(table, cab).table[Lookup(table, cab).reg] \in Entry
      BY <1>1, <1>3
    <2>2. ~(Lookup(table, cab).reg < 0) /\ Lookup(table, cab).reg >= 0
      BY <1>3 DEF Slots
    <2> QED BY <2>1, <2>2 DEF Direction, SpeedOf, Entry
  <1> QED BY <1>1, <1>2, <1>3

-----------------------------------------------------------------------------
(* The steps.                                                              *)

LEMMA InitIInv == Init => IInv
  <1>1. Free \in Entry /\ Free.loco = 0
    BY DEF Free, Entry
  <1>2. Init => Sound(speedTable)
    BY <1>1 DEF Init, Sound
  <1>3. Init => BroadcastStopHolds /\ halted \in BOOLEAN
    BY Zenon DEF Init, BroadcastStopHolds
  <1>4. Init => nextLoco \in 0..MAX_LOCOS /\ loopStatus \in 0..5
    BY DEF Init
  <1> QED BY <1>2, <1>3, <1>4 DEF IInv

\* DCC::setThrottle, on a table in which a loco may just have taken a slot.
LEMMA SetThrottleStep ==
  ASSUME IInv, NEW table, Sound(table), Still(speedTable) => Still(table),
         NEW cab \in Cabs \cup {0}, NEW speed \in 0..127, NEW forward \in BOOLEAN,
         setThrottle(table, cab, speed, forward), Command
  PROVE  IInv'
  <1>1. /\ Sound(speedTable')
        /\ speed <= 1 /\ (cab = 0 \/ Still(table)) => Still(speedTable')
    BY RememberSound DEF setThrottle
  <1>2. halted' \in BOOLEAN /\ (halted' => speed <= 1 /\ (halted \/ cab = 0))
    <2>1. halted' = IF speed > 1 THEN FALSE ELSE (halted \/ cab = 0)
      BY DEF setThrottle
    <2>2. halted \in BOOLEAN
      BY DEF IInv
    <2>3. CASE speed > 1
      BY <2>1, <2>3
    <2>4. CASE ~(speed > 1)
      <3>1. speed <= 1
        BY <2>4
      <3>2. halted' = (halted \/ cab = 0)
        BY <2>1, <2>4
      <3> QED BY <2>2, <3>1, <3>2, Zenon
    <2> QED BY <2>3, <2>4
  <1>3. halted => Still(table)
    BY DEF IInv, BroadcastStopHolds, Still
  <1>4. mailbox'.kind = "speed" /\ mailbox'.speed = speed
    BY DEF setThrottle, SpeedPacket
  <1>5. BroadcastStopHolds'
    BY <1>1, <1>2, <1>3, <1>4 DEF BroadcastStopHolds, Still
  <1>6. nextLoco' \in 0..MAX_LOCOS /\ loopStatus' \in 0..5
    BY DEF Command, IInv
  <1> QED BY <1>1, <1>2, <1>5, <1>6 DEF IInv

\* An operation that changes only the table, and moves no loco in it.
LEMMA TableStep ==
  ASSUME IInv, Sound(speedTable'), Still(speedTable) => Still(speedTable)',
         UNCHANGED <<mailbox, halted, nextLoco, loopStatus>>
  PROVE  IInv'
  <1>1. BroadcastStopHolds'
    BY DEF IInv, BroadcastStopHolds, Still
  <1> QED BY <1>1 DEF IInv, Sound

LEMMA SetFunctionsStep ==
  ASSUME IInv, NEW cab \in Cabs, NEW fns \in SUBSET Functions,
         NEW on \in SUBSET Functions, setFunctions(cab, fns, on), Command
  PROVE  IInv'
  <1> DEFINE found == Lookup(speedTable, cab)
             after == (found.table[found.reg].functions \ fns) \cup on
  <1>1. /\ Sound(found.table) /\ (Still(speedTable) => Still(found.table))
        /\ found.reg \in Slots
    BY LookupSound DEF setFunctions, IInv
  <1>2. found.table[found.reg].functions \subseteq Functions
    BY <1>1 DEF Sound, Entry
  <1>3. speedTable' = Touched(found.table, found.reg, fns, after)
    BY DEF setFunctions
  <1> HIDE DEF found
  <1>4. Sound(speedTable') /\ (Still(found.table) => Still(speedTable'))
    BY <1>1, <1>2, <1>3, TouchedSound
  <1>5. UNCHANGED <<mailbox, halted, nextLoco, loopStatus>>
    BY DEF setFunctions, Command
  <1> QED BY <1>1, <1>4, <1>5, TableStep DEF Still

LEMMA ReminderCalm ==
  ASSUME NEW entry \in Entry, Reminder(entry) # NoPacket,
         Reminder(entry).kind = "speed"
  PROVE  Reminder(entry).speed = entry.speed
  BY DEF Reminder, SpeedPacket, FunctionPacket

\* The users.
LEMMA UsersStep == ASSUME IInv, Users PROVE IInv'
  <1> USE DEF IInv
  <1>1. CASE ThrottleCommand
    <2>1. PICK cab \in Cabs \cup {0}, speed \in Speeds, forward \in BOOLEAN :
            setThrottle(speedTable, cab, speed, forward) /\ Command
      BY <1>1 DEF ThrottleCommand
    <2> QED BY SMTT(20), <2>1, SetThrottleStep
  <1>2. ASSUME NEW cab \in Locos, NEW speed \in 0..127, NEW forward \in BOOLEAN,
               setThrottle(Lookup(speedTable, cab).table, cab, speed, forward), Command
        PROVE  IInv'
    <2>1. cab \in Cabs
      BY DEF Locos
    <2>2. /\ Sound(Lookup(speedTable, cab).table)
          /\ Still(speedTable) => Still(Lookup(speedTable, cab).table)
      BY <2>1, LookupSound
    <2> QED BY <1>2, <2>1, <2>2, SetThrottleStep
  <1>3. CASE WiThrottleSpeed
    <2>1. PICK cab \in Locos, speed \in Speeds :
            /\ setThrottle(Lookup(speedTable, cab).table, cab, speed,
                           Direction(speedTable, cab))
            /\ Command
      BY <1>3 DEF WiThrottleSpeed
    <2>2. Direction(speedTable, cab) \in BOOLEAN
      BY QueriesTyped DEF Locos
    <2> QED BY <1>2, <2>1, <2>2
  <1>4. CASE WiThrottleDirection
    <2>1. PICK cab \in Locos, forward \in BOOLEAN :
            /\ setThrottle(Lookup(speedTable, cab).table, cab,
                           SpeedOf(speedTable, cab), forward)
            /\ Command
      BY <1>4 DEF WiThrottleDirection
    <2>2. SpeedOf(speedTable, cab) \in 0..127
      BY QueriesTyped DEF Locos
    <2> QED BY <1>2, <2>1, <2>2
  <1>5. CASE setFn
    <2>1. PICK cab \in Cabs, f \in Functions, on \in BOOLEAN :
            setFunctions(cab, {f}, IF on THEN {f} ELSE {}) /\ Command
      BY <1>5 DEF setFn
    <2>2. {f} \subseteq Functions /\ (IF on THEN {f} ELSE {}) \subseteq Functions
      OBVIOUS
    <2> QED BY <2>1, <2>2, SetFunctionsStep
  <1>6. CASE FunctionCommand
    <2>1. PICK cab \in Locos, g \in Groups, on \in SUBSET Functions :
            FunctionCommandFor(cab, g, on) /\ Command
      BY <1>6 DEF FunctionCommand
    <2> DEFINE fns == InGroup(ParsedGroup(GroupByte(g)))
    <2>2. fns \in SUBSET Functions
      BY DEF InGroup
    <2>3. setFunctions(cab, fns, on)
      BY <2>1 DEF FunctionCommandFor
    <2> HIDE DEF fns
    <2> QED BY <2>1, <2>2, <2>3, SetFunctionsStep DEF Locos
  <1>7. CASE changeFn
    <2>0. PICK cab \in Locos, f \in Functions :
            LET found == Lookup(speedTable, cab)
            IN /\ found.reg >= 0
               /\ \E on \in {found.table[found.reg].functions \cup {f},
                             found.table[found.reg].functions \ {f},
                             found.table[found.reg].functions} :
                    speedTable' = Touched(found.table, found.reg, {f}, on)
               /\ UNCHANGED <<mailbox, halted>>
               /\ Command
      BY <1>7 DEF changeFn
    <2>1. PICK on :
            LET found == Lookup(speedTable, cab)
            IN /\ on \in {found.table[found.reg].functions \cup {f},
                          found.table[found.reg].functions \ {f},
                          found.table[found.reg].functions}
               /\ found.reg >= 0
               /\ speedTable' = Touched(found.table, found.reg, {f}, on)
               /\ UNCHANGED <<mailbox, halted>>
               /\ Command
      BY <2>0
    <2> DEFINE found == Lookup(speedTable, cab)
    <2>2. /\ Sound(found.table) /\ (Still(speedTable) => Still(found.table))
          /\ found.reg \in Slots \cup {-1}
      BY LookupSound DEF Locos
    <2>3. found.reg \in Slots
      BY <2>1, <2>2
    <2>4. on \subseteq Functions
      BY <2>1, <2>2, <2>3 DEF Sound, Entry
    <2>5. speedTable' = Touched(found.table, found.reg, {f}, on)
      BY <2>1
    <2> HIDE DEF found
    <2>6. Sound(speedTable') /\ (Still(found.table) => Still(speedTable'))
      BY <2>2, <2>3, <2>4, <2>5, TouchedSound
    <2>7. UNCHANGED <<mailbox, halted, nextLoco, loopStatus>>
      BY <2>1 DEF Command
    <2> QED BY <2>2, <2>6, <2>7, TableStep DEF Still
  <1>8. CASE QueryThrottle
    <2>1. PICK cab \in Locos : speedTable' = Lookup(speedTable, cab).table
      BY <1>8 DEF QueryThrottle
    <2>2. /\ Sound(Lookup(speedTable, cab).table)
          /\ Still(speedTable) => Still(Lookup(speedTable, cab).table)
      BY LookupSound DEF Locos
    <2>3. UNCHANGED <<mailbox, halted, nextLoco, loopStatus>>
      BY <1>8 DEF QueryThrottle, Command
    <2> QED BY <2>1, <2>2, <2>3, TableStep DEF Still
  <1>9. CASE forgetLoco
    <2>1. PICK cab \in Cabs :
            LET found == Lookup(speedTable, cab)
            IN speedTable' = IF found.reg < 0 THEN speedTable
                             ELSE [found.table EXCEPT ![found.reg].loco = 0]
      BY <1>9 DEF forgetLoco
    <2> DEFINE found == Lookup(speedTable, cab)
    <2>2. /\ Sound(found.table) /\ (Still(speedTable) => Still(found.table))
          /\ found.reg \in Slots \cup {-1}
      BY LookupSound
    <2>3. \/ speedTable' = speedTable
          \/ /\ found.reg \in Slots
             /\ speedTable' = [found.table EXCEPT ![found.reg].loco = 0]
      BY <2>1, <2>2
    <2> HIDE DEF found
    <2>4. Sound(speedTable') /\ (Still(speedTable) => Still(speedTable'))
      BY <2>2, <2>3, ForgetSound
    <2>5. UNCHANGED <<mailbox, halted, nextLoco, loopStatus>>
      BY <1>9 DEF forgetLoco, Command
    <2> QED BY <2>4, <2>5, TableStep DEF Still
  <1>10. CASE forgetAllLocos
    <2>1. Sound(speedTable') /\ (Still(speedTable) => Still(speedTable'))
      BY SMTT(20), <1>10 DEF forgetAllLocos, Sound, Still, Entry
    <2>2. UNCHANGED <<mailbox, halted, nextLoco, loopStatus>>
      BY <1>10 DEF forgetAllLocos, Command
    <2> QED BY <2>1, <2>2, TableStep DEF Still
  <1> QED
    BY <1>1, <1>3, <1>4, <1>5, <1>6, <1>7, <1>8, <1>9, <1>10 DEF Users

\* A reminder says what the table says.
LEMMA RemindersStep == ASSUME IInv, issueReminders PROVE IInv'
  <1>1. PICK slot \in Used :
          /\ mailbox' = Reminder(speedTable[slot])
          /\ loopStatus' = IF loopStatus = 5 THEN 0 ELSE loopStatus + 1
          /\ nextLoco' = IF loopStatus = 5 THEN slot + 1 ELSE nextLoco
    BY DEF issueReminders
  <1>2. slot \in Slots /\ speedTable[slot] \in Entry
    BY DEF Used, IInv, Sound
  <1>3. nextLoco' \in 0..MAX_LOCOS /\ loopStatus' \in 0..5
    BY <1>1, <1>2 DEF IInv, Slots
  <1>4. UNCHANGED <<speedTable, halted>>
    BY DEF issueReminders, users
  <1>5. BroadcastStopHolds'
    BY <1>1, <1>2, <1>4, ReminderCalm DEF IInv, BroadcastStopHolds
  <1> QED BY <1>3, <1>4, <1>5 DEF IInv, Sound

LEMMA StepIInv == IInv /\ [Next]_vars => IInv'
  <1> SUFFICES ASSUME IInv, [Next]_vars PROVE IInv'
    OBVIOUS
  <1>1. CASE Transmit \/ Lose \/ UNCHANGED vars
    <2>1. /\ UNCHANGED <<speedTable, nextLoco, loopStatus, halted>>
          /\ mailbox' \in {mailbox, NoPacket}
      BY <1>1 DEF Transmit, Lose, vars, users
    <2> QED BY <2>1 DEF IInv, Sound, BroadcastStopHolds
  <1> QED BY <1>1, UsersStep, RemindersStep DEF Next

LEMMA TableInvariant == Spec => []IInv
  BY InitIInv, StepIInv, PTL DEF Spec

-----------------------------------------------------------------------------
(* The theorems.                                                           *)

\* Every variable of the speed table keeps its range, however many locos,
\* clients and commands there are: lookupSpeedTable never leaves the table.
THEOREM TableTyped == Spec => []TypeOK
  <1>1. IInv => TypeOK
    BY DEF IInv, TypeOK, Sound, Entry
  <1> QED BY <1>1, TableInvariant, PTL

\* No sequence of throttle, function and forget commands gives a loco a second
\* slot, from which reminders would contradict those of the first.
THEOREM SlotsStayApart == Spec => []OneSlotPerLoco
  <1>1. IInv => OneSlotPerLoco
    BY DEF IInv, OneSlotPerLoco, Sound
  <1> QED BY <1>1, TableInvariant, PTL

\* After a broadcast stop neither the table nor a packet on its way moves a
\* loco before a user does, free slots and the reminders included.
THEOREM BroadcastStopLasts == Spec => []BroadcastStopHolds
  <1>1. IInv => BroadcastStopHolds
    BY DEF IInv
  <1> QED BY <1>1, TableInvariant, PTL

-----------------------------------------------------------------------------
(* The power of the tracks, for every length of the waits and every width  *)
(* of sampleDelay.                                                         *)


\* Somebody answers for the power of a track.
Owned(t) == t \in wanted \/ (t = "prog" /\ autoPowerOff)

\* NoUnwantedPower is not inductive: an overloaded track has no power, but
\* will be given it again by the retry, so it has to be owned as well.
PowerInv ==
  /\ powerMode \in [Tracks -> {"OFF", "ON", "OVERLOAD"}]
  /\ powerPin \in [Tracks -> BOOLEAN]
  /\ \A t \in Tracks :
       /\ powerPin[t] => powerMode[t] = "ON"
       /\ powerMode[t] # "OFF" => interruptTimer /\ Owned(t)

\* Nor is JoinedTracksInPhase: the main signal counts only while the tracks
\* are joined.
PhaseInv == inStep => progTrackSyncMain /\ inPhase

-----------------------------------------------------------------------------
\* setPowerMode keeps the pins with the modes, and a track that it does not
\* switch off must have an owner afterwards.
LEMMA SetPowerModeKeeps ==
  ASSUME PowerInv, NEW tracks \in SUBSET Tracks, NEW mode \in {"OFF", "ON", "OVERLOAD"},
         setPowerMode(tracks, mode), UNCHANGED interruptTimer,
         \A t \in tracks : mode # "OFF" => Owned(t)',
         \A t \in Tracks \ tracks : Owned(t) => Owned(t)'
  PROVE  PowerInv'
  <1>1. CASE interruptTimer
    <2>1. /\ powerMode' = [t \in Tracks |-> IF t \in tracks THEN mode ELSE powerMode[t]]
          /\ powerPin' = [t \in Tracks |-> IF t \in tracks THEN mode = "ON" ELSE powerPin[t]]
      BY <1>1 DEF setPowerMode
    <2>2. powerMode' \in [Tracks -> {"OFF", "ON", "OVERLOAD"}]
      BY <2>1 DEF PowerInv
    <2>3. powerPin' \in [Tracks -> BOOLEAN]
      BY <2>1 DEF PowerInv
    <2>4. ASSUME NEW t \in Tracks
          PROVE  /\ (powerPin[t] => powerMode[t] = "ON")'
                 /\ (powerMode[t] # "OFF" => interruptTimer /\ Owned(t))'
      <3>1. CASE t \in tracks
        BY <1>1, <2>1, <3>1
      <3>2. CASE t \notin tracks
        BY <1>1, <2>1, <3>2 DEF PowerInv
      <3> QED BY <3>1, <3>2
    <2> QED BY <2>2, <2>3, <2>4 DEF PowerInv
  <1>2. CASE ~interruptTimer
    <2>1. UNCHANGED powerVars /\ \A t \in Tracks : powerMode[t] = "OFF"
      BY <1>2 DEF setPowerMode, PowerInv
    <2> QED BY <2>1 DEF PowerInv, powerVars
  <1> QED BY <1>1, <1>2

\* The steps that switch no power: the owners stay.
LEMMA NoSwitchKeeps ==
  ASSUME PowerInv, UNCHANGED <<powerVars, interruptTimer, wanted, autoPowerOff>>
  PROVE  PowerInv'
  BY DEF PowerInv, Owned, powerVars

LEMMA CheckPower ==
  ASSUME PowerInv, NEW t \in Tracks, checkPowerOverload(t) PROVE PowerInv'
  <1>1. UNCHANGED <<interruptTimer, wanted, autoPowerOff>>
    BY DEF checkPowerOverload, ackVars
  <1>2. \A u \in Tracks : Owned(u)' = Owned(u)
    BY <1>1 DEF Owned
  <1>3. CASE GoodSample(t) \/ SampleOff(t)
    BY <1>1, <1>3, NoSwitchKeeps DEF GoodSample, SampleOff, powerVars
  <1>4. CASE Overload(t) \/ Retry(t)
    <2>1. PICK mode \in {"ON", "OVERLOAD"} : setPowerMode({t}, mode)
      BY <1>4 DEF Overload, Retry
    <2>2. Owned(t)
      BY <1>4 DEF Overload, Retry, PowerInv
    <2> QED BY <1>1, <1>2, <2>1, <2>2, SetPowerModeKeeps
  <1> QED BY <1>3, <1>4 DEF checkPowerOverload

\* <1>, <0> and PPA.
LEMMA TellPower ==
  ASSUME PowerInv, NEW tracks \in SUBSET Tracks, NEW mode \in {"ON", "OFF"},
         Tell(tracks, mode)
  PROVE  PowerInv'
  <1>1. /\ setPowerMode(tracks, mode) /\ UNCHANGED <<interruptTimer, autoPowerOff>>
        /\ wanted' = IF mode = "ON" THEN wanted \cup tracks ELSE wanted \ tracks
    BY DEF Tell, ackVars
  <1>2. \A t \in tracks : mode # "OFF" => Owned(t)'
    BY <1>1 DEF Owned
  <1>3. \A t \in Tracks \ tracks : Owned(t) => Owned(t)'
    BY <1>1 DEF Owned
  <1> QED BY <1>1, <1>2, <1>3, SetPowerModeKeeps

LEMMA StepPower == PowerInv /\ [PowerNext]_monitorVars => PowerInv'
  <1> SUFFICES ASSUME PowerInv, [PowerNext]_monitorVars PROVE PowerInv'
    OBVIOUS
  <1>1. CASE PowerCommand
    <2>1. PICK tracks \in SUBSET Tracks, mode \in {"ON", "OFF"} : Tell(tracks, mode)
      BY <1>1 DEF PowerCommand, Tracks
    <2> QED BY <2>1, TellPower
  <1>2. CASE WiThrottlePower
    <2>1. {"main"} \in SUBSET Tracks
      BY DEF Tracks
    <2> QED BY <1>2, <2>1, TellPower DEF WiThrottlePower
  <1>3. CASE AutoPowerOn \/ doAutoPowerOff
    <2>1. \A t \in Tracks \ {"prog"} : Owned(t) => Owned(t)'
      BY <1>3 DEF AutoPowerOn, doAutoPowerOff, Owned
    <2>2. /\ UNCHANGED interruptTimer
          /\ \/ setPowerMode({"prog"}, "ON") /\ autoPowerOff'
             \/ setPowerMode({"prog"}, "OFF")
      BY <1>3 DEF AutoPowerOn, doAutoPowerOff
    <2>3. {"prog"} \in SUBSET Tracks
      BY DEF Tracks
    <2> QED BY <2>1, <2>2, <2>3, SetPowerModeKeeps DEF Owned
  <1>4. CASE Tick \/ AckWindow \/ setSignal \/ CurrentChanges \/ UNCHANGED monitorVars
    BY <1>4, NoSwitchKeeps
    DEF Tick, AckWindow, setSignal, CurrentChanges, monitorVars, ackVars
  <1> QED BY <1>1, <1>2, <1>3, <1>4, CheckPower DEF PowerNext

LEMMA StepPhase == PhaseInv /\ [PowerNext]_monitorVars => PhaseInv'
  <1> SUFFICES ASSUME PhaseInv, [PowerNext]_monitorVars PROVE PhaseInv'
    OBVIOUS
  <1> USE DEF PhaseInv
  <1>1. CASE PowerCommand
    BY <1>1 DEF PowerCommand, Tell
  <1>2. CASE setSignal
    BY <1>2 DEF setSignal, MainSignal, ProgSignal
  <1>3. CASE UNCHANGED signalVars
    BY <1>3 DEF signalVars
  <1>4. ASSUME NEW t \in Tracks, checkPowerOverload(t) PROVE UNCHANGED signalVars
    BY <1>4 DEF checkPowerOverload
  <1>5. CASE WiThrottlePower
    BY <1>5 DEF WiThrottlePower, Tell
  <1>6. CASE \/ Tick \/ AutoPowerOn \/ AckWindow \/ doAutoPowerOff
             \/ CurrentChanges \/ UNCHANGED monitorVars
    BY <1>3, <1>6 DEF Tick, AutoPowerOn, AckWindow, doAutoPowerOff, CurrentChanges, monitorVars
  <1> QED BY <1>1, <1>2, <1>3, <1>4, <1>5, <1>6 DEF PowerNext

-----------------------------------------------------------------------------
(* The theorems.                                                           *)

\* Whatever the user, WiThrottle, a programming operation and the overload
\* protection do to the power in turn, a track is on only with a waveform, and
\* only for the user or for an operation that will switch it off.
THEOREM PowerIsWanted == PowerSpec => []NoUnwantedPower
  <1>1. PowerInit => PowerInv
    BY DEF PowerInit, PowerInv
  <1>2. PowerInv => NoUnwantedPower
    BY DEF PowerInv, NoUnwantedPower, Owned
  <1> QED BY <1>1, <1>2, StepPower, PTL DEF PowerSpec

\* No interleaving of the two waveforms with <1 JOIN> and the commands that
\* part the tracks brings joined tracks out of phase.
THEOREM JoinedInPhase == PowerSpec => []JoinedTracksInPhase
  <1>1. PowerInit => PhaseInv
    BY DEF PowerInit, PhaseInv
  <1>2. PhaseInv => JoinedTracksInPhase
    BY DEF PhaseInv, JoinedTracksInPhase
  <1> QED BY <1>1, <1>2, StepPhase, PTL DEF PowerSpec
===============================================================================
