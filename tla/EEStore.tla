------------------------------- MODULE EEStore -------------------------------
(***************************************************************************)
(* The lists of turnouts, sensors and outputs, the commands that change    *)
(* them (<T>, <S>, <Z>, <E>, <e> and WiThrottle's PTA), and the EEPROM in  *)
(* which they survive the power.  Records are bytes, because the code      *)
(* addresses single bytes of them; a power cut may fall between any two    *)
(* byte writes of a store.                                                 *)
(***************************************************************************)
EXTENDS Integers, Sequences, SequencesExt

CONSTANTS
  TurnoutIds, SensorIds, OutputIds,   \* the ids the users give
  Flags,         \* the iFlags of outputs; three of their bits are used
  Size,          \* bytes of EEPROM; what lies beyond reads as 255
  MaxCommands,   \* bound: commands of the users
  MaxCuts        \* bound: power cuts in the middle of a store

Byte == 0..255
MaxWord == 65535
Word == 0..MaxWord
PositiveInt == 1..32767
OutputNumber == 0..32767   \* what may be given as an output's id, Outputs.cpp line 47

ASSUME StoreAssumption ==
  /\ TurnoutIds \subseteq PositiveInt /\ SensorIds \subseteq PositiveInt
  /\ OutputIds \subseteq OutputNumber /\ Flags \subseteq Byte
  /\ Size \in Nat /\ Size >= 12

VARIABLES turnouts, sensors, outputs,  \* the linked lists, first object first
          eeprom, commands, cuts

lists == <<turnouts, sensors, outputs>>
vars == <<lists, eeprom, commands, cuts>>

Flag(flags, mask) == (flags \div mask) % 2
Signed8(b) == IF b < 128 THEN b ELSE b - 256

\* get: the place of an id in a list, or 0.
PlaceOf(list, id) == SelectInSeq(list, LAMBDA object : object.id = id)

-----------------------------------------------------------------------------
(* The objects.                                                            *)

STATUS_ACTIVE == 128
STATUS_PWM == 64

\* data.tStatus of a turnout, and its two unions: the DCC address and
\* sub-address, or the servo's inactive angle and the way it moves from it.
Turnout == [id : Word, tStatus : Byte, low : Byte, high : Word]
Sensor == [id : Word, pin : Byte, pullUp : {0, 1}]
\* num: the place of the record of an output, or 0.
Output == [oStatus : Byte, id : Byte, pin : Byte, iFlag : Byte, num : Nat]

DCCTurnout(id, add, subAdd) ==
  [id |-> id, tStatus |-> 0, low |-> subAdd, high |-> add]
ServoTurnout(id, pin, activeAngle, inactiveAngle) ==
  [id |-> id, tStatus |-> STATUS_PWM + (pin % 64),
   low |-> (activeAngle - inactiveAngle) % 256, high |-> inactiveAngle % 65536]

\* create: an object that is there already changes where it is.
create(list, object, inFront) ==
  LET i == PlaceOf(list, object.id)
  IN IF i > 0 THEN [list EXCEPT ![i] = object]
     ELSE IF inFront THEN <<object>> \o list ELSE Append(list, object)

\* Seeded fault: the turnout is linked in front though it is there already.
createTurnoutTwice(list, turnout) == <<turnout>> \o list

\* Turnout::create: new ones in front.
createTurnout(list, turnout) == create(list, turnout, TRUE)

\* Sensor::create: new ones at the end.
createSensor(list, sensor) == create(list, sensor, FALSE)

\* Output::create: new ones at the end; one that is there keeps the place of its
\* record, num.  It is looked for by the id that was given, of which an object
\* has only the low byte.
createOutput(list, id, pin, iFlag, oStatus) ==
  LET i == PlaceOf(list, id)
      output == [oStatus |-> oStatus, id |-> id % 256, pin |-> pin, iFlag |-> iFlag,
                 num |-> IF i > 0 THEN list[i].num ELSE 0]
  IN IF i > 0 THEN [list EXCEPT ![i] = output] ELSE Append(list, output)

\* What an output is at power-up, and with saved = 0 when it is created.
PowerUpStatus(iFlag, saved) == IF Flag(iFlag, 2) = 1 THEN Flag(iFlag, 4) ELSE saved

-----------------------------------------------------------------------------
(* The EEPROM: a header of id and three counts, then the records.          *)

EESTORE_ID == <<68, 67, 67, 43, 43, 0>>   \* "DCC++"
HeaderSize == 12

Int16(n) == <<n % 256, (n \div 256) % 256>>
Header(nTurnouts, nSensors, nOutputs) ==
  EESTORE_ID \o Int16(nTurnouts) \o Int16(nSensors) \o Int16(nOutputs)

TurnoutBytes(t) == Int16(t.id) \o <<t.tStatus, t.low>> \o Int16(t.high)
SensorBytes(s) == Int16(s.id) \o <<s.pin, s.pullUp>>
OutputBytes(o) == <<o.oStatus, o.id, o.pin, o.iFlag>>

Cell(image, a) == IF a \in DOMAIN image THEN image[a] ELSE 255
IntAt(image, a) == Cell(image, a) + 256 * Cell(image, a + 1)
Put(image, at, bytes) ==
  [a \in DOMAIN image |->
     IF a \in at..(at + Len(bytes) - 1) THEN bytes[a - at + 1] ELSE image[a]]

\* Where the record of the i-th output lies behind t turnouts and s sensors.
OutputPlace(t, s, i) == HeaderSize + 6 * t + 4 * s + 4 * (i - 1)

\* The b-th byte of records of one size: in which record, and where in it.
Record(b, size) == ((b - 1) \div size) + 1
Within(b, size) == ((b - 1) % size) + 1

Records(ts, ss, os) ==
  LET t == 6 * Len(ts)
      s == 4 * Len(ss)
  IN [b \in 1..(t + s + 4 * Len(os)) |->
        IF b <= t THEN TurnoutBytes(ts[Record(b, 6)])[Within(b, 6)]
        ELSE IF b <= t + s THEN SensorBytes(ss[Record(b - t, 4)])[Within(b - t, 4)]
        ELSE OutputBytes(os[Record(b - t - s, 4)])[Within(b - t - s, 4)]]
First(bytes, n) == SubSeq(bytes, 1, IF n < Len(bytes) THEN n ELSE Len(bytes))

\* Seeded fault: the counts before the records they count.
StoreHeaderFirst(image, ts, ss, os, n) ==
  LET header == Header(Len(ts), Len(ss), Len(os))
  IN Put(Put(image, 0, First(header, n)),
         HeaderSize, First(Records(ts, ss, os), n - HeaderSize))

\* EEStore::store after n of its byte writes: the records first, then the
\* header with their counts.
StoreBytes(image, ts, ss, os, n) ==
  LET records == Records(ts, ss, os)
  IN Put(Put(image, HeaderSize, First(records, n)),
         0, First(Header(Len(ts), Len(ss), Len(os)), n - Len(records)))

\* EEStore::init: a store without its id is erased.
init(image) ==
  IF \A i \in 1..6 : Cell(image, i - 1) = EESTORE_ID[i] THEN image
  ELSE Put(image, 0, Header(0, 0, 0))

\* The counts in the header: a negative one counts as none.
Count(image, a) == IF IntAt(image, a) < 32768 THEN IntAt(image, a) ELSE 0
nTurnouts(image) == Count(image, 6)
nSensors(image) == Count(image, 8)
nOutputs(image) == Count(image, 10)

\* A turnout as load makes it: a servo is created again from angles that are
\* read as (inactive, move) and taken for (active, inactive).
TurnoutAt(image, a) ==
  LET t == [id |-> IntAt(image, a), tStatus |-> Cell(image, a + 2),
            low |-> Cell(image, a + 3), high |-> IntAt(image, a + 4)]
  IN IF Flag(t.tStatus, STATUS_PWM) = 0 THEN t
     ELSE [ServoTurnout(t.id, 0, t.high, Signed8(t.low)) EXCEPT !.tStatus = t.tStatus]

SensorAt(image, a) ==
  [id |-> IntAt(image, a), pin |-> Cell(image, a + 2),
   pullUp |-> IF Cell(image, a + 3) = 0 THEN 0 ELSE 1]

OutputAt(image, a) ==
  [oStatus |-> PowerUpStatus(Cell(image, a + 3), Cell(image, a)), id |-> Cell(image, a + 1),
   pin |-> Cell(image, a + 2), iFlag |-> Cell(image, a + 3), num |-> a]

\* The list that grows from objects created one after the other.
Created(objects, inFront) ==
  LET list[i \in 0..Len(objects)] ==
        IF i = 0 THEN <<>> ELSE create(list[i - 1], objects[i], inFront)
  IN list[Len(objects)]

\* The records, as many as the header counts.
TurnoutsIn(image) ==
  [i \in 1..nTurnouts(image) |-> TurnoutAt(image, HeaderSize + 6 * (i - 1))]
SensorsIn(image) ==
  [i \in 1..nSensors(image) |->
     SensorAt(image, HeaderSize + 6 * nTurnouts(image) + 4 * (i - 1))]
OutputsIn(image) ==
  [i \in 1..nOutputs(image) |->
     OutputAt(image, OutputPlace(nTurnouts(image), nSensors(image), i))]

\* Turnout::load, Sensor::load and Output::load, in that order.
load(image) ==
  [turnouts |-> Created(TurnoutsIn(image), TRUE),
   sensors |-> Created(SensorsIn(image), FALSE),
   outputs |-> Created(OutputsIn(image), FALSE)]

-----------------------------------------------------------------------------
(* The commands.                                                           *)

Init ==
  /\ turnouts = <<>> /\ sensors = <<>> /\ outputs = <<>>
  /\ eeprom = init([a \in 0..(Size - 1) |-> 255])
  /\ commands = 0 /\ cuts = 0

Command == commands < MaxCommands /\ commands' = commands + 1 /\ UNCHANGED cuts

\* <T id addr subaddr>, and a sketch that defines a servo.
DefineTurnout ==
  /\ \E id \in TurnoutIds :
       \E turnout \in {DCCTurnout(id, 5, 1), ServoTurnout(id, 3, 90, 60)} :
         turnouts' = createTurnout(turnouts, turnout)
  /\ Command /\ UNCHANGED <<sensors, outputs, eeprom>>

RemoveTurnout ==
  /\ \E id \in TurnoutIds :
       PlaceOf(turnouts, id) > 0 /\ turnouts' = RemoveAt(turnouts, PlaceOf(turnouts, id))
  /\ Command /\ UNCHANGED <<sensors, outputs, eeprom>>

WithState(t, state) ==
  [t EXCEPT !.tStatus = (@ % STATUS_ACTIVE) + (IF state THEN STATUS_ACTIVE ELSE 0)]

\* <T id 0|1>: Turnout::activate(bool) leaves the EEPROM alone.
ActivateTurnout ==
  /\ \E id \in TurnoutIds, state \in BOOLEAN :
       LET i == PlaceOf(turnouts, id)
       IN i > 0 /\ turnouts' = [turnouts EXCEPT ![i] = WithState(@, state)]
  /\ Command /\ UNCHANGED <<sensors, outputs, eeprom>>

\* WiThrottle's PTA: makes the turnout if there is none, and Turnout::activate
\* (int, bool) writes its status to the EEPROM address that its id names.
ThrowTurnout ==
  /\ \E id \in TurnoutIds, state \in BOOLEAN :
       LET made == IF PlaceOf(turnouts, id) > 0 THEN turnouts
                   ELSE createTurnout(turnouts,
                          DCCTurnout(id, (id - 1) \div 4 + 1, (id - 1) % 4))
           i == PlaceOf(made, id)
       IN /\ turnouts' = [made EXCEPT ![i] = WithState(@, state)]
          /\ eeprom' = Put(eeprom, id, <<turnouts'[i].tStatus>>)
  /\ Command /\ UNCHANGED <<sensors, outputs>>

DefineSensor ==
  /\ \E id \in SensorIds, pullUp \in {0, 1} :
       sensors' = createSensor(sensors, [id |-> id, pin |-> 22, pullUp |-> pullUp])
  /\ Command /\ UNCHANGED <<turnouts, outputs, eeprom>>

RemoveSensor ==
  /\ \E id \in SensorIds :
       PlaceOf(sensors, id) > 0 /\ sensors' = RemoveAt(sensors, PlaceOf(sensors, id))
  /\ Command /\ UNCHANGED <<turnouts, outputs, eeprom>>

\* <Z id pin iflag>
DefineOutput ==
  /\ \E id \in OutputIds, iFlag \in Flags :
       outputs' = createOutput(outputs, id, 30, iFlag, PowerUpStatus(iFlag, 0))
  /\ Command /\ UNCHANGED <<turnouts, sensors, eeprom>>

RemoveOutput ==
  /\ \E id \in OutputIds :
       PlaceOf(outputs, id) > 0 /\ outputs' = RemoveAt(outputs, PlaceOf(outputs, id))
  /\ Command /\ UNCHANGED <<turnouts, sensors, eeprom>>

\* <Z id state>: Output::activate writes through to the record, if it has one.
ActivateOutput ==
  /\ \E id \in OutputIds, state \in {0, 1} :
       LET i == PlaceOf(outputs, id)
       IN /\ i > 0
          /\ outputs' = [outputs EXCEPT ![i].oStatus = state]
          /\ eeprom' = IF outputs[i].num = 0 THEN eeprom
                       ELSE Put(eeprom, outputs[i].num, <<state>>)
  /\ Command /\ UNCHANGED <<turnouts, sensors>>

\* <E>: Output::store notes where it put each output.
store ==
  /\ eeprom' = StoreBytes(eeprom, turnouts, sensors, outputs,
                          HeaderSize + Len(Records(turnouts, sensors, outputs)))
  /\ outputs' = [i \in DOMAIN outputs |->
       [outputs[i] EXCEPT !.num = OutputPlace(Len(turnouts), Len(sensors), i)]]
  /\ Command /\ UNCHANGED <<turnouts, sensors>>

\* <e>: the records stay where they are, and so do the outputs' places.
clear ==
  /\ eeprom' = Put(eeprom, 0, Header(0, 0, 0))
  /\ Command /\ UNCHANGED lists

PowerUpFrom(image) ==
  LET found == load(init(image))
  IN /\ eeprom' = init(image)
     /\ turnouts' = found.turnouts /\ sensors' = found.sensors
     /\ outputs' = found.outputs

\* The power goes and comes back.
Restart == PowerUpFrom(eeprom) /\ UNCHANGED <<commands, cuts>>

\* It goes while <E> is writing.
CutStore ==
  /\ cuts < MaxCuts /\ cuts' = cuts + 1 /\ UNCHANGED commands
  /\ \E n \in 1..(HeaderSize + Len(Records(turnouts, sensors, outputs)) - 1) :
       PowerUpFrom(StoreBytes(eeprom, turnouts, sensors, outputs, n))

Next ==
  \/ DefineTurnout \/ RemoveTurnout \/ ActivateTurnout \/ ThrowTurnout
  \/ DefineSensor \/ RemoveSensor
  \/ DefineOutput \/ RemoveOutput \/ ActivateOutput
  \/ store \/ clear \/ Restart \/ CutStore

Spec == Init /\ [][Next]_vars

-----------------------------------------------------------------------------
(* Properties.                                                             *)

\* The objects of the lists as Retention sees them, without the places of
\* their records, and servos without their angles, which load does not keep.
WithoutAngles(t) ==
  IF Flag(t.tStatus, STATUS_PWM) = 0 THEN t ELSE [t EXCEPT !.low = 0, !.high = 0]

Objects(ts, ss, os) ==
  [k \in {"turnout", "sensor", "output"} |->
     CASE k = "turnout" -> {WithoutAngles(t) : t \in ToSet(ts)}
       [] k = "sensor" -> ToSet(ss)
       [] k = "output" -> {[o EXCEPT !.num = 0] : o \in ToSet(os)}]

\* What an EEPROM holds, output states as they were written.
KeptIn(image) ==
  LET found == load(init(image))
      Saved(o) == [o EXCEPT !.oStatus = Cell(image, o.num)]
  IN Objects(found.turnouts, found.sensors,
             [i \in DOMAIN found.outputs |-> Saved(found.outputs[i])])

\* The lists hold objects whose bytes are bytes, each id at most once (for the
\* ids that fit into an object), and an output's place is that of a record.
TypeOK ==
  /\ eeprom \in [0..(Size - 1) -> Byte]
  /\ turnouts \in Seq(Turnout) /\ sensors \in Seq(Sensor) /\ outputs \in Seq(Output)
  /\ \A list \in {turnouts, sensors, outputs} : \A i, j \in DOMAIN list :
       i # j => list[i].id # list[j].id
  /\ \A o \in ToSet(outputs) : o.num = 0 \/ o.num >= HeaderSize
=============================================================================
