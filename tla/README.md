# CVReader: a verification project

TLA+ models of the CVReader DCC command station (the repository in `src/`), the
TLC runs that check them, and the theorems about them that TLAPS checks. Every
definition that models code is translated from the C++ source; `PROJECT.json`
(`map`) gives the lines of each.

CVReader turns text commands (serial, Wifi, Ethernet; JMRI style `<...>` or
WiThrottle) into DCC packets on two tracks: the main track, on which locos are
driven, and the programming track, on which one decoder's configuration
variables (CVs) are read and written by asking questions that the decoder
answers with a pulse of current.

## 1. Inventory

| Component | State | Operations | Talks to |
|---|---|---|---|
| DCC waveform generator (`DCCWaveform.cpp/.h`), one object per track | bit state (`state`, `currentBit`, `bits_sent`, `bytes_sent`, `remainingPreambles`), packet on the rails, packet pending, `sentResetsSincePacket`, ack window | timer interrupt (`interrupt1`, `interrupt2`, `checkAck`); from the main loop `schedulePacket`, `setAckPending`, `getAck` | shared variables, without locks, between the 58 us interrupt and the main loop |
| Ack manager (`DCC.cpp`) | running program and position, CV, byte, bit number, stash, `ackReceived`, callback | the API (`readCV`, `writeCVByte`, `getLocoId`, ...), the interpreter `ackManagerLoop`, `callback` | programming track; called back: parser, sketch |
| Speed table and reminders (`DCC.cpp`) | `speedTable`, `nextLoco`, `loopStatus` | `setThrottle`, `setFn`, `changeFn`, queries, `forgetLoco`, `issueReminders` | main track mailbox; users: parser, WiThrottle |
| Accessory and main-track CV packets (`DCC.cpp`) | none | build bytes, `schedulePacket` | main track |
| Power monitor (`DCCWaveform::checkPowerOverload`, `setPowerMode`) | `powerMode`, `sampleDelay`, `power_good_counter`, `lastCurrent`, `autoPowerOff` | sample, trip, back off, retry | motor driver; ack manager (automatic power); interrupt (writes `lastCurrent`) |
| Command parser (`DCCEXParser.cpp`) | input buffer, in-command flag, the static stash of one pending programming reply | stream assembly in `loop`, `parse`, stash callbacks | DCC API, turnouts, outputs, sensors, store |
| WiThrottle server (`WiThrottle.cpp`) | a list of clients: up to 10 locos each, heartbeat time, last power state told, turnout hash | command parsing, heartbeat | speed table, power, turnouts |
| Wifi AT interface (`WifiInterface.cpp`, `MemStream`) | `loopstate`, one shared request/reply buffer, `connectionId`, `loopTimeoutStart` | `loop`, the modem's replies | parser, WiThrottle, the modem |
| Socket transports (`Transport`, `WifiTransport`, `EthernetTransport`, `NetworkInterface`) | client table | `setup`, `loop`, `tcpHandler`, `udpHandler` | parser |
| Turnouts, outputs, sensors, EEStore | linked lists in RAM; counts and records in EEPROM | create, remove, activate, store, load | parser, servo driver |
| Servo driver, motor drivers, analog reads, timers, formatting | chip registers | pure I/O | |
| Sketches (`CVReader.cpp`, `examples/`) | | `loop()`: `DCC::loop`, network, serial parser, in this order for ever | everything |

What is hard here:

* **The interrupt hand-off.** `schedulePacket` spins on `packetPending`, then
  fills the pending buffer in plain statements; the interrupt may fall between
  any two of them and copies the buffer when the packet on the rails ends. Only
  `packetPending` and `sentResetsSincePacket` are volatile.
* **Counting resets.** `sentResetsSincePacket` is raised when a reset *begins*,
  cleared in three, and is at once the pacing of programming questions, the
  timeout of the ack window and the settling time after power-up.
* **Lost answers.** A read builds its byte from the *absence* of answers.
* **Power** is switched by the user, the overload protection and the ack
  manager, while an operation is half-way.
* **Replaced operations.** The programming API overwrites a running operation.
* **The one-pass table lookup** and the round of reminders that repairs lost
  packets.
* **Streams.** A serial buffer that overflows, TCP reads that cut a command or
  hold two, repeated datagrams, and one static stash of programming replies for
  all of them.
* **The modem** answers, prompts, is busy and delivers new requests in one
  stream of characters, while one buffer holds request and reply.
* **Clients vanish.** Heartbeats stop their locos; connection ids and socket
  slots are used again.
* **Persistence.** Records, then counts, byte by byte; single bytes of a record
  are written again in normal use.

What makes each component correct: *waveform*: every posted packet is heard
whole, checksummed, in order, as often as asked, and every bit is balanced; *ack
manager*: a result is the decoder's truth or -1, and every operation comes to its
end; *power*: what was switched on automatically is switched off again; *speed
table*: one slot per loco, a broadcast stop lasts, every loco comes to run as the
table says; *parser and WiThrottle*: a command is executed once or refused, and
reaches the state it names; *store*: a restart restores what was stored.

All hazards, each at its line and with the properties that cover it, are in
`PROJECT.json` under `hazards`; those without a property say why.

## 2. Plan

Order: most important behaviour first.

| Step | Modules | State |
|---|---|---|
| 1 | `PacketChannel`, `TrackPackets` (abstract), `DCCWaveform` (detailed), `WaveformProperties`, `WaveformProofs` | done |
| 2 | `AckManager`, `AckProperties` on an abstract channel; `ProgTrack`, which composes them with `TrackPackets` and power | done |
| 3 | `LocoTable` | done |
| 4 | `PowerMonitor`: overload check with its times, power commands, joined tracks | done |
| 5 | `DCCEXParser`, and `Transport`, which composes it with the sockets and the main loop | done |
| 6 | `WiThrottle` | done |
| 7 | `WifiInterface` with a modem | done |
| 8 | `Retention` (abstract), `EEStore` (detailed) | done |
| 9 | `AckProofs`, `ProgTrackProofs`, `MainLoopProofs`, `ThrottleProofs`, `WifiProofs`, `TransportProofs`, and the refinements in `WaveformProofs` | done |
| 10 | `StoreProofs`: theorems about `EEStore` and its refinement of `Retention` | done |

Every safety property that a passing run checks is a theorem (section 5). No
module declares a RECURSIVE operator.

Composition: `ProgTrack` takes the ack manager and the track together;
`Transport` the parser, the sockets, the serial line and the main loop; `PowerMonitor`
both tracks and everybody who switches them. The speed table appears in
`WiThrottle` with room for every loco, because the hazards of a full table are
`LocoTable`'s. `WifiInterface` executes a request in one step: what the parser
and the throttles do with it is theirs.

## 3. The modules and the code

### `DCCWaveform`: one track, bit by bit

One step of `interruptHandler` is one timer interrupt of one track: `interrupt1`'s
state machine, and `interrupt2` when a bit starts (`BitStart`), `checkAck` when
not (`BitRest`). The interrupt is atomic for the main loop. Each statement of
`schedulePacket` and `setAckPending` that touches shared state is an action of
its own: `schedulePacket` (the call), `LeaveSpin`, `CopyByte`, `AddChecksum`,
`SetLength`, `SetRepeats`, `PostPacket`, `ClearResets`, `ForgetAck`,
`OpenWindow`; `pc` says which is next. `RestartResets` is BASELINE's write to the
counter. `Init` is the state after static construction: the first "packet" is
one byte without a preamble, since the constructor sets no length.

`decoder` is the receiver on the rails (external): preamble, zero, byte, ... ,
stop bit. It lets the properties speak of what is *heard*. `halves` records the
interrupts of the current bit spent high and low.

Assumption: the compiler keeps the order of `schedulePacket`'s stores. The
language does not promise it for the non-volatile ones; `schedulePacket` makes no
call after the loop, so the order of the source is what is modelled.

`ackPulse` stands for `ackPulseStart` and the clock: 0, or one more than the
interrupts since the leading edge. `ackPulseDuration` is cut to `PulseWrap`, the
range of the 16-bit `unsigned int` of the AVR boards. The current above the
threshold or not is an input.

`CallerReady` is the ack manager's guard on the programming track: it calls
only after `checkResets(RESET_MIN)`, and never with a window open, because a WACK
follows each question. `ProgTrack` drops this assumption about the caller and
models the caller instead.

### `PacketChannel` and `TrackPackets`: what a track promises

`PacketChannel` is the promise seen from the rails: submitted packets are heard
whole, in order, as often as asked; an answer may cut the copies short but never
the last one; nothing else is heard but filler. `TrackPackets` is the track a
packet at a time, with the mailbox, the counter and the window; it is the
interface that `ProgTrack` composes with. `DCCWaveform` implements both
(`EveryPacketIsHeard`, `ImplementsTrackPackets`, with the refinement mappings in
`WaveformProperties`).

### `AckManager`: the interpreter

One action per opcode (`Baseline`, `Send` for W0 W1 V0 V1 WB VB, `Collect` for
WACK, `IfTrueCallback` for ITC0 ITC1 ITCB, `FailCallback` for FAIL and NAKFAIL, `Merge`,
`Skip`, ...). `Program` holds the nine programs of `DCC.cpp` opcode by opcode,
as the code has them.
Registers keep their eight bits. The channel holds one question; its answer may
be lost at any time. The decoder (`Hear`, `Executed`, `Acknowledges`) is external.
A blocking call (the code's loop around `ackManagerLoop`) lets nobody else call;
any other may be replaced, by another caller or by its own.

### `ProgTrack`: ack manager + track + power

INSTANCEs `AckProperties` and `TrackPackets` over shared variables. The main loop
is one process: it is between two calls (`stage = "free"`) or inside
`schedulePacket`/`setAckPending`; the interrupt (`PacketPasses`, `PacketHeard`,
`Acknowledge`, `CloseWindow`) runs between its statements. `AutoPowerOn` is the
"turning on" branch of BASELINE, `doAutoPowerOff` runs in every callback.
`UserPower`, `Overload`, `RetryPower` switch the track. A decoder without power
hears nothing and answers nothing, but packets go on being consumed, as the note
at `DCCWaveform.cpp:171` demands.

### `LocoTable`: speed table and reminders

`Lookup` is `lookupSpeedTable`, slot-taking included: every operation that calls
it takes a slot as a side effect, as the code does (queries too). `ThrottleCommand`,
`WiThrottleSpeed`, `WiThrottleDirection`, `setFn`, `FunctionCommand`, `changeFn`,
`QueryThrottle`, `forgetLoco`, `forgetAllLocos` are the users; `issueReminders`
is one call of the loop's reminder; `Transmit` and `Lose` are the track taking the
packet, heard or not. Addresses may be negative, as a careless `<t>` makes them.
A full table gives `SpeedOf` 127, which is what the byte -1 of `getThrottleSpeed`
becomes in `setThrottle`: a loco without a slot whose direction is changed by
WiThrottle is sent off at full speed. No document says what should happen, so no
run states it; it is listed as a hazard.

### `PowerMonitor`: the power of both tracks

`checkPowerOverload(t)` is one call that finds its wait over (an earlier call
returns at once); its cases are `GoodSample`, `Overload`, `Retry` and `SampleOff`.
`sampleWait` is what is left of `sampleDelay` since `lastSampleTaken`, counted in
units of the shortest wait, and `Tick` is the clock. `overloadWait` doubles as the
32-bit `power_sample_overload_wait` does, whose upper half may overflow to zero at any
time after the lower one, and `sampleWait` keeps it modulo
`UInt`, as the assignment to a 16-bit `sampleDelay` does. The current is an input of three
levels, told apart by the trip value of the track and by the higher one that is
in force during an acknowledgement or while the tracks are joined. `lastCurrent`
is written by the interrupt too while a window is open: a torn reading may be
above any trip value (`TornReading`). `PowerCommand` is `<1>` and `<0>` with all
their words, `WiThrottlePower` is PPA, `AutoPowerOn`, `AckWindow` and
`doAutoPowerOff` stand for a programming operation, in any order the code
allows. `setSignal` is one interrupt's write of one track's signal; `inPhase`
says whether the drivers agree. `wanted` and `inStep` are history.

### `DCCEXParser` and `Transport`: from characters to calls

A text is a sequence of tokens: brackets, opcodes, whole words. `SerialChar` is
one round of `DCCEXParser::loop`, `parse` the whole of `parse` with every opcode:
`Outcomes` gives what is called (`call`) and whether a reply is sent, from the
conditions of each branch; where they depend on lists that `EEStore` models, both
outcomes are possible. A programming command takes the stash; a blocking one has
called back within `parse`. `Callback` is the six `callback_...` functions.
`splitValues` keeps its habit of reading what is not a word as zeros up to
`MAX_PARAMS`. `Transport` adds the handlers that `WifiTransport` and
`EthernetTransport` share: `Accept` and one `Serve` per slot are one call of
`tcpHandler`, `StopDisconnected` the clean-up that runs after each slot.
The bound of a read is Ethernet's `MAX_ETH_BUFFER-1`; WiFi's reads fill the
buffer and put the final zero one past it, which is not modelled. `frame` and
`last` are history.

### `WiThrottle`: clients, locos and heartbeats

One object per connection id, kept in the order of the list. `parse` is a whole
message: heartbeat time, power news, and one effect of `Effects` (heartbeat
switch, HU, PPA, Q, and the multithrottle actions +, -, V/X/I/Q, R, with the
address `*`). `loop` is `WiThrottle::loop`; the object that is dropped is freed
before its link is read, so the walk may go on or end there. `told` and `letGo`
are history. What is left out: a message of several lines is several messages here,
so that other steps fall between its lines, and the lines after a Q, which the code
executes on the object it has just deleted (`WiThrottle.cpp:184-197`), are none; the
letter `*` is given to no client, because `LOOPLOCOS` takes it for every slot, the empty
and the released ones included (`WiThrottle.cpp:50`); and `nextThrottle` of the freed
object (`WiThrottle.cpp:341`, `355`) is what it was or the end of the list, though freed memory may hold
anything.

The properties have their limits. `NoRunaway` counts a client that vanished without a
heartbeat as a hand; only `VanishedClientsLocosStop` asks for a stop, and of clients
with a heartbeat. `RememberedIsTold` starts afresh with a new client, so that neither it
nor `TypeOK` shows that the newcomer finds the `WiThrottle` of the last owner of its
connection id (`WiThrottle.cpp:57`): that hazard has no property.

### `WifiInterface`: the modem's stream

One action per group of `loopstate`s, one character at a time: `Header` (0-4),
`Numbers` (5, 6), `Data` (7), `AwaitPrompt` (10), `AwaitSent` (11), `Retry` (12),
and `Process` for what follows state 99. `TimeOut` is the test at the head of
states 10 and 11, which needs a character and costs it; `late` is whether the time is over,
which `Elapse` may bring about at any moment. The modem (external) has
what `WifiInterface.cpp` knows of it: OK and prompt, busy, ERROR, SEND OK, and
`+IPD` whenever a client sends. `AT+CIPSEND` gives it a client and a length
(`CIPSEND`), and until it has that much it takes whatever comes for data, commands
too (`Take`); what is too much is dropped. Lengths are counted in pieces: the text of one
command is a piece, and a reply is one or more. `delivered` is what a client is being
sent, until SEND OK. `setup` is a restart of the station with the modem left running: the
short-cut tells the modem one command (ATE0), the whole dialogue several or none that a
waiting modem takes for data; after a dialogue that fails the station stays deaf
(`connected`), and `<+X>`, which tells it that it is connected after all, is left out with the other
`<+>` commands.

Assumed of the outside: the serial line loses no characters, and requests carry no plus
sign.

### `Retention` and `EEStore`: what a restart finds

`Retention` is the promise: definitions in use, definitions kept, and which
outputs are linked to their records. `EEStore` has the linked lists in their
order, and the EEPROM as bytes with the layout of the four structs on an AVR
(two-byte `int`, signed `char`). Each command on the lists is an action; `store`
is `<E>`, `clear` is `<e>`, `ThrowTurnout` is PTA of WiThrottle, `CutStore` is a power
cut after any number of byte writes of a store. `MCStore` adds `kept`, what a
power-up would find, and the refinement mapping: `defs` are the lists as sets,
`linked` the outputs with a place. An output is looked for by the id that the user
gave, of which an object keeps eight bits (`createOutput`): ids of 256 and above are
never found again, and made a second time; the theorems about the store suppose that there are none. Servos are compared without their angles,
which `load` does not keep. `Room` says when the promise can be kept: the records
that the header counts, and those of the lists, end within the EEPROM; no list has more than
255 objects, since the counts are two-byte `int`s (`EEStore.h`), and a cut between
the two bytes of a larger one leaves a wrong count; and PTA's stray write
falls behind the records. The code checks none of it.

## 4. The runs

| Run | Question and result |
|---|---|
| `main_track` | Main track, two packets of different lengths, repeats 0 and 2. The hand-off is exclusive (`WriterExcludesReader`, `PendingIsStable`), bits are balanced, the counter is about what was sent since (`WaitingPacketHasNoResets`), `schedulePacket` returns, and every packet is heard (`PacketChannel` is implemented). |
| `prog_wave` | Programming track with window and pulses of any length. Programming never spins; of the resets counted all but two were heard in full (`CountedResetsWereHeard`: the one on the rails and the one whose stop bit is due); a window times out only after every copy of its question was heard; an early answer drops copies, never a part of one; `TrackPackets` is implemented. |
| `ack_manager` | All programs, bit numbers 7 and 8 (refused), decoders with short and long addresses, any answers lost. A result is the truth or -1; -1 needs a lost answer, unless it is the address itself (CV17 = 191, CV18 = 255). |
| `prog_track` | A parser and a sketch that replace each other's operation at any point, power switched under them. No answer can be to an earlier question; automatic power is given back on every way out; the track implements the channel `AckManager` assumes; each operation ends. |
| `loco` | Two slots, three addresses (one negative), broadcast stops, a function, a packet lost. One slot per loco; a broadcast stop lasts until a user moves something (the full table's 127 counts as such: it is what a WiThrottle user's command makes); when the users fall silent, the loco on the track comes to run as the table says, its functions of touched groups up to F12 included. F13-F28 are left out of that: the comments say that they are sent once, and a packet may be lost. |
| `power` | Both tracks. No track has power that nobody asked for, none without a timer; joined tracks are in phase; every short is cut and every overload retried, also with a wrapped back-off. |
| `streams` | A serial line with commands up to, at and beyond the buffer, stray brackets; two network clients, TCP or UDP. A serial command is executed as it was sent or not at all; over the network a beginning of a command that was sent may be, when a read cuts it, but never a rest nor two together; a programming command that was taken is answered to its stream; slots come free. |
| `throttles` | Two clients, two locos, ids used again. A moving loco is in somebody's hands or was let go; vanished clients' locos stop; what the server thinks a client knows of the power is what it was told. |
| `wifi` | JMRI, WiThrottle and HTTP requests of two clients, replies of two lengths, anything the modem may say between two characters, a restart. Requests are executed whole; what a client is sent is the whole of its own reply, unless a modem that still waited for data took the text of a command for it; the interface comes back to listening. |
| `wifi_clash` (violation) | A reply is given up for a request that clashes with it ("ASYNC CLASH - LOST REPLY", `WifiInterface.cpp:307`), but not the AT+CIPSEND that announced it: the modem takes the next client's AT+CIPSEND and reply for the rest of that data. Shown with a modem that is never late. |
| `store` | A turnout, a sensor and two outputs, five commands, a cut in a store. `EEStore` implements `Retention`. |
| `store_ids` (violation) | PTA on turnout 1 writes its status to EEPROM address 1, the second letter of the store's id: the next power-up wipes the store, against `Outputs.cpp:25` ("retained in EEPROM and restored on power-up"). |

Other disagreements met while modelling, which no run states:

* `<f>` decodes the NMRA byte of F5-F8 (176..191) as F9-F12 (`p[1] & 0xE0`,
  `DCCEXParser.cpp:393`), against the station's own use of it at `DCC.cpp:496`.
* Reminders of F13-F28 are repeated for ever. `DCC.cpp:507` and `512` say "dont send
  them again", but clear the flag in a local copy (`flags`, line 484), and the table
  keeps it. `issueReminders` models the code; `LocosObey` asks for no repetition of
  these groups, so that it does not rest on it.
* An output's id is kept in eight bits (`Outputs.h:26`), looked for as it was given, and
  checked nowhere (`DCCEXParser.cpp:367`), against `Outputs.cpp:47` (ids 0-32767) and
  `Outputs.cpp:34` ("if output ID already exists, it is updated"): `<Z 263 30 0>` given
  twice makes two objects with id 7. `createOutput` models the code; the theorems
  about the store suppose smaller ids.
* `DCCEXParser.cpp:155` says "return from this switch if complete, break from switch
  implies error `<X>`": `<1 WORD>` parts joined tracks (line 261) before its word is refused, and `<+>`
  is executed and then answered with `<X>`. `Outcomes` has both.
* A pulse of 65.5 ms + 2..8.5 ms passes for an acknowledgement because
  `ackPulseDuration` has 16 bits (comment at `DCCWaveform.cpp:322`; the fold is in the model).
* A caller whose operation is replaced is never called back
  (`examples/advanced/CVReader.ino:119` promises it), and if it was the parser,
  `stashBusy` stays set.
* `<T id state>` does not tell WiThrottle clients of the change (`turnoutlistHash`).
* A servo's angles change with every restart.
* WiThrottle clients are not told that a function other than F0 and F2 is on, because
  `changeFn` returns the masked bit (`DCC.cpp:165`) and they are compared with 0 and 1.
* A long address of CV17 = 191 and CV18 = 255 is reported as -1, which its caller takes
  for a failure (`COMBINELOCOID` computes `(191 - 192) * 256 + 255`). It was met
  in a proof, and `FailureNeedsALostAnswer` excepts it by name.

### Bounds, and why they are enough

* Bytes of two bits, preambles of two, packets of at most three bytes: every
  branch of `interrupt2` (last bit of a byte, of a packet, first preamble, repeat,
  pending, filler) and every interleaving of an interrupt with the statements of
  the copy loop happens. The packets differ in length, so that a stale tail or
  length shows. The theorems hold for every width.
* `ResetCap` 3 or 5, `AckResets` 1, `ResetMin` 2 keep the code's order (6 < 8 <=
  250); the counter saturates within a run.
* Pulses are measured in interrupts, `MinPulse` 2, `MaxPulse` 3 and `PulseWrap` 8
  leave room for too short, good, too long and folded.
* `PowerCommands = 2` power commands or overloads per behaviour: off and on again in the
  middle of an operation; overload retries are not bounded. `PROG_REPEATS = 1`
  leaves a copy to cut short.
* CV values 6, 200, 3, 199, 208 have both bits at both ends; `WRITE_BYTE` writes
  another value than the decoder holds.
* `MAX_LOCOS = 2`, three addresses in `loco`: the table fills, holes appear before and
  after a loco's slot, `nextLoco` goes past the end. `MaxCommands` 3 and
  `MaxLosses` 1 bound the users and the rails only. `FairSpec` of `LocoTable`
  takes the users as silent in the end, which the bound enforces.
* `power`: the three waits are 1 (their ratio plays no part), `UInt` 4, so that the
  back-off wraps after two overloads, and one good sample shortens it. Nothing else
  is bounded.
* `streams`: `MAX_BUFFER` 5 lies between the lengths of the lines; a read takes at most
  5 tokens, so that commands are cut and merged; one slot for two clients;
  `MaxInputs` 3 lines, commands or connections.
* `throttles`: two clients, two locos, two slots, a timeout of one tick; `MaxMessages` 4
  messages, other switchings and new connections.
* `wifi`: a client sends when at most one character waits (`MaxFifo` 1), so that up to
  15 are under way, among them a request and what the modem says; the buffer cuts an
  HTTP request; one restart. Replies are one or two times as long as a command, so that
  a command fills the data that the modem waits for, or leaves it waiting. In
  `wifi_clash` a request may be sent before the last one is read (`MaxFifo` 14).
* `ack_manager`: one caller, who may replace its own operation; the CVs of `LOCO_ID` and
  the others' plain one vary together, since no program reads both.
* `store`: 36 bytes hold the header and all records that five commands can make; the turnout's
  id lies beyond them, so that `ThrowTurnout`'s stray write is out of the
  way, which `store_ids` shows instead. One cut per behaviour, after any byte. The
  theorem bounds neither.
* Deadlock is checked in every passing run but `loco`, `streams` and `throttles`. There
  the users are bounded and nothing comes by itself: with an empty speed table,
  silent streams or vanished clients, nothing is left to be done.

### Fairness

* The timer interrupt always comes again (weak fairness of `interruptHandler`,
  of `PacketPasses \/ PacketHeard`, of `Transmit \/ Lose`): it is hardware.
  `CloseWindow` is fair because `checkAck` runs in every interrupt of an open window.
* The main loop is delayed by the interrupt but not stopped: weak fairness of the
  statements of `schedulePacket`, of `ackManagerLoop` and of `issueReminders`,
  which `DCC::loop` calls on every pass.
* Callers, users, power commands, overloads and retries are never fair in `ProgTrack`; nor is
  an answer: `EveryOperationEnds` holds though every one may be lost. Callers that
  replace an operation again and again keep the ack manager from coming to an end.
* `PowerMonitor`: the clock and the overload check of both tracks, which
  `DCCWaveform::loop` calls on every pass.
* `Transport`: the handler (`Accept`, `Serve`), and strongly the end of a programming
  operation (`DCCLoop`), which is disabled while the handler is between two
  slots: that an operation ends is `EveryOperationEnds` of `ProgTrack`.
* `WiThrottle`: the clock and `loop`. No client ever has to send.
* `WifiInterface`: reading, executing, the timeout, which takes a character's place once the
  time is over, the clock (`Elapse`), and the modem's SEND OK; all weakly. No fairness
  makes a retry time out, since each one starts its time again (`WifiInterface.cpp:314`).
  `ListensAgain` supposes that clients go on sending.

### Seeded faults

Definitions commented "Seeded fault" are wrong versions of the definition that
follows them: a dropped guard, an off-by-one, a missing reset. Nothing uses
them. `PROJECT.json` (`mutants`) pairs each with the property that TLC finds
violated when the fault takes the place of the right definition, so that each
property is known to be able to fail.

## 5. What is proved

TLAPS checks the theorems below for every value of the constants that the named
assumptions admit: widths, sizes, sets of packets, clients, locos, requests and
decoders. All are theorems of the whole specification, under every interleaving
that it has; where a specification states fairness, they do not use it.

| Module | Theorem | Statement |
|---|---|---|
| `WaveformProofs` | `TypeCorrect` | `Spec => []TypeOK` |
| | `BitsAreBalanced` | `Spec => []BalancedBits` |
| | `WriterIsExclusive` | `Spec => []WriterExcludesReader` |
| | `ResetsComeAfterPackets` | `Spec => []WaitingPacketHasNoResets` |
| | `PendingPacketIsStable` | `Spec => PendingIsStable` |
| | `ProgrammingWriteNeverSpins` | `Spec => []ProgrammingNeverSpins` |
| | `CountsWhatWasHeard` | `Spec => []CountedResetsWereHeard` |
| | `TimeoutMeansHeard` | `Spec => TimeoutAfterLastCopy` |
| | `TrackIsPacketLevel` | `Spec => ImplementsTrackPackets`: the bit generator implements `TrackPackets` |
| | `RailsAreTheChannel` | `Spec => Channel!Spec`: it implements `PacketChannel`, the safety part of `EveryPacketIsHeard` |
| `AckProofs` | `RegistersTyped` | `Spec => []TypeOK` |
| | `AwaitedCallback` | `Spec => []CallbackIsAwaited` |
| | `ResultsAreTrue` | `Spec => ResultIsTrueOrFailure` |
| | `FailuresAreLosses` | `Spec => FailureNeedsALostAnswer` |
| `ProgTrackProofs` | `TrackTyped` | `Spec => []TypeOK`, of the composition; no run repeats it |
| | `OneQuestionAtATime` | `Spec => []NoEarlierQuestionOnRails` |
| | `PowerGivenBack` | `Spec => []NoPowerLeftOn` |
| | `TrackIsChannel` | `Spec => ImplementsAckManager`: the composition implements `AckManager` on its abstract channel |
| | `TrackResultsAreTrue` | `Spec => ResultIsTrueOrFailure`, the result of `AckProofs` carried over by `TrackIsChannel` |
| `MainLoopProofs` | `TableTyped` | `Spec => []TypeOK` |
| | `SlotsStayApart` | `Spec => []OneSlotPerLoco` |
| | `BroadcastStopLasts` | `Spec => []BroadcastStopHolds` |
| | `PowerIsWanted` | `PowerSpec => []NoUnwantedPower` |
| | `JoinedInPhase` | `PowerSpec => []JoinedTracksInPhase` |
| `TransportProofs` | `ExecutedAsSent` | `Spec => []ExecutesWhatWasSent` |
| `ThrottleProofs` | `ThrottlesTyped` | `Spec => []TypeOK` |
| | `NobodyRunsAway` | `Spec => []NoRunaway` |
| | `ClientsAreTold` | `Spec => []RememberedIsTold` |
| `StoreProofs` | `StoreTypeOK` | `OutputIdsFit => (Spec => []TypeOK)` |
| | `StoreRetention` | `OutputIdsFit => (MCSpec /\ []Room => ImplementsRetention)`: the lists and the bytes of the EEPROM implement `Retention` |
| `WifiProofs` | `NoReplyAstray` | `Spec => []RepliesGoToTheAsker` |
| | `RequestsAreWhole` | `Spec => []ExecutesWholeRequests` |

### Assumptions

TLC evaluates each of them in every run of its module. Most give the constants
their types and keep the order that the code's own numbers have. Some leave out
inputs that the code does not refuse, and are marked *input* below.

* `DCCWaveform`: `TrackAssumption` (a packet buffer holds the three bytes of a
  filler; widths are positive), `CallerAssumption` (non-empty byte strings,
  natural repeat counts), `AckAssumption` (`0 < AckResets < ResetMin <=
  ResetCap`, which is 0 < 6 < 8 <= 250 in the code, and
  `0 < MinPulse <= MaxPulse < PulseWrap`). That `AckResets` is positive was found by
  the proof of `TimeoutMeansHeard`: a window that needed no reset would close while the
  stop bit of its question is still due. `NoMailAssumption` of
  `WaveformProperties`: the value that stands for an empty mailbox is no packet.
* `AckProperties`: `CallAssumption` (requests name a program of the station, and
  bytes), `MemoryAssumption` (a decoder holds bytes, and has the CVs it is asked
  about). `ProgCallAssumption` and `ProgMemoryAssumption` are the same of `ProgTrack`;
  `ResetAssumption` orders its reset counts.
* `TableAssumption`, `PowerAssumption`, `ParserAssumption`, `TransportAssumption`,
  `ThrottleAssumption`, `WifiAssumption`: a slot at least, locos that are not 0,
  waits that fit the integer they are kept in, a serial stream that is no client.
  *Input:* network clients send commands in brackets, the letters of throttles are not
  `*`, and connection ids have one digit.
* `StoreAssumption`: flags are bytes (`OutputData` keeps eight bits), and the
  EEPROM holds at least the 12 bytes of the header. *Input:* ids of turnouts and sensors
  are in 1..32767, ids of outputs in 0..32767, as `Outputs.cpp:47` has it; the parser
  checks neither.

Both theorems of `StoreProofs` suppose `OutputIdsFit` besides: ids of outputs are
below 256. Above, they are false: `createOutput` makes a second object with the same byte
for an id.

`StoreRetention` has a second hypothesis, `[]Room`. It is none about the constants, nothing in
the code ensures it, and it leaves stations out: those that define more than 255 objects of a kind or more
than the EEPROM holds; those whose EEPROM counts more than it holds after a cut; and
those where PTA is used on a turnout whose id is an address inside the records. For the last
`store_ids` shows that the promise is broken.

### The arguments

Few of the properties are inductive. What has to be added says why the code works.

**`WaveformProofs`.** *Shape.* `halves` stays in range only because of the state
it is in: `ShapeInv` adds the halves of each of the four states. *Hand-off.*
`HandOffInv` is `WriterExcludesReader /\ WaitingPacketHasNoResets`; it needs no type:
the interrupt only ever clears `packetPending`, and the main loop passes the spin
only when it is clear. A programming caller that waited for a positive count then
finds an empty mailbox, which only it can fill. *Packet level.* `StepInv` says what
`schedulePacket` has done by each of its labels (`CopyInv`: the bytes copied and
the checksum so far, against a reference `Parity` that counts bits), that what was
posted is not empty (`MailInv`), and that on the programming track resets stay
counted and the window shut until the packet is posted (`ReadyInv`). Under it every
step of the bit generator is a step of `TrackPackets` or a stutter. *What is heard.*
`SyncInv` ties the decoder to the interrupt bit by bit: it hunts through the first
transmission, which has no preamble, and through the preambles; in a byte, in the
gap between two, or before the stop bit it holds exactly what was sent. `CountInv`
says how far the reset count runs ahead of it, case by case, and that it is 0 while
anything but filler is on the rails. `WindowInv`: a window is open only on the programming track
and between two calls. With these a decoder hears `PacketChannel`'s promise; the one step
in which an answer cuts the copies is `CopiesCut`.

**`AckProofs`.** The nine programs are tables, so the invariant is about positions
in them: which CV, bit number and byte the registers hold at which instruction
(`Registers`, `AddressSoFar`), that the question on the channel is the one the last
instruction asked (`Asking`), and that an acknowledgement in hand answers it
(`Answered`). That is `AckInv`, enough for "the truth or -1": each program that
reads a byte verifies it before it reports it. For "-1 only after a loss" (`UnlostInv`) it takes
what was found so far: after so many instructions of a merging loop the byte is
the decoder's, shifted right by the bits not yet tested (`FoundSoFar`), and an answer
that was given was received (`NotMissed`).

**`ProgTrackProofs`.** `ProgInv` is `AckInv` and three parts about the track: an
answer in hand is one to the question that is awaited (`Channel`); once a reset is counted
nothing but resets is sent, so a stale question cannot follow (`Rails`); power that
is on by itself is marked as such, and only while an operation runs (`Supply`).
It gives the step simulation of `AckManager`.

**`MainLoopProofs`.** *Speed table.* `IInv` is a table in which no two slots hold the same loco, the
ranges of the reminder's counters, and the broadcast stop. The lemmas on the lookup
say that it finds the loco's slot if there is one, and only then takes the first
free one.

*Power.* A track in overload has no power but will be given it again, so
`PowerInv` asks that it too is wanted by somebody, that a pin is high only in mode
ON, and that the timer runs. `PhaseInv` adds that `inStep` is only true while the
tracks are joined.

**`TransportProofs`.** `StreamInv`: the serial buffer is everything since the last
`<`, or was dropped, and then nothing is executed before the next one (`LineInv`);
what waits in a socket is a sequence of whole commands, of which a read may cut off a
beginning (`NetInv`).

**`ThrottleProofs`.** `ThrottleInv` is the two properties with the shape of the
list; the substance is in the lemmas, which say of each action of the protocol which
locos it takes, stops or lets go, and that the list keeps one object per client.

**`StoreProofs`.** *Types.* `load` creates objects from whatever the EEPROM holds,
so `TypeOK` is inductive only with a lemma about any image: whatever bytes a
cut leaves, what `load` makes of them are well-formed objects (`LoadTyped`). *Lists.* `load`
is a recursive function, which creates one object per record. What it has made after
n records is had from the least n at which it would be wrong (`LeastExists`, from
the well-founded induction module), which stands in for induction. `CreatedList`
is the result: ids stay apart, and each id has the contents of its newest record.
*Refinement.* `KeptInv` adds to the types that the header is valid, that its counts
fit a byte, so that counts of which a cut leaves half are still small, that `kept` is what a
power-up would find, and `LinksHold`: an output that has a place is the newest
record of its id there, unless the header counts nothing. Writes behind the records change
nothing that is kept (`SameKept`); what `store` has written reads back as what was in
the lists (`RecordsHeld`, `TurnoutsBack`, `SensorsBack`, `OutputsBack`); the state of an output
changes its own record and no other (`SwitchKeeps`); and because the counts are written
one after another behind all records, a cut in a first store leaves whole kinds
(`WrittenHeader`, `CutLeaves`). One lemma per action then gives the step of `Retention`.

**`WifiProofs`.** Requests come first: every plus sign in what the modem has sent
begins a whole request, and the counters are what was read of the one under way; after
a restart in the middle of one the interface may stray as far as state 4, where
the next character sends it back (`LineInv`). Replies: while the station waits for the
prompt or for a busy modem its buffer is the reply to `connectionId` (`Held`, which
needs `LineInv` to say that this is a client). A modem that waits for data and has taken none, while the
station waits for the prompt, waits for just that reply (`Prompted`); what any other has taken
begins with the text of a command, because a reply that was given up is never sent and the next
thing that the station says to the modem is a command (`ModemInv`).

### What is only model-checked

* Liveness, which is beyond the prover, as is ENABLED: `ScheduleReturns`, the fairness in
  `EveryPacketIsHeard`, `EveryOperationEnds`, `LocosObey`, `OverloadIsCutAndRetried`,
  `TakenIsAnswered`, `SlotsAreFreed`, `VanishedClientsLocosStop`, `ListensAgain`.
* The two runs that expect a violation: TLC's counterexamples are all there is to say.

## 6. What is not modelled, and why

* Pure I/O: pins, analog registers, timer registers, the servo chip. A current
  and a pulse are inputs. `Sensor::checkAll` is a filter of an input pin.
* Wording and layout of replies, diagnostics, the turnout list that WiThrottle
  clients are sent, and the L or S of their addresses.
* `setAccessory` and the main-track CV writes keep no state. The diagnostic slow wave
  (`setDiagnosticSlowWave`) only changes the timer's period.
* The configuration dialogue of `WifiInterface::setup2`, a fixed list of commands
  whose outcome is "connected" or not; `<+>` commands, which read up to the
  modem's OK, and so may eat a request, are left out for the same reason.
* The filter that a sketch may put before the parser, and memory exhaustion.
* Power in `ProgTrack` is a mode: how long a sample or a back-off takes is left
  to any delay there; `PowerMonitor` has the times.
