----------------------------- MODULE PowerMonitor -----------------------------
(***************************************************************************)
(* The power of the two tracks: the user's commands, the automatic power   *)
(* of a programming operation, the overload check with its growing         *)
(* back-off, and the joined tracks.  Time is counted in the unit of the    *)
(* waits; the main loop samples a track when its wait is over, at once or  *)
(* later.                                                                  *)
(***************************************************************************)
EXTENDS Integers

CONSTANTS
  POWER_SAMPLE_ON_WAIT, POWER_SAMPLE_OFF_WAIT,
  POWER_SAMPLE_OVERLOAD_WAIT,   \* the first back-off
  GoodEnough,                   \* good samples that shorten the back-off: 100
  UInt                          \* values of an unsigned int: 65536

ASSUME PowerAssumption ==
  /\ POWER_SAMPLE_ON_WAIT \in Nat \ {0} /\ POWER_SAMPLE_OFF_WAIT \in Nat \ {0}
  /\ POWER_SAMPLE_OVERLOAD_WAIT \in Nat \ {0} /\ GoodEnough \in Nat
  /\ UInt \in Nat /\ POWER_SAMPLE_ON_WAIT < UInt /\ POWER_SAMPLE_OFF_WAIT < UInt

Tracks == {"main", "prog"}

\* What the motor driver reads: nothing special, more than any trip value,
\* and on the programming track more than its trip value but not more than
\* the higher one that is allowed during an acknowledgement.
CurrentsOf(t) == {"normal", "short"} \cup IF t = "prog" THEN {"high"} ELSE {}

VARIABLES
  interruptTimer,     \* begin() was given a timer that exists
  powerMode,          \* of each track: "OFF", "ON", "OVERLOAD"
  powerPin,           \* of each motor driver
  sampleWait,         \* what is left of sampleDelay since lastSampleTaken
  overloadWait,       \* power_sample_overload_wait
  goodCounter,        \* power_good_counter
  progTrackSyncMain, autoPowerOff, ackPending,
  inPhase,            \* both motor drivers have the same signal
  current,            \* on the track
  wanted,             \* what the user last asked for
  inStep              \* the main signal was set since the tracks were joined

sampleVars == <<sampleWait, overloadWait, goodCounter>>
signalVars == <<progTrackSyncMain, inPhase, inStep>>
ackVars == <<autoPowerOff, ackPending>>
powerVars == <<powerMode, powerPin>>
monitorVars == <<interruptTimer, powerVars, sampleVars, signalVars, ackVars, current, wanted>>

-----------------------------------------------------------------------------
\* No power without a waveform: it would be direct current.
setPowerMode(tracks, mode) ==
  IF interruptTimer
  THEN /\ powerMode' = [t \in Tracks |-> IF t \in tracks THEN mode ELSE powerMode[t]]
       /\ powerPin' = [t \in Tracks |-> IF t \in tracks THEN mode = "ON" ELSE powerPin[t]]
  ELSE UNCHANGED powerVars

\* begin: powering off does nothing yet, the pins are low and the mode is OFF.
PowerInit ==
  /\ interruptTimer \in BOOLEAN
  /\ powerMode = [t \in Tracks |-> "OFF"] /\ powerPin = [t \in Tracks |-> FALSE]
  /\ sampleWait = [t \in Tracks |-> 0] /\ goodCounter = [t \in Tracks |-> 0]
  /\ overloadWait = [t \in Tracks |-> POWER_SAMPLE_OVERLOAD_WAIT]
  /\ progTrackSyncMain = FALSE /\ inPhase = TRUE
  /\ inStep = FALSE /\ autoPowerOff = FALSE /\ ackPending = FALSE
  /\ current = [t \in Tracks |-> "normal"] /\ wanted = {}

-----------------------------------------------------------------------------
(* checkPowerOverload                                                      *)

\* Seeded fault: a joined track is left to the check of the main track.
OverTripUnjoined(t) ==
  \/ current[t] = "short" /\ ~(t = "prog" /\ progTrackSyncMain)
  \/ current[t] = "high" /\ ~(ackPending \/ progTrackSyncMain)

\* During an acknowledgement the interrupt writes lastCurrent too: a reading
\* torn between two may be above any trip value.  Those of a short are all at
\* the top of the range, and so is one torn between them.
OverTrip(t) ==
  \/ current[t] = "short"
  \/ current[t] = "high" /\ ~(ackPending \/ progTrackSyncMain)
TornReading(t) == t = "prog" /\ ackPending

GoodSample(t) ==
  /\ powerMode[t] = "ON" /\ ~OverTrip(t)
  /\ sampleWait' = [sampleWait EXCEPT ![t] = POWER_SAMPLE_ON_WAIT]
  /\ IF goodCounter[t] < GoodEnough
     THEN /\ goodCounter' = [goodCounter EXCEPT ![t] = @ + 1]
          /\ UNCHANGED overloadWait
     ELSE /\ overloadWait' = [overloadWait EXCEPT
                 ![t] = IF @ > POWER_SAMPLE_OVERLOAD_WAIT THEN POWER_SAMPLE_OVERLOAD_WAIT ELSE @]
          /\ UNCHANGED goodCounter
  /\ UNCHANGED powerVars

\* The back-off doubles in 32 bits, and sampleDelay keeps 16 of them: when
\* they are all zero they stay so, and the upper ones get there at last.
Overload(t) ==
  /\ powerMode[t] = "ON" /\ (OverTrip(t) \/ TornReading(t))
  /\ setPowerMode({t}, "OVERLOAD")
  /\ goodCounter' = [goodCounter EXCEPT ![t] = 0]
  /\ sampleWait' = [sampleWait EXCEPT ![t] = overloadWait[t] % UInt]
  /\ \E doubled \in IF overloadWait[t] % UInt = 0 THEN {overloadWait[t], 0}
                    ELSE {2 * overloadWait[t]} :
       overloadWait' = [overloadWait EXCEPT ![t] = doubled]

Retry(t) ==
  /\ powerMode[t] = "OVERLOAD" /\ setPowerMode({t}, "ON")
  /\ sampleWait' = [sampleWait EXCEPT ![t] = POWER_SAMPLE_ON_WAIT]
  /\ UNCHANGED <<overloadWait, goodCounter>>

SampleOff(t) ==
  /\ powerMode[t] = "OFF"
  /\ sampleWait' = [sampleWait EXCEPT ![t] = POWER_SAMPLE_OFF_WAIT]
  /\ UNCHANGED <<powerVars, overloadWait, goodCounter>>

checkPowerOverload(t) ==
  /\ sampleWait[t] = 0
  /\ GoodSample(t) \/ Overload(t) \/ Retry(t) \/ SampleOff(t)
  /\ UNCHANGED <<interruptTimer, signalVars, ackVars, current, wanted>>

Tick ==
  /\ \E t \in Tracks : sampleWait[t] > 0
  /\ sampleWait' = [t \in Tracks |-> IF sampleWait[t] > 0 THEN sampleWait[t] - 1 ELSE 0]
  /\ UNCHANGED <<interruptTimer, powerVars, overloadWait, goodCounter,
                 signalVars, ackVars, current, wanted>>

-----------------------------------------------------------------------------
(* <1> and <0>, with MAIN, PROG, JOIN or an unknown word; PPA of WiThrottle. *)

Tell(tracks, mode) ==
  /\ setPowerMode(tracks, mode)
  /\ wanted' = IF mode = "ON" THEN wanted \cup tracks ELSE wanted \ tracks
  /\ UNCHANGED <<interruptTimer, sampleVars, inPhase, ackVars, current>>

\* Only <1 JOIN> sets progTrackSyncMain, all others clear it.
PowerCommand ==
  /\ \/ \E tracks \in {{}, {"main"}, {"prog"}, Tracks}, mode \in {"ON", "OFF"} :
          Tell(tracks, mode) /\ progTrackSyncMain' = FALSE
     \/ Tell(Tracks, "ON") /\ progTrackSyncMain' = TRUE
  /\ inStep' = (inStep /\ progTrackSyncMain')

WiThrottlePower ==
  /\ \E mode \in {"ON", "OFF"} : Tell({"main"}, mode)
  /\ UNCHANGED <<progTrackSyncMain, inStep>>

\* An operation powers the programming track on if it finds it off, and off
\* again when it calls back.  Its window may open any number of times.
AutoPowerOn ==
  /\ ~ackPending /\ powerMode["prog"] = "OFF"
  /\ setPowerMode({"prog"}, "ON") /\ autoPowerOff' = TRUE
  /\ UNCHANGED <<interruptTimer, sampleVars, signalVars, ackPending, current, wanted>>

AckWindow ==
  /\ ackPending' = ~ackPending
  /\ UNCHANGED <<interruptTimer, powerVars, sampleVars, signalVars, autoPowerOff,
                 current, wanted>>

\* Seeded fault: power is left on unless the track has power just now.
autoPowerOffIfOn ==
  /\ ~ackPending /\ autoPowerOff /\ autoPowerOff' = FALSE
  /\ IF powerMode["prog"] = "ON" THEN setPowerMode({"prog"}, "OFF")
     ELSE UNCHANGED powerVars
  /\ UNCHANGED <<interruptTimer, sampleVars, signalVars, ackPending, current, wanted>>

doAutoPowerOff ==
  /\ ~ackPending /\ autoPowerOff /\ autoPowerOff' = FALSE
  /\ setPowerMode({"prog"}, "OFF")
  /\ UNCHANGED <<interruptTimer, sampleVars, signalVars, ackPending, current, wanted>>

-----------------------------------------------------------------------------
(* setSignal, in the interrupt.                                            *)

\* Seeded fault: the programming track's own waveform is not ignored.
ProgSignalAlways == inPhase' \in BOOLEAN /\ UNCHANGED inStep

MainSignal ==
  /\ inPhase' \in IF progTrackSyncMain THEN {TRUE} ELSE BOOLEAN
  /\ inStep' = progTrackSyncMain

ProgSignal ==
  /\ inPhase' \in IF progTrackSyncMain THEN {inPhase} ELSE BOOLEAN
  /\ UNCHANGED inStep

setSignal ==
  /\ interruptTimer /\ (MainSignal \/ ProgSignal)
  /\ UNCHANGED <<interruptTimer, powerVars, sampleVars, progTrackSyncMain, ackVars,
                 current, wanted>>

\* Locos and shorts come and go.
CurrentChanges ==
  /\ \E t \in Tracks : \E level \in CurrentsOf(t) :
       current' = [current EXCEPT ![t] = level]
  /\ UNCHANGED <<interruptTimer, powerVars, sampleVars, signalVars, ackVars, wanted>>

PowerNext ==
  \/ \E t \in Tracks : checkPowerOverload(t)
  \/ Tick \/ PowerCommand \/ WiThrottlePower
  \/ AutoPowerOn \/ AckWindow \/ doAutoPowerOff \/ setSignal \/ CurrentChanges

PowerSpec == PowerInit /\ [][PowerNext]_monitorVars

\* Time passes and the main loop comes round.
FairPowerSpec ==
  /\ PowerSpec
  /\ WF_monitorVars(Tick) /\ \A t \in Tracks : WF_monitorVars(checkPowerOverload(t))

-----------------------------------------------------------------------------
(* Properties.                                                             *)

\* A track has power only if the user's last word about it was on, or an
\* operation that will switch it off again has taken it; never because an old
\* overload was retried, and never without a waveform to modulate it.
NoUnwantedPower ==
  \A t \in Tracks : powerPin[t] =>
    /\ interruptTimer /\ powerMode[t] = "ON"
    /\ t \in wanted \/ (t = "prog" /\ autoPowerOff)

\* Joined tracks are in phase once the main signal was set: a loco that spans
\* the gap does not short them, whatever the programming waveform does.
JoinedTracksInPhase == inStep => inPhase

\* A short is not left under power, however the track came to be on and
\* whatever wait was left from before; and an overloaded track is tried again
\* or switched off, also when the back-off has grown out of its 16 bits.
OverloadIsCutAndRetried ==
  \A t \in Tracks :
    /\ (current[t] = "short" /\ powerPin[t]) ~> (current[t] # "short" \/ ~powerPin[t])
    /\ powerMode[t] = "OVERLOAD" ~> powerMode[t] # "OVERLOAD"
=============================================================================
