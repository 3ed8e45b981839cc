------------------------------- MODULE MCStore -------------------------------
(***************************************************************************)
(* EEStore with a history variable for what its EEPROM holds, which TLC    *)
(* computes once for each write and not for every use in a property.       *)
(***************************************************************************)
EXTENDS EEStore

VARIABLE kept

MCInit == Init /\ kept = KeptIn(eeprom)
MCNext == Next /\ kept' = IF eeprom' = eeprom THEN kept ELSE KeptIn(eeprom')
MCSpec == MCInit /\ [][MCNext]_<<vars, kept>>

Promise == INSTANCE Retention WITH
  defs <- Objects(turnouts, sensors, outputs),
  linked <- {o.id : o \in {p \in ToSet(outputs) : p.num # 0}}

\* The store keeps the promise of Retention: editing one object disturbs no
\* other, what <E> wrote is what a power-up finds, the state of an output goes
\* to that output's record wherever later stores moved it, and a power cut in
\* the first <E> leaves whole objects or none.
ImplementsRetention == Promise!Spec

\* Where the records end that the header counts.
RecordsEnd(image) == OutputPlace(nTurnouts(image), nSensors(image), nOutputs(image) + 1)

\* There is room in the EEPROM for what it counts and for the lists; no list
\* has more objects than the low byte of its count can tell, for a cut may fall
\* between the two bytes; and PTA writes behind the records.  Nothing in the
\* code sees to it: it is the assumption of StoreRetention (StoreProofs), and
\* the bounds of the run keep it.
Room ==
  /\ RecordsEnd(eeprom) <= Size
  /\ OutputPlace(Len(turnouts), Len(sensors), Len(outputs) + 1) <= Size
  /\ Len(turnouts) < 256 /\ Len(sensors) < 256 /\ Len(outputs) < 256
  /\ \A id \in TurnoutIds : id >= RecordsEnd(eeprom)

\* What a power-up would find of the outputs, but for their states.
StoredOutputs == {[o EXCEPT !.oStatus = 0] : o \in kept["output"]}

\* Definitions of outputs are "retained in EEPROM and restored on power-up"
\* (Outputs.cpp line 25) until <E> or <e> writes others: no other command
\* changes what a power-up would find of them.
OnlyStoreChangesDefinitions ==
  [][store \/ clear \/ CutStore \/ StoredOutputs' = StoredOutputs]_<<vars, kept>>
=============================================================================
