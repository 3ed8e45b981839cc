------------------------------ MODULE Retention ------------------------------
(***************************************************************************)
(* What the store of objects promises: the definitions that the users work *)
(* with, and those that the station comes back with when the power has     *)
(* been away.  "Once all outputs have been properly defined, use the <E>   *)
(* command to store their definitions to EEPROM", and a state set          *)
(* afterwards is "retained even without power" (Outputs.cpp:63, 77).       *)
(***************************************************************************)
EXTENDS Integers

VARIABLES
  defs,    \* kind -> set of objects, in use
  kept,    \* kind -> set of objects, of the last <E>
  linked,  \* ids of the outputs that are still the stored ones
  cuts     \* how often the power went in the middle of <E>

vars == <<defs, kept, linked, cuts>>

Kinds == {"turnout", "sensor", "output"}
None == [k \in Kinds |-> {}]

\* An output comes back as it was, or as its iFlag says.
BackAgain(objects) ==
  [objects EXCEPT !["output"] =
     {[o EXCEPT !.oStatus = IF (o.iFlag \div 2) % 2 = 1 THEN (o.iFlag \div 4) % 2 ELSE @]
        : o \in objects["output"]}]

Ids(objects) == {o.id : o \in objects}
Others(objects, id) == {o \in objects : o.id # id}

\* Defining, removing or switching one object touches no other, and nothing
\* that is kept.  A new or a removed output is not the stored one.
Edit ==
  /\ UNCHANGED <<kept, cuts>>
  /\ \E k \in Kinds :
      /\ \A other \in Kinds \ {k} : defs'[other] = defs[other]
      /\ \E id \in Ids(defs[k]) \cup Ids(defs'[k]) :
           /\ Others(defs'[k], id) = Others(defs[k], id)
           /\ linked' = IF k = "output" /\ id \notin Ids(defs[k]) \cap Ids(defs'[k])
                        THEN linked \ {id} ELSE linked

Set(objects, id, s) ==
  Others(objects, id) \cup {[o EXCEPT !.oStatus = s] : o \in objects \ Others(objects, id)}

\* A state set on a stored output is kept at once.
Switch ==
  \E id \in linked, s \in {0, 1} :
    /\ defs' = [defs EXCEPT !["output"] = Set(@, id, s)]
    /\ kept' = [kept EXCEPT !["output"] = Set(@, id, s)]
    /\ UNCHANGED <<linked, cuts>>

Save == kept' = defs /\ linked' = Ids(defs["output"]) /\ UNCHANGED <<defs, cuts>>

Clear == kept' = None /\ UNCHANGED <<defs, linked, cuts>>

PowerUp ==
  /\ defs' = BackAgain(kept) /\ linked' = Ids(kept["output"])
  /\ UNCHANGED <<kept, cuts>>

\* The kinds are written in order: what a power cut leaves of a first <E>.
Prefixes ==
  {None, [None EXCEPT !["turnout"] = defs["turnout"]],
   [defs EXCEPT !["output"] = {}], defs}

\* The power goes in the middle of <E>.  Over an empty store no object comes
\* back torn; over a full one the code promises nothing.
CutSave ==
  /\ cuts' = cuts + 1
  /\ kept = None => kept' \in Prefixes
  /\ defs' = BackAgain(kept') /\ linked' = Ids(kept'["output"])

Init == defs = None /\ kept = None /\ linked = {} /\ cuts = 0
Next == Edit \/ Switch \/ Save \/ Clear \/ PowerUp \/ CutSave
Spec == Init /\ [][Next]_vars
=============================================================================
