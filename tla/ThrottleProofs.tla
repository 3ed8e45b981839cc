---------------------------- MODULE ThrottleProofs -----------------------------
(***************************************************************************)
(* Proofs, for every number of clients, locos, slots and speeds, of the    *)
(* WiThrottle server: one object per client, no loco running under nobody's *)
(* hand, and no client taken to know what it was not told.                 *)
(***************************************************************************)
EXTENDS WiThrottle, SequenceTheorems, WellFoundedInduction, TLAPS

-----------------------------------------------------------------------------
(* The inductive invariant.                                                *)

MyLoco == [throttle : Letters \cup {""}, cab : Cabs \cup {0}]

Throttle ==
  [client : Clients, myLocos : [Slots -> MyLoco], heartBeatEnable : BOOLEAN,
   heartBeat : 0..(Timeout + 1), initSent : BOOLEAN, lastPowerState : BOOLEAN]

Table == [Cabs -> [speed : 0..127, forward : BOOLEAN]]

Separate(list) ==
  \A i, j \in DOMAIN list : i # j => list[i].client # list[j].client

Shaped ==
  /\ throttles \in Seq(Throttle) /\ Separate(throttles)
  /\ table \in Table /\ power \in BOOLEAN
  /\ told \in [Clients -> SUBSET BOOLEAN]

ThrottleInv == Shaped /\ NoRunaway /\ RememberedIsTold

-----------------------------------------------------------------------------
(* The list of the objects.                                                *)

\* What is left of a list when one of its objects goes.
LEMMA Removal ==
  ASSUME NEW S, NEW list \in Seq(S), NEW i \in DOMAIN list
  PROVE  /\ RemoveAt(list, i) \in Seq(S)
         /\ \A k \in DOMAIN RemoveAt(list, i) :
              \E m \in DOMAIN list \ {i} : RemoveAt(list, i)[k] = list[m]
         /\ \A m \in DOMAIN list \ {i} :
              \E k \in DOMAIN RemoveAt(list, i) : RemoveAt(list, i)[k] = list[m]
         /\ Separate(list) => Separate(RemoveAt(list, i))
  <1> DEFINE before == SubSeq(list, 1, i - 1)
             after == SubSeq(list, i + 1, Len(list))
             short == before \o after
  <1>1. /\ DOMAIN list = 1..Len(list) /\ Len(list) \in Nat
        /\ i \in 1..Len(list)
    OBVIOUS
  <1>2. /\ before \in Seq(S) /\ Len(before) = i - 1
        /\ \A k \in 1..(i - 1) : before[k] = list[k]
    BY <1>1, SubSeqProperties
  <1>3. /\ after \in Seq(S) /\ Len(after) = Len(list) - i
        /\ \A k \in 1..(Len(list) - i) : after[k] = list[i + k]
    BY <1>1, SubSeqProperties
  <1>4. RemoveAt(list, i) = short
    BY DEF RemoveAt
  <1> HIDE DEF before, after
  <1>5. /\ short \in Seq(S) /\ Len(short) = Len(list) - 1
        /\ \A k \in 1..(i - 1) : short[k] = before[k]
        /\ \A k \in i..(Len(list) - 1) : short[k] = after[k - (i - 1)]
    <2>1. Len(before) + Len(after) = Len(list) - 1
      BY <1>1, <1>2, <1>3
    <2>2. /\ short \in Seq(S) /\ Len(short) = Len(before) + Len(after)
          /\ \A k \in 1..(Len(before) + Len(after)) : short[k] =
               IF k <= Len(before) THEN before[k] ELSE after[k - Len(before)]
      BY ONLY <1>2, <1>3, ConcatProperties
    <2> QED
      BY SMTT(20), <1>1, <1>2, <2>1, <2>2
  <1> HIDE DEF short
  <1>6. /\ DOMAIN short = 1..(Len(list) - 1)
        /\ \A k \in 1..(i - 1) : short[k] = list[k]
        /\ \A k \in i..(Len(list) - 1) : short[k] = list[k + 1]
    <2>1. \A k \in i..(Len(list) - 1) :
            k - (i - 1) \in 1..(Len(list) - i) /\ i + (k - (i - 1)) = k + 1
      BY <1>1
    <2>2. \A k \in i..(Len(list) - 1) : short[k] = list[k + 1]
      BY <1>3, <1>5, <2>1
    <2> QED
      BY <1>1, <1>2, <1>5, <2>2
  <1>7. ASSUME NEW k \in 1..(Len(list) - 1)
        PROVE  \E m \in 1..Len(list) : m # i /\ short[k] = list[m]
    BY SMTT(20), <1>1, <1>6
  <1>8. ASSUME NEW m \in 1..Len(list), m # i
        PROVE  \E k \in 1..(Len(list) - 1) : short[k] = list[m]
    <2>1. CASE m < i
      BY <1>1, <1>6, <2>1
    <2>2. CASE m > i
      <3>1. m - 1 \in i..(Len(list) - 1) /\ (m - 1) + 1 = m
        BY <1>1, <2>2
      <3> QED
        BY <1>1, <1>6, <3>1
    <2> QED
      BY <1>1, <1>8, <2>1, <2>2
  <1>9. ASSUME Separate(list) PROVE Separate(short)
    <2> SUFFICES ASSUME NEW j \in 1..(Len(list) - 1), NEW k \in 1..(Len(list) - 1),
                        j < k
                 PROVE  short[j].client # short[k].client
      BY <1>1, <1>6 DEF Separate
    <2> DEFINE Was(n) == IF n < i THEN n ELSE n + 1
    <2>1. /\ Was(j) \in 1..Len(list) /\ Was(k) \in 1..Len(list) /\ Was(j) # Was(k)
          /\ short[j] = list[Was(j)] /\ short[k] = list[Was(k)]
      BY SMTT(20), <1>1, <1>6
    <2> HIDE DEF Was
    <2> QED
      BY <1>1, <1>9, <2>1 DEF Separate
  <1> QED
    BY <1>1, <1>4, <1>5, <1>6, <1>7, <1>8, <1>9

-----------------------------------------------------------------------------
(* What a message makes of the client's object.                            *)

\* What every effect of a message keeps: a loco that is set moving is the
\* client's, a loco leaves its list only among the freed, and the client is
\* told what it is then taken to know.
Sound(e, wt) ==
  /\ e.wt \in Throttle /\ e.wt.client = wt.client
  /\ e.table \in Table /\ e.power \in BOOLEAN /\ e.quit \in BOOLEAN
  /\ \A c \in Cabs : e.table[c].speed > 1 => table[c].speed > 1 \/ c \in CabsOf(wt)
  /\ IF e.quit THEN CabsOf(wt) \subseteq e.free
               ELSE CabsOf(wt) \subseteq CabsOf(e.wt) \cup e.free
  /\ e.tell \in {{}, {e.wt.lastPowerState}}
  /\ e.tell = {} => /\ e.wt.initSent = wt.initSent
                    /\ e.wt.lastPowerState = wt.lastPowerState

\* A message that leaves the locos alone.
LEMMA PlainIsSound ==
  ASSUME Shaped, NEW wt \in Throttle, NEW on \in BOOLEAN
  PROVE  /\ Sound(Unchanged(wt), wt) /\ Sound(Heartbeat(wt, on), wt)
         /\ Sound(Hello(wt), wt) /\ Sound(PowerMessage(wt, on), wt)
         /\ Sound(Quit(wt), wt)
  <1>1. Sound(Unchanged(wt), wt)
    BY DEF Sound, Unchanged, Shaped
  <1>2. Sound(Heartbeat(wt, on), wt)
    BY DEF Sound, Unchanged, Heartbeat, Shaped, Throttle, CabsOf
  <1>3. Sound(Hello(wt), wt)
    BY ZenonT(30) DEF Sound, Unchanged, Hello, Shaped, Throttle, CabsOf
  <1>4. Sound(PowerMessage(wt, on), wt)
    BY DEF Sound, Unchanged, PowerMessage, Shaped, Throttle, CabsOf
  <1>5. Sound(Quit(wt), wt)
    BY DEF Sound, Unchanged, Quit, Shaped
  <1> QED
    BY <1>1, <1>2, <1>3, <1>4, <1>5

\* Only the client's own locos are driven, whatever the message names.
LEMMA DriveIsSound ==
  ASSUME Shaped, NEW wt \in Throttle, NEW letter \in Letters,
         NEW cab \in Cabs \cup {-1}, NEW speed \in Speeds
  PROVE  Sound(Drive(wt, letter, cab, speed), wt)
  <1> DEFINE cabs == {wt.myLocos[s].cab : s \in Matching(wt, letter, cab)}
             e == Drive(wt, letter, cab, speed)
  <1>1. cabs \subseteq CabsOf(wt)
    BY ThrottleAssumption DEF Matching, CabsOf
  <1>2. /\ e.wt = wt /\ e.power = power /\ e.tell = {} /\ e.free = {}
        /\ e.quit = FALSE /\ e.table = setThrottle(cabs, speed)
    BY DEF Drive, Unchanged
  <1> HIDE DEF cabs, e
  <1>3. \A c \in Cabs : [table[c] EXCEPT !.speed = speed]
                           \in [speed : 0..127, forward : BOOLEAN]
    <2>1. speed \in 0..127
      BY ThrottleAssumption
    <2> QED
      BY <2>1 DEF Shaped, Table
  <1>4. e.table \in Table /\ \A c \in Cabs \ cabs : e.table[c] = table[c]
    BY <1>2, <1>3 DEF setThrottle, Shaped, Table
  <1>5. Sound(e, wt)
    BY <1>1, <1>2, <1>4 DEF Sound, Shaped
  <1> QED
    BY <1>5 DEF e

\* No loco is set moving when it is turned.
LEMMA TurnIsSound ==
  ASSUME Shaped, NEW wt \in Throttle, NEW letter \in Letters,
         NEW cab \in Cabs \cup {-1}, NEW forward \in BOOLEAN
  PROVE  Sound(Turn(wt, letter, cab, forward), wt)
  <1> DEFINE cabs == {wt.myLocos[s].cab : s \in Matching(wt, letter, cab)}
             e == Turn(wt, letter, cab, forward)
             turned == [c \in Cabs |-> IF c \in cabs
                          THEN [table[c] EXCEPT !.forward = forward] ELSE table[c]]
  <1>1. /\ e.wt = wt /\ e.power = power /\ e.tell = {} /\ e.free = {}
        /\ e.quit = FALSE /\ e.table = turned
    BY DEF Turn, Unchanged
  <1> HIDE DEF cabs, e
  <1>2. \A c \in Cabs : /\ [table[c] EXCEPT !.forward = forward]
                             \in [speed : 0..127, forward : BOOLEAN]
                        /\ [table[c] EXCEPT !.forward = forward].speed = table[c].speed
    BY ZenonT(30) DEF Shaped, Table
  <1>3. turned \in Table /\ \A c \in Cabs : turned[c].speed = table[c].speed
    BY <1>2 DEF Shaped, Table
  <1> HIDE DEF turned
  <1>4. Sound(e, wt)
    BY <1>1, <1>3 DEF Sound, Shaped
  <1> QED
    BY <1>4 DEF e

LEMMA Least ==
  ASSUME NEW S, S \subseteq Nat, S # {} PROVE \E m \in S : \A n \in S : m <= n
  <1> DEFINE Less == {ss \in Nat \X Nat : ss[1] < ss[2]}
  <1>1. IsWellFoundedOn(Less, Nat)
    BY NatLessThanWellFounded DEF OpToRel
  <1>2. PICK m \in S : \A n \in S : ~ (<<n, m>> \in Less)
    <2> HIDE DEF Less
    <2> QED BY <1>1, WFMin
  <1>3. \A n \in S : ~(n < m)
    BY <1>2
  <1> QED BY <1>3

\* A loco is added to a free slot, or not at all, and is freed when it goes.
LEMMA LocosAreSound ==
  ASSUME Shaped, NEW wt \in Throttle, NEW letter \in Letters
  PROVE  /\ \A cab \in Cabs : \A e \in Add(wt, letter, cab) : Sound(e, wt)
         /\ \A cab \in Cabs \cup {-1} : Sound(Release(wt, letter, cab), wt)
  <1>0. MAX_MY_LOCO \in Nat
    BY ThrottleAssumption
  <1>1. ASSUME NEW cab \in Cabs, NEW e \in Add(wt, letter, cab)
        PROVE  Sound(e, wt)
    <2> DEFINE free == {s \in Slots : wt.myLocos[s].throttle = ""}
               first == CHOOSE s \in free : \A t \in free : s <= t
    <2>1. CASE free = {}
      BY <1>1, <2>1, PlainIsSound DEF Add
    <2>2. CASE free # {}
      <3>1. first \in Slots /\ wt.myLocos[first].throttle = ""
        <4>1. free \subseteq Nat
          <5>1. Slots \subseteq Nat
            BY <1>0 DEF Slots
          <5> QED
            BY <5>1
        <4>2. \E s \in free : \A t \in free : s <= t
          BY <4>1, <2>2, Least
        <4>3. first \in free
          BY <4>2
        <4> QED
          BY <4>3
      <3>2. e = [Unchanged(wt) EXCEPT !.wt.myLocos[first] =
                   [throttle |-> letter, cab |-> cab]]
        BY <1>1, <2>2 DEF Add
      <3> HIDE DEF first
      <3>3. /\ e.wt = [wt EXCEPT !.myLocos[first] = [throttle |-> letter, cab |-> cab]]
            /\ e.table = table /\ e.power = power /\ e.tell = {} /\ e.free = {}
            /\ e.quit = FALSE
        BY <3>2 DEF Unchanged
      <3> DEFINE added == [throttle |-> letter, cab |-> cab]
                 locos == [wt.myLocos EXCEPT ![first] = added]
      <3>9. /\ added \in MyLoco /\ locos \in [Slots -> MyLoco]
            /\ \A s \in Slots \ {first} : locos[s] = wt.myLocos[s]
        <4>1. added \in MyLoco
          BY DEF MyLoco
        <4> HIDE DEF added
        <4> QED
          BY <4>1, <3>1 DEF Throttle
      <3>4. e.wt \in Throttle /\ e.wt.client = wt.client
            /\ e.wt.initSent = wt.initSent /\ e.wt.lastPowerState = wt.lastPowerState
            /\ \A s \in Slots \ {first} : e.wt.myLocos[s] = wt.myLocos[s]
        <4>1. e.wt = [wt EXCEPT !.myLocos = locos]
          BY <3>3 DEF Throttle
        <4> HIDE DEF locos
        <4> QED
          BY <4>1, <3>9 DEF Throttle
      <3>5. CabsOf(wt) \subseteq CabsOf(e.wt)
        BY <3>1, <3>4 DEF CabsOf
      <3> QED
        BY <3>3, <3>4, <3>5 DEF Sound, Shaped
    <2> QED
      BY <2>1, <2>2
  <1>2. ASSUME NEW cab \in Cabs \cup {-1}
        PROVE  Sound(Release(wt, letter, cab), wt)
    <2> DEFINE e == Release(wt, letter, cab)
               slots == Matching(wt, letter, cab)
    <2>1. /\ e.wt = [wt EXCEPT !.myLocos = [s \in Slots |->
                        IF s \in slots THEN [wt.myLocos[s] EXCEPT !.throttle = ""]
                                       ELSE wt.myLocos[s]]]
          /\ e.free = {wt.myLocos[s].cab : s \in slots}
          /\ e.table = table /\ e.power = power /\ e.tell = {} /\ e.quit = FALSE
      BY DEF Release, Unchanged
    <2> DEFINE locos == [s \in Slots |->
                 IF s \in slots THEN [wt.myLocos[s] EXCEPT !.throttle = ""]
                                ELSE wt.myLocos[s]]
    <2>9. locos \in [Slots -> MyLoco]
      <3>1. \A s \in Slots : [wt.myLocos[s] EXCEPT !.throttle = ""] \in MyLoco
        BY DEF Throttle, MyLoco
      <3> QED
        BY <3>1 DEF Throttle
    <2> HIDE DEF e, slots
    <2>2. e.wt \in Throttle /\ e.wt.client = wt.client
          /\ e.wt.initSent = wt.initSent /\ e.wt.lastPowerState = wt.lastPowerState
          /\ \A s \in Slots \ slots : e.wt.myLocos[s] = wt.myLocos[s]
      <3>1. e.wt = [wt EXCEPT !.myLocos = locos]
        BY <2>1
      <3>2. \A s \in Slots \ slots : locos[s] = wt.myLocos[s]
        OBVIOUS
      <3> HIDE DEF locos
      <3> QED
        BY <3>1, <3>2, <2>9 DEF Throttle
    <2>3. CabsOf(wt) \subseteq CabsOf(e.wt) \cup e.free
      BY <2>1, <2>2 DEF CabsOf
    <2>4. Sound(e, wt)
      BY <2>1, <2>2, <2>3 DEF Sound, Shaped
    <2> QED
      BY <2>4 DEF e
  <1> QED
    BY <1>1, <1>2

LEMMA EffectsAreSound ==
  ASSUME Shaped, NEW wt \in Throttle, NEW e \in Effects(wt)
  PROVE  Sound(e, wt)
  <1> DEFINE plain == {Heartbeat(wt, on) : on \in BOOLEAN} \cup {Hello(wt), Quit(wt)}
                        \cup {PowerMessage(wt, on) : on \in BOOLEAN}
             adds == UNION {Add(wt, letter, cab) : letter \in Letters, cab \in Cabs}
             releases == {Release(wt, letter, cab)
                            : letter \in Letters, cab \in Cabs \cup {-1}}
             turns == {Turn(wt, letter, cab, forward)
                         : letter \in Letters, cab \in Cabs \cup {-1}, forward \in BOOLEAN}
             drives == {Drive(wt, letter, cab, speed)
                          : letter \in Letters, cab \in Cabs \cup {-1}, speed \in Speeds}
  <1>1. Effects(wt) = plain \cup adds \cup releases \cup turns \cup drives
    BY DEF Effects
  <1>2. ASSUME e \in plain PROVE Sound(e, wt)
    BY <1>2, PlainIsSound
  <1>3. ASSUME e \in adds PROVE Sound(e, wt)
    BY <1>3, LocosAreSound
  <1>4. ASSUME e \in releases PROVE Sound(e, wt)
    BY <1>4, LocosAreSound
  <1>5. ASSUME e \in turns PROVE Sound(e, wt)
    <2>1. PICK letter \in Letters, cab \in Cabs \cup {-1}, forward \in BOOLEAN :
            e = Turn(wt, letter, cab, forward)
      BY <1>5
    <2>2. Sound(Turn(wt, letter, cab, forward), wt)
      BY TurnIsSound
    <2> QED
      BY <2>1, <2>2
  <1>6. ASSUME e \in drives PROVE Sound(e, wt)
    BY <1>6, DriveIsSound
  <1> HIDE DEF plain, adds, releases, turns, drives
  <1> QED
    BY <1>1, <1>2, <1>3, <1>4, <1>5, <1>6

-----------------------------------------------------------------------------
(* The steps.                                                              *)

LEMMA NoTicks == 0 \in 0..(Timeout + 1)
  <1>1. Timeout \in Nat
    BY ThrottleAssumption
  <1> QED
    BY <1>1

\* getThrottle: the objects there are, and for an unknown client a new one
\* that drives nothing and was told nothing.
LEMMA Lookup ==
  ASSUME Shaped, NEW id \in Clients
  PROVE  /\ getThrottle(id) \in Seq(Throttle) /\ Separate(getThrottle(id))
         /\ \A m \in DOMAIN throttles :
              \E k \in DOMAIN getThrottle(id) : getThrottle(id)[k] = throttles[m]
         /\ \A k \in DOMAIN getThrottle(id) :
              \/ \E m \in DOMAIN throttles : getThrottle(id)[k] = throttles[m]
              \/ getThrottle(id)[k].initSent = FALSE
  <1>1. CASE Known(id) # {}
    BY <1>1 DEF getThrottle, Shaped
  <1>2. CASE Known(id) = {}
    <2> DEFINE new == New(id)
               list == <<new>> \o throttles
    <2>1. new \in Throttle /\ new.client = id /\ new.initSent = FALSE
      <3>1. NoLoco \in MyLoco
        BY DEF NoLoco, MyLoco
      <3> QED
        BY <3>1, NoTicks DEF New, Throttle
    <2> HIDE DEF new
    <2>2. /\ <<new>> \in Seq(Throttle) /\ Len(<<new>>) = 1 /\ <<new>>[1] = new
          /\ throttles \in Seq(Throttle) /\ Len(throttles) \in Nat
          /\ DOMAIN throttles = 1..Len(throttles)
      BY <2>1 DEF Shaped
    <2>3. /\ list \in Seq(Throttle) /\ Len(list) = Len(throttles) + 1
          /\ \A k \in 1..(1 + Len(throttles)) : list[k] =
               IF k <= 1 THEN <<new>>[k] ELSE throttles[k - 1]
      BY <2>2, ConcatProperties
    <2> HIDE DEF list
    <2>4. /\ DOMAIN list = 1..(Len(throttles) + 1) /\ list[1] = new
          /\ \A k \in 2..(Len(throttles) + 1) : list[k] = throttles[k - 1]
      BY <2>2, <2>3
    <2>5. \A m \in DOMAIN throttles : m + 1 \in DOMAIN list /\ list[m + 1] = throttles[m]
      BY <2>2, <2>4
    <2>6. \A m \in DOMAIN throttles : throttles[m].client # id
      BY <1>2 DEF Known
    <2>7. ASSUME NEW j \in DOMAIN list, NEW k \in DOMAIN list, j < k
          PROVE  list[j].client # list[k].client
      <3>1. k - 1 \in DOMAIN throttles /\ list[k] = throttles[k - 1]
        BY <2>2, <2>4, <2>7
      <3>2. CASE j = 1
        BY <2>1, <2>4, <2>6, <3>1, <3>2
      <3>3. CASE j # 1
        <4>1. j - 1 \in DOMAIN throttles /\ list[j] = throttles[j - 1] /\ j - 1 # k - 1
          BY <2>2, <2>4, <2>7, <3>3
        <4> QED
          BY <3>1, <4>1 DEF Shaped, Separate
      <3> QED
        BY <3>2, <3>3
    <2>8. Separate(list)
      BY <2>2, <2>4, <2>7 DEF Separate
    <2>9. \A k \in DOMAIN list : \/ \E m \in DOMAIN throttles : list[k] = throttles[m]
                               \/ list[k].initSent = FALSE
      <3> SUFFICES ASSUME NEW k \in DOMAIN list, k # 1
                   PROVE  k - 1 \in DOMAIN throttles /\ list[k] = throttles[k - 1]
        BY <2>1, <2>4
      <3> QED
        BY <2>2, <2>4
    <2>10. getThrottle(id) = list
      BY <1>2 DEF getThrottle, new, list
    <2> QED
      BY <2>3, <2>5, <2>8, <2>9, <2>10
  <1> QED
    BY <1>1, <1>2

\* The moving locos stay in a list or among the freed when the list changes.
LEMMA HandsStay ==
  ASSUME ThrottleInv,
         \A c \in Cabs : table'[c].speed > 1 =>
           \/ table[c].speed > 1
           \/ c \in letGo' \/ \E k \in DOMAIN throttles' : c \in CabsOf(throttles'[k]),
         \A c \in Cabs :
           (c \in letGo \/ \E m \in DOMAIN throttles : c \in CabsOf(throttles[m])) =>
             c \in letGo' \/ \E k \in DOMAIN throttles' : c \in CabsOf(throttles'[k])
  PROVE  NoRunaway'
  BY DEF ThrottleInv, NoRunaway

LEMMA ParseKeeps ==
  ASSUME ThrottleInv, parse
  PROVE  ThrottleInv'
  <1>0. Shaped
    BY DEF ThrottleInv
  <1> DEFINE Old(id, i) == getThrottle(id)[i]
             News(o) == IF o.initSent /\ o.lastPowerState # power THEN {power} ELSE {}
             Woken(o) == [o EXCEPT !.heartBeat = 0, !.lastPowerState =
                            IF o.initSent THEN power ELSE @]
             Heard(e, o) == IF e.tell # {} THEN e.tell ELSE News(o)
  <1>1. PICK id \in Clients \ gone : \E i \in DOMAIN getThrottle(id) :
          /\ Old(id, i).client = id
          /\ \E e \in Effects(Woken(Old(id, i))) :
               /\ throttles' = IF e.quit THEN RemoveAt(getThrottle(id), i)
                               ELSE [getThrottle(id) EXCEPT ![i] = e.wt]
               /\ table' = e.table /\ power' = e.power
               /\ told' = [told EXCEPT ![id] = IF Heard(e, Old(id, i)) = {} THEN @
                                              ELSE Heard(e, Old(id, i))]
               /\ letGo' = (letGo \cup e.free)
                            \ UNION {CabsOf(throttles'[j]) : j \in DOMAIN throttles'}
    BY DEF parse
  <1> DEFINE list == getThrottle(id)
  <1>21. PICK i \in DOMAIN list :
           /\ list[i].client = id
           /\ \E e \in Effects(Woken(list[i])) :
               /\ throttles' = IF e.quit THEN RemoveAt(list, i)
                               ELSE [list EXCEPT ![i] = e.wt]
               /\ table' = e.table /\ power' = e.power
               /\ told' = [told EXCEPT ![id] = IF Heard(e, list[i]) = {} THEN @
                                              ELSE Heard(e, list[i])]
               /\ letGo' = (letGo \cup e.free)
                            \ UNION {CabsOf(throttles'[j]) : j \in DOMAIN throttles'}
    BY <1>1
  <1> DEFINE old == list[i]
             news == News(old)
             wt == Woken(old)
  <1>2. PICK e \in Effects(wt) :
          /\ throttles' = IF e.quit THEN RemoveAt(list, i) ELSE [list EXCEPT ![i] = e.wt]
          /\ table' = e.table /\ power' = e.power
          /\ told' = [told EXCEPT ![id] = IF Heard(e, old) = {} THEN @ ELSE Heard(e, old)]
          /\ letGo' = (letGo \cup e.free)
                       \ UNION {CabsOf(throttles'[j]) : j \in DOMAIN throttles'}
    BY <1>21
  <1>3. old.client = id
    BY <1>21
  <1>4. /\ list \in Seq(Throttle) /\ Separate(list) /\ i \in DOMAIN list
        /\ \A m \in DOMAIN throttles : \E k \in DOMAIN list : list[k] = throttles[m]
        /\ \A k \in DOMAIN list : \/ \E m \in DOMAIN throttles : list[k] = throttles[m]
                                 \/ list[k].initSent = FALSE
    BY <1>0, Lookup
  <1> HIDE DEF list
  <1>5. old \in Throttle /\ power \in BOOLEAN
    BY <1>0, <1>4 DEF Shaped
  <1> HIDE DEF old
  <1>6. /\ wt \in Throttle /\ wt.client = id /\ wt.initSent = old.initSent
        /\ CabsOf(wt) = CabsOf(old)
        /\ old.initSent => wt.lastPowerState = power
    BY ZenonT(30), <1>3, <1>5, NoTicks DEF Throttle, CabsOf
  <1> HIDE DEF wt
  <1>7. Sound(e, wt)
    BY <1>0, <1>2, <1>6, EffectsAreSound
  <1> DEFINE heard == Heard(e, old)
  <1>8. /\ heard \in SUBSET BOOLEAN
        /\ told' = [told EXCEPT ![id] = IF heard = {} THEN told[id] ELSE heard]
        /\ e.tell # {} => heard = {e.wt.lastPowerState}
        /\ e.tell = {} => heard = news
    BY <1>2, <1>5, <1>7 DEF Sound, Throttle
  <1> HIDE DEF heard, Heard, news
  <1>9. /\ throttles' \in Seq(Throttle) /\ Separate(throttles')
        /\ \A k \in DOMAIN throttles' :
             \/ \E m \in DOMAIN list \ {i} : throttles'[k] = list[m]
             \/ ~e.quit /\ throttles'[k] = e.wt
        /\ \A m \in DOMAIN list \ {i} : \E k \in DOMAIN throttles' : throttles'[k] = list[m]
        /\ ~e.quit => \E k \in DOMAIN throttles' : throttles'[k] = e.wt
    <2>1. CASE e.quit
      BY <1>2, <1>4, <2>1, Removal
    <2>2. CASE ~e.quit
      <3>1. throttles' = [list EXCEPT ![i] = e.wt]
        BY <1>2, <2>2
      <3>2. /\ throttles' \in Seq(Throttle) /\ DOMAIN throttles' = DOMAIN list
            /\ throttles'[i] = e.wt
            /\ \A m \in DOMAIN list \ {i} : throttles'[m] = list[m]
        BY <1>4, <1>7, <3>1 DEF Sound
      <3>3. \A m \in DOMAIN list : throttles'[m].client = list[m].client
        BY <1>3, <1>6, <1>7, <3>2 DEF Sound, old
      <3>4. Separate(throttles')
        BY <1>4, <3>2, <3>3 DEF Separate
      <3> QED
        BY <1>4, <2>2, <3>2, <3>4
    <2> QED
      BY <2>1, <2>2
  <1>10. Shaped'
    <2>1. told' \in [Clients -> SUBSET BOOLEAN]
      BY <1>0, <1>8 DEF Shaped
    <2> QED
      BY <1>2, <1>7, <1>9, <2>1 DEF Shaped, Sound
  <1>11. \A c \in Cabs : c \in letGo \cup e.free =>
           c \in letGo' \/ \E k \in DOMAIN throttles' : c \in CabsOf(throttles'[k])
    BY <1>2
  <1>12. \A c \in CabsOf(wt) :
           c \in e.free \/ \E k \in DOMAIN throttles' : c \in CabsOf(throttles'[k])
    BY <1>7, <1>9 DEF Sound
  <1>13. NoRunaway'
    <2>1. ASSUME NEW c \in Cabs, NEW m \in DOMAIN throttles, c \in CabsOf(throttles[m])
          PROVE  c \in letGo' \/ \E k \in DOMAIN throttles' : c \in CabsOf(throttles'[k])
      <3>1. PICK k \in DOMAIN list : list[k] = throttles[m]
        BY <1>4
      <3>2. CASE k = i
        BY <1>6, <1>11, <1>12, <2>1, <3>1, <3>2 DEF old
      <3>3. CASE k # i
        BY <1>9, <2>1, <3>1, <3>3
      <3> QED
        BY <3>2, <3>3
    <2>2. \A c \in Cabs : table'[c].speed > 1 => table[c].speed > 1 \/ c \in CabsOf(wt)
      BY <1>2, <1>7 DEF Sound
    <2>3. \A c \in Cabs \cap CabsOf(wt) :
            c \in letGo' \/ \E k \in DOMAIN throttles' : c \in CabsOf(throttles'[k])
      BY <1>11, <1>12
    <2> QED
      BY <1>11, <2>1, <2>2, <2>3, HandsStay
  <1>14. RememberedIsTold'
    <2> SUFFICES ASSUME NEW k \in DOMAIN throttles', throttles'[k].initSent
                 PROVE  told'[throttles'[k].client] \in {{}, {throttles'[k].lastPowerState}}
      BY DEF RememberedIsTold
    <2>1. told \in [Clients -> SUBSET BOOLEAN]
      BY <1>0 DEF Shaped
    <2>2. CASE ~e.quit /\ throttles'[k] = e.wt
      <3>1. throttles'[k].client = id
        BY <1>6, <1>7, <2>2 DEF Sound
      <3>2. CASE e.tell # {}
        BY <1>8, <2>1, <2>2, <3>1, <3>2
      <3>3. CASE e.tell = {}
        <4>1. old.initSent /\ e.wt.lastPowerState = power
          BY <1>6, <1>7, <2>2, <3>3 DEF Sound
        <4>2. PICK m \in DOMAIN throttles : old = throttles[m]
          BY <1>4, <4>1 DEF old
        <4>3. told[id] \in {{}, {old.lastPowerState}}
          BY <1>3, <4>1, <4>2 DEF ThrottleInv, RememberedIsTold
        <4>4. heard = IF old.lastPowerState # power THEN {power} ELSE {}
          BY <1>8, <3>3, <4>1 DEF news
        <4>5. told'[id] = IF heard = {} THEN told[id] ELSE heard
          BY <1>8, <2>1
        <4> QED
          BY <2>2, <3>1, <4>1, <4>3, <4>4, <4>5
      <3> QED
        BY <3>2, <3>3
    <2>3. ASSUME NEW m \in DOMAIN list \ {i}, throttles'[k] = list[m]
          PROVE  told'[throttles'[k].client] \in {{}, {throttles'[k].lastPowerState}}
      <3>1. list[m].client # id
        BY <1>3, <1>4, <2>3 DEF Separate, old
      <3>2. PICK n \in DOMAIN throttles : list[m] = throttles[n]
        BY <1>4, <2>3
      <3>3. told'[list[m].client] = told[list[m].client]
        BY <1>8, <2>1, <3>1
      <3> QED
        BY <2>3, <3>2, <3>3 DEF ThrottleInv, RememberedIsTold
    <2> QED
      BY <1>9, <2>2, <2>3
  <1> QED
    BY <1>10, <1>13, <1>14 DEF ThrottleInv

LEMMA LoopKeeps ==
  ASSUME ThrottleInv, loop
  PROVE  ThrottleInv'
  <1>1. PICK i \in DOMAIN throttles : /\ throttles' = RemoveAt(throttles, i)
                                     /\ table' = Stopped(throttles[i])
    BY DEF loop
  <1>2. power' = power /\ told' = told /\ letGo' = letGo
    BY DEF loop, history
  <1>3. /\ throttles \in Seq(Throttle) /\ Separate(throttles) /\ table \in Table
        /\ power \in BOOLEAN /\ told \in [Clients -> SUBSET BOOLEAN]
    BY DEF ThrottleInv, Shaped
  <1>4. /\ throttles' \in Seq(Throttle) /\ Separate(throttles')
        /\ \A k \in DOMAIN throttles' :
             \E m \in DOMAIN throttles \ {i} : throttles'[k] = throttles[m]
        /\ \A m \in DOMAIN throttles \ {i} :
             \E k \in DOMAIN throttles' : throttles'[k] = throttles[m]
    BY <1>1, <1>3, Removal
  <1>5. /\ table' \in Table
        /\ \A c \in Cabs : table'[c].speed > 1 =>
             table[c].speed > 1 /\ c \notin CabsOf(throttles[i])
    <2> DEFINE stopped(c) == [table[c] EXCEPT !.speed = 1]
    <2>1. \A c \in Cabs : /\ stopped(c) \in [speed : 0..127, forward : BOOLEAN]
                          /\ stopped(c).speed = 1
      BY <1>3 DEF Table
    <2>2. table' = [c \in Cabs |-> IF c \in CabsOf(throttles[i]) THEN stopped(c) ELSE table[c]]
      BY <1>1 DEF Stopped, setThrottle
    <2> HIDE DEF stopped
    <2> QED
      BY <1>3, <2>1, <2>2 DEF Table
  <1>6. Shaped'
    BY <1>2, <1>3, <1>4, <1>5 DEF Shaped
  <1>7. NoRunaway'
    <2> SUFFICES ASSUME NEW c \in Cabs, table'[c].speed > 1
                 PROVE  c \in letGo' \/ \E k \in DOMAIN throttles' : c \in CabsOf(throttles'[k])
      BY DEF NoRunaway
    <2>1. table[c].speed > 1 /\ c \notin CabsOf(throttles[i])
      BY <1>5
    <2>2. c \in letGo \/ \E m \in DOMAIN throttles : c \in CabsOf(throttles[m])
      BY <2>1 DEF ThrottleInv, NoRunaway
    <2> QED
      BY <1>2, <1>4, <2>1, <2>2
  <1>8. RememberedIsTold'
    BY <1>2, <1>4 DEF ThrottleInv, RememberedIsTold
  <1> QED
    BY <1>6, <1>7, <1>8 DEF ThrottleInv

LEMMA TickKeeps ==
  ASSUME ThrottleInv, Tick
  PROVE  ThrottleInv'
  <1> DEFINE Later(o) == [o EXCEPT !.heartBeat = IF @ > Timeout THEN @ ELSE @ + 1]
  <1>1. /\ throttles' = [i \in DOMAIN throttles |-> Later(throttles[i])]
        /\ table' = table /\ power' = power /\ told' = told /\ letGo' = letGo
    BY DEF Tick, dcc, history
  <1>2. throttles \in Seq(Throttle) /\ Separate(throttles)
    BY DEF ThrottleInv, Shaped
  <1>3. ASSUME NEW o \in Throttle
        PROVE  /\ Later(o) \in Throttle /\ Later(o).client = o.client
               /\ Later(o).initSent = o.initSent
               /\ Later(o).lastPowerState = o.lastPowerState
               /\ CabsOf(Later(o)) = CabsOf(o)
    <2>1. Timeout \in Nat
      BY ThrottleAssumption
    <2> QED
      BY <2>1 DEF Throttle, CabsOf
  <1> HIDE DEF Later
  <1>4. /\ throttles' \in Seq(Throttle) /\ DOMAIN throttles' = DOMAIN throttles
        /\ \A i \in DOMAIN throttles : throttles'[i] = Later(throttles[i])
    <2>1. Len(throttles) \in Nat /\ DOMAIN throttles = 1..Len(throttles)
          /\ \A i \in 1..Len(throttles) : throttles[i] \in Throttle
      BY <1>2
    <2> QED
      BY <1>1, <1>3, <2>1
  <1>5. \A i \in DOMAIN throttles : throttles[i] \in Throttle
    BY <1>2
  <1>6. Separate(throttles')
    BY <1>2, <1>3, <1>4, <1>5 DEF Separate
  <1>7. Shaped'
    BY <1>1, <1>4, <1>6 DEF ThrottleInv, Shaped
  <1>8. NoRunaway'
    BY <1>1, <1>3, <1>4, <1>5 DEF ThrottleInv, NoRunaway
  <1>9. RememberedIsTold'
    BY <1>1, <1>3, <1>4, <1>5 DEF ThrottleInv, RememberedIsTold
  <1> QED
    BY <1>7, <1>8, <1>9 DEF ThrottleInv

LEMMA ThrottleInvariant ==
  /\ Init => ThrottleInv
  /\ ThrottleInv /\ [Next]_vars => ThrottleInv'
  <1>1. ASSUME Init PROVE ThrottleInv
    <2>1. /\ throttles = <<>> /\ power = FALSE /\ told = [id \in Clients |-> {}]
          /\ table = [c \in Cabs |-> [speed |-> 0, forward |-> TRUE]]
      BY <1>1 DEF Init
    <2>2. table \in Table /\ \A c \in Cabs : table[c].speed = 0
      BY <2>1 DEF Table
    <2>3. throttles \in Seq(Throttle) /\ DOMAIN throttles = {}
      BY <2>1
    <2>4. Shaped
      BY <2>1, <2>2, <2>3 DEF Shaped, Separate
    <2> QED
      BY <2>2, <2>3, <2>4 DEF ThrottleInv, NoRunaway, RememberedIsTold
  <1>2. ASSUME ThrottleInv, [Next]_vars PROVE ThrottleInv'
    <2>1. CASE parse
      BY <1>2, <2>1, ParseKeeps
    <2>2. CASE loop
      BY <1>2, <2>2, LoopKeeps
    <2>3. CASE Tick
      BY <1>2, <2>3, TickKeeps
    <2>4. CASE Vanish \/ UNCHANGED vars
      <3>1. /\ throttles' = throttles /\ table' = table /\ power' = power
            /\ told' = told /\ letGo' = letGo
        BY <2>4 DEF Vanish, vars, dcc, history
      <3> QED
        BY <1>2, <3>1 DEF ThrottleInv, Shaped, NoRunaway, RememberedIsTold
    <2>5. CASE Connect
      <3>1. PICK id \in gone : told' = [told EXCEPT ![id] = {}]
        BY <2>5 DEF Connect
      <3>2. throttles' = throttles /\ table' = table /\ power' = power /\ letGo' = letGo
        BY <2>5 DEF Connect, dcc
      <3>3. told \in [Clients -> SUBSET BOOLEAN]
        BY <1>2 DEF ThrottleInv, Shaped
      <3>4. /\ told' \in [Clients -> SUBSET BOOLEAN]
            /\ \A c \in Clients : told'[c] \in {{}, told[c]}
        BY <3>1, <3>3
      <3>5. \A i \in DOMAIN throttles : throttles[i].client \in Clients
        <4>1. \A o \in Throttle : o.client \in Clients
          BY DEF Throttle
        <4>2. \A i \in DOMAIN throttles : throttles[i] \in Throttle
          BY <1>2 DEF ThrottleInv, Shaped
        <4> QED
          BY <4>1, <4>2
      <3>6. RememberedIsTold'
        BY <1>2, <3>2, <3>4, <3>5 DEF ThrottleInv, RememberedIsTold
      <3> QED
        BY <1>2, <3>2, <3>4, <3>6 DEF ThrottleInv, Shaped, NoRunaway
    <2>6. CASE OthersSwitch
      <3>1. /\ throttles' = throttles /\ table' = table /\ power' = ~power
            /\ told' = told /\ letGo' = letGo
        BY <2>6 DEF OthersSwitch, history
      <3> QED
        BY <1>2, <3>1 DEF ThrottleInv, Shaped, NoRunaway, RememberedIsTold
    <2> QED
      BY <1>2, <2>1, <2>2, <2>3, <2>4, <2>5, <2>6 DEF Next
  <1> QED
    BY <1>1, <1>2

-----------------------------------------------------------------------------
(* The theorems.                                                           *)

\* The list has one object per client, whatever messages come, and the speed
\* table stays a table (getThrottle, WiThrottle::loop).
THEOREM ThrottlesTyped == Spec => []TypeOK
  <1>1. ThrottleInv => TypeOK
    <2> SUFFICES ASSUME ThrottleInv PROVE TypeOK
      OBVIOUS
    <2>1. /\ throttles \in Seq(Throttle) /\ Separate(throttles) /\ table \in Table
      BY DEF ThrottleInv, Shaped
    <2>2. \A o \in Throttle : o.heartBeat \in 0..(Timeout + 1)
      BY DEF Throttle
    <2>3. \A i \in DOMAIN throttles : throttles[i] \in Throttle
      BY <2>1
    <2> QED
      BY <2>1, <2>2, <2>3 DEF TypeOK, Separate, Table
  <1> QED
    BY <1>1, ThrottleInvariant, PTL DEF Spec

\* A loco that moves is in some client's list, or a driver let it go with a
\* message: no client that is dropped leaves one running, whatever its slots
\* and letters and whoever else drives it.
THEOREM NobodyRunsAway == Spec => []NoRunaway
  BY ThrottleInvariant, PTL DEF Spec, ThrottleInv

\* The power state the server takes a client to know is the one it was told.
THEOREM ClientsAreTold == Spec => []RememberedIsTold
  BY ThrottleInvariant, PTL DEF Spec, ThrottleInv
=============================================================================
