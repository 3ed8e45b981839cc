----------------------------- MODULE StoreProofs -----------------------------
(***************************************************************************)
(* Proofs, for every size of the EEPROM and all ids and flags, that the    *)
(* lists keep their ids apart whatever the EEPROM holds, and that the      *)
(* store keeps the promise of Retention as long as it has room.            *)
(***************************************************************************)
EXTENDS MCStore, SequenceTheorems, WellFoundedInduction, TLAPS

-----------------------------------------------------------------------------
(* One list: the place of an id, and an object created or removed.         *)

LEMMA LeastExists ==
  ASSUME NEW S, S \subseteq Nat, S # {} PROVE \E m \in S : \A n \in S : m <= n
  <1> DEFINE Less == {ss \in Nat \X Nat : ss[1] < ss[2]}
  <1>1. IsWellFoundedOn(Less, Nat)
    BY NatLessThanWellFounded DEF OpToRel
  <1>2. PICK m \in S : \A n \in S : ~ (<<n, m>> \in Less)
    <2> HIDE DEF Less
    <2> QED BY <1>1, WFMin
  <1>3. \A n \in S : ~(n < m)
    BY <1>2
  <1> QED BY <1>3

\* No id is in a list twice.
Apart(list) == \A i, j \in DOMAIN list : i # j => list[i].id # list[j].id

List(S) == {list \in Seq(S) : Apart(list)}

\* The place of an id: of an object that has it, or 0.
LEMMA Place ==
  ASSUME NEW list, NEW S, list \in Seq(S), NEW id
  PROVE  /\ PlaceOf(list, id) \in 0..Len(list)
         /\ PlaceOf(list, id) > 0 => list[PlaceOf(list, id)].id = id
         /\ PlaceOf(list, id) = 0 => \A i \in 1..Len(list) : list[i].id # id
  <1> DEFINE I == {i \in 1..Len(list) : list[i].id = id}
  <1>0. Len(list) \in Nat
    OBVIOUS
  <1>1. PlaceOf(list, id) = IF I # {} THEN Min(I) ELSE 0
    BY DEF PlaceOf, SelectInSeq
  <1>2. CASE I = {}
    BY <1>0, <1>1, <1>2
  <1>3. CASE I # {}
    <2>1. I \subseteq Nat
      BY <1>0
    <2>2. Min(I) \in I
      <3> HIDE DEF I
      <3> QED BY <2>1, <1>3, LeastExists DEF Min
    <2> QED BY <1>0, <1>1, <1>3, <2>2
  <1> QED BY <1>2, <1>3

\* In a list that keeps its ids apart, it is the place of the object.
LEMMA PlaceIs ==
  ASSUME NEW S, NEW list \in List(S), NEW i \in 1..Len(list)
  PROVE  PlaceOf(list, list[i].id) = i
  <1> DEFINE p == PlaceOf(list, list[i].id)
  <1>1. list \in Seq(S) /\ Apart(list) /\ DOMAIN list = 1..Len(list) /\ Len(list) \in Nat
    BY DEF List
  <1>2. /\ p \in 0..Len(list)
        /\ p > 0 => list[p].id = list[i].id
        /\ p = 0 => \A j \in 1..Len(list) : list[j].id # list[i].id
    BY <1>1, Place
  <1> HIDE DEF p
  <1>3. p > 0
    BY <1>1, <1>2
  <1>4. p = i
    BY <1>1, <1>2, <1>3 DEF Apart
  <1> QED BY <1>4 DEF p

\* The objects of a list after one of them changed or a new one was linked.
LEMMA CreateSet ==
  ASSUME NEW S, NEW list \in List(S), NEW object \in S, NEW inFront \in BOOLEAN
  PROVE  /\ create(list, object, inFront) \in List(S)
         /\ ToSet(create(list, object, inFront))
            = {object} \cup {x \in ToSet(list) : x.id # object.id}
  <1> DEFINE i == PlaceOf(list, object.id)
             after == create(list, object, inFront)
  <1>1. list \in Seq(S) /\ Apart(list) /\ DOMAIN list = 1..Len(list) /\ Len(list) \in Nat
    BY DEF List
  <1>2. /\ i \in 0..Len(list)
        /\ i > 0 => list[i].id = object.id
        /\ i = 0 => \A j \in 1..Len(list) : list[j].id # object.id
    BY <1>1, Place
  <1>3. after = IF i > 0 THEN [list EXCEPT ![i] = object]
                ELSE IF inFront THEN <<object>> \o list ELSE Append(list, object)
    BY DEF create
  <1> HIDE DEF i, after
  <1>4. CASE i > 0
    <2>1. /\ after \in Seq(S) /\ Len(after) = Len(list)
          /\ \A j \in 1..Len(list) : after[j] = IF j = i THEN object ELSE list[j]
      BY <1>1, <1>2, <1>3, <1>4
    <2>2. DOMAIN after = 1..Len(list)
      BY <2>1
    <2>3. Apart(after)
      BY <1>1, <1>2, <1>4, <2>1, <2>2 DEF Apart
    <2>4. ASSUME NEW x PROVE x \in ToSet(after) <=> x = object \/ (x \in ToSet(list) /\ x.id # object.id)
      <3>1. x \in ToSet(after) <=> \E j \in 1..Len(list) : x = after[j]
        BY <2>2 DEF ToSet
      <3>2. x \in ToSet(list) <=> \E j \in 1..Len(list) : x = list[j]
        BY <1>1 DEF ToSet
      <3>3. \A j \in 1..Len(list) : j # i => list[j].id # object.id
        BY <1>1, <1>2, <1>4 DEF Apart
      <3> QED BY <3>1, <3>2, <3>3, <2>1, <1>2, <1>4
    <2> QED BY <2>1, <2>3, <2>4 DEF List, after
  <1>5. CASE i = 0 /\ inFront
    <2>1. /\ after \in Seq(S) /\ Len(after) = Len(list) + 1
          /\ after[1] = object
          /\ \A j \in 2..(Len(list) + 1) : after[j] = list[j - 1]
      BY <1>1, <1>3, <1>5
    <2>2. DOMAIN after = 1..(Len(list) + 1)
      BY <2>1
    <2>3. Apart(after)
      <3>1. \A j \in 2..(Len(list) + 1) :
               after[j] = list[j - 1] /\ j - 1 \in 1..Len(list) /\ after[j].id # object.id
        BY <1>1, <1>2, <1>5, <2>1
      <3> SUFFICES ASSUME NEW j \in 1..(Len(list) + 1), NEW k \in 1..(Len(list) + 1), j < k
                   PROVE  after[j].id # after[k].id
        BY <1>1, <2>2 DEF Apart
      <3>2. k \in 2..(Len(list) + 1)
        BY <1>1
      <3>3. CASE j = 1
        BY <2>1, <3>1, <3>2, <3>3
      <3>4. CASE j # 1
        <4>1. j \in 2..(Len(list) + 1) /\ j - 1 # k - 1
          BY <1>1, <3>4
        <4> QED BY <1>1, <3>1, <3>2, <4>1 DEF Apart
      <3> QED BY <3>3, <3>4
    <2>4. ASSUME NEW x PROVE x \in ToSet(after) <=> x = object \/ (x \in ToSet(list) /\ x.id # object.id)
      <3>1. x \in ToSet(after) <=> \E j \in 1..(Len(list) + 1) : x = after[j]
        BY <2>2 DEF ToSet
      <3>2. x \in ToSet(list) <=> \E j \in 1..Len(list) : x = list[j]
        BY <1>1 DEF ToSet
      <3>3. x \in ToSet(list) => \E j \in 1..(Len(list) + 1) : x = after[j]
        <4> SUFFICES ASSUME NEW j \in 1..Len(list), x = list[j]
                     PROVE  \E k \in 1..(Len(list) + 1) : x = after[k]
          BY <3>2
        <4>1. j + 1 \in 2..(Len(list) + 1) /\ after[j + 1] = list[(j + 1) - 1]
          BY <1>1, <2>1
        <4> QED BY <1>1, <4>1
      <3> QED BY <3>1, <3>2, <3>3, <2>1, <1>1, <1>2, <1>5
    <2> QED BY <2>1, <2>3, <2>4 DEF List, after
  <1>6. CASE i = 0 /\ ~inFront
    <2>1. /\ after \in Seq(S) /\ Len(after) = Len(list) + 1
          /\ after[Len(list) + 1] = object
          /\ \A j \in 1..Len(list) : after[j] = list[j]
      BY <1>1, <1>3, <1>6
    <2>2. DOMAIN after = 1..(Len(list) + 1)
      BY <2>1
    <2>3. Apart(after)
      BY <1>1, <1>2, <1>6, <2>1, <2>2 DEF Apart
    <2>4. ASSUME NEW x PROVE x \in ToSet(after) <=> x = object \/ (x \in ToSet(list) /\ x.id # object.id)
      <3>1. x \in ToSet(after) <=> \E j \in 1..(Len(list) + 1) : x = after[j]
        BY <2>2 DEF ToSet
      <3>2. x \in ToSet(list) <=> \E j \in 1..Len(list) : x = list[j]
        BY <1>1 DEF ToSet
      <3> QED BY <3>1, <3>2, <2>1, <1>1, <1>2, <1>6
    <2> QED BY <2>1, <2>3, <2>4 DEF List, after
  <1> QED BY <1>2, <1>4, <1>5, <1>6

\* An object changed in its place is an object created again.
LEMMA ChangeIsCreate ==
  ASSUME NEW S, NEW list \in List(S), NEW i \in 1..Len(list), NEW object,
         object.id = list[i].id
  PROVE  [list EXCEPT ![i] = object] = create(list, object, FALSE)
  <1>1. PlaceOf(list, object.id) = i
    BY PlaceIs
  <1>2. i > 0
    BY DEF List
  <1> QED BY <1>1, <1>2 DEF create

\* The objects of a list after one was removed.
LEMMA RemoveSet ==
  ASSUME NEW S, NEW list \in List(S), NEW id, PlaceOf(list, id) > 0
  PROVE  /\ RemoveAt(list, PlaceOf(list, id)) \in List(S)
         /\ ToSet(RemoveAt(list, PlaceOf(list, id))) = {x \in ToSet(list) : x.id # id}
  <1> DEFINE p == PlaceOf(list, id)
             n == Len(list)
             after == RemoveAt(list, p)
  <1>1. list \in Seq(S) /\ Apart(list) /\ DOMAIN list = 1..n /\ n \in Nat
    BY DEF List
  <1>2. p \in 1..n /\ list[p].id = id
    BY <1>1, Place
  <1>3. after = SubSeq(list, 1, p - 1) \o SubSeq(list, p + 1, n)
    BY DEF RemoveAt
  <1> HIDE DEF p, n, after
  <1>4. n = Len(list)
    BY DEF n
  <1>5. /\ SubSeq(list, 1, p - 1) \in Seq(S) /\ Len(SubSeq(list, 1, p - 1)) = p - 1
        /\ \A j \in 1..(p - 1) : SubSeq(list, 1, p - 1)[j] = list[j]
    BY <1>1, <1>2, <1>4
  <1>6. /\ SubSeq(list, p + 1, n) \in Seq(S) /\ Len(SubSeq(list, p + 1, n)) = n - p
        /\ \A j \in 1..(n - p) : SubSeq(list, p + 1, n)[j] = list[p + j]
    <2>1. p + 1 \in 1..(n + 1) /\ n \in 0..n /\ Len(list) = n
      BY <1>1, <1>2, <1>4
    <2>2. SubSeq(list, p + 1, n) \in Seq(S)
      BY <1>1, <2>1
    <2>3. Len(SubSeq(list, p + 1, n)) = n - p
      BY <1>1, <1>2, <2>1
    <2>4. \A j \in 1..(n - p) : SubSeq(list, p + 1, n)[j] = list[p + j]
      BY <1>1, <1>2, <2>1
    <2> QED BY <2>2, <2>3, <2>4
  <1>7. /\ after \in Seq(S) /\ Len(after) = n - 1
        /\ \A j \in 1..(n - 1) : after[j] = IF j < p THEN list[j] ELSE list[j + 1]
    <2> DEFINE a == SubSeq(list, 1, p - 1)
               b == SubSeq(list, p + 1, n)
    <2>1. /\ a \in Seq(S) /\ Len(a) = p - 1 /\ b \in Seq(S) /\ Len(b) = n - p
          /\ \A j \in 1..(p - 1) : a[j] = list[j]
          /\ \A j \in 1..(n - p) : b[j] = list[p + j]
          /\ after = a \o b
      BY <1>3, <1>5, <1>6
    <2> HIDE DEF a, b
    <2>2. /\ after \in Seq(S) /\ Len(after) = n - 1
          /\ \A j \in 1..(n - 1) : after[j] = IF j <= p - 1 THEN a[j] ELSE b[j - (p - 1)]
      <3>1. Len(a) + Len(b) = n - 1
        BY <1>1, <1>2, <2>1
      <3>2. /\ after \in Seq(S) /\ Len(after) = Len(a) + Len(b)
            /\ \A j \in 1..(Len(a) + Len(b)) : after[j] = IF j <= Len(a) THEN a[j] ELSE b[j - Len(a)]
        BY <2>1, ConcatProperties
      <3> QED BY <3>1, <3>2, <2>1
    <2>3. ASSUME NEW j \in 1..(n - 1) PROVE after[j] = IF j < p THEN list[j] ELSE list[j + 1]
      <3>1. CASE j < p
        BY <1>1, <1>2, <2>1, <2>2, <3>1
      <3>2. CASE j >= p
        <4>1. j - (p - 1) \in 1..(n - p) /\ p + (j - (p - 1)) = j + 1 /\ ~(j <= p - 1) /\ ~(j < p)
          BY <1>1, <1>2, <3>2
        <4> QED BY <2>1, <2>2, <4>1
      <3> QED BY <3>1, <3>2, <1>1, <1>2
    <2> QED BY <2>2, <2>3
  <1>8. DOMAIN after = 1..(n - 1)
    BY <1>7
  <1>9. Apart(after)
    <2>1. \A j \in 1..(n - 1) :
             after[j] = list[IF j < p THEN j ELSE j + 1] /\ (IF j < p THEN j ELSE j + 1) \in 1..n
      BY <1>1, <1>2, <1>7
    <2> SUFFICES ASSUME NEW j \in 1..(n - 1), NEW k \in 1..(n - 1), j # k
                 PROVE  after[j].id # after[k].id
      BY <1>8 DEF Apart
    <2>2. (IF j < p THEN j ELSE j + 1) # (IF k < p THEN k ELSE k + 1)
      BY <1>1, <1>2
    <2> QED BY <1>1, <2>1, <2>2 DEF Apart
  <1>10. ASSUME NEW x PROVE x \in ToSet(after) <=> x \in ToSet(list) /\ x.id # id
    <2>1. x \in ToSet(after) <=> \E j \in 1..(n - 1) : x = after[j]
      BY <1>8 DEF ToSet
    <2>2. x \in ToSet(list) <=> \E j \in 1..n : x = list[j]
      BY <1>1 DEF ToSet
    <2>3. \A j \in 1..n : j # p => list[j].id # id
      BY <1>1, <1>2 DEF Apart
    <2>4. ASSUME NEW j \in 1..n, j # p PROVE \E k \in 1..(n - 1) : list[j] = after[k]
      <3>1. CASE j < p
        BY <1>1, <1>2, <1>7, <3>1
      <3>2. CASE j > p
        <4>1. j - 1 \in 1..(n - 1) /\ ~(j - 1 < p) /\ (j - 1) + 1 = j
          BY <1>1, <1>2, <3>2
        <4> QED BY <4>1, <1>7
      <3> QED BY <2>4, <3>1, <3>2, <1>1, <1>2
    <2>5. ASSUME NEW j \in 1..(n - 1) PROVE \E k \in 1..n : k # p /\ after[j] = list[k]
      BY <1>1, <1>2, <1>7
    <2> QED BY <2>1, <2>2, <2>3, <2>4, <2>5, <1>2
  <1> QED BY <1>7, <1>9, <1>10 DEF List, after, p
-----------------------------------------------------------------------------
(* The list that load grows, object by object: whatever the objects are,   *)
(* of those with one id it holds the last.                                 *)

\* The objects that no later one replaces.
Latest(objects) ==
  {objects[i] : i \in {j \in DOMAIN objects :
     \A k \in DOMAIN objects : k > j => objects[k].id # objects[j].id}}

IsGrowth(list, objects, inFront, n) ==
  list = [i \in 0..n |-> IF i = 0 THEN <<>> ELSE create(list[i - 1], objects[i], inFront)]
Growth(objects, inFront, n) == \E list : IsGrowth(list, objects, inFront, n)

\* One object more: the list grows by one step.
LEMMA GrowthStep ==
  ASSUME NEW objects, NEW inFront, NEW n \in Nat, Growth(objects, inFront, n)
  PROVE  Growth(objects, inFront, n + 1)
  <1>1. PICK list : IsGrowth(list, objects, inFront, n)
    BY DEF Growth
  <1> DEFINE longer == [i \in 0..(n + 1) |->
               IF i = n + 1 THEN create(list[n], objects[n + 1], inFront) ELSE list[i]]
  <1>2. \A i \in 0..n : list[i] = IF i = 0 THEN <<>> ELSE create(list[i - 1], objects[i], inFront)
    BY <1>1 DEF IsGrowth
  <1>3. ASSUME NEW i \in 0..(n + 1)
        PROVE  longer[i] = IF i = 0 THEN <<>> ELSE create(longer[i - 1], objects[i], inFront)
    <2>1. CASE i = n + 1
      <3>1. longer[i] = create(list[n], objects[n + 1], inFront)
        BY <2>1
      <3>2. i - 1 \in 0..(n + 1) /\ i - 1 # n + 1 /\ i - 1 = n /\ i # 0
        BY <2>1
      <3>3. longer[i - 1] = list[n]
        BY <3>2
      <3> QED BY <2>1, <3>1, <3>2, <3>3
    <2>2. CASE i # n + 1 /\ i # 0
      <3>1. i \in 0..n /\ i - 1 \in 0..(n + 1) /\ i - 1 # n + 1
        BY <2>2
      <3>2. longer[i] = list[i] /\ longer[i - 1] = list[i - 1]
        BY <3>1, <2>2
      <3> QED BY <1>2, <2>2, <3>1, <3>2
    <2>3. CASE i = 0
      <3>1. longer[i] = list[i] /\ i \in 0..n
        BY <2>3
      <3> QED BY <1>2, <2>3, <3>1
    <2> QED BY <2>1, <2>2, <2>3
  <1>4. IsGrowth(longer, objects, inFront, n + 1)
    <2>1. longer = [i \in 0..(n + 1) |-> longer[i]]
      OBVIOUS
    <2> HIDE DEF longer
    <2> QED BY <1>3, <2>1 DEF IsGrowth
  <1> HIDE DEF longer
  <1> QED BY <1>4 DEF Growth

LEMMA GrowthExists ==
  ASSUME NEW objects, NEW inFront, NEW n \in Nat
  PROVE  Growth(objects, inFront, n)
  <1> DEFINE Bad == {m \in Nat : ~Growth(objects, inFront, m)}
  <1> SUFFICES ASSUME Bad # {} PROVE FALSE
    OBVIOUS
  <1>1. PICK m \in Bad : \A k \in Bad : m <= k
    <2>1. Bad \subseteq Nat
      OBVIOUS
    <2> HIDE DEF Bad
    <2> QED BY <2>1, LeastExists
  <1>2. CASE m = 0
    <2> DEFINE list == [i \in 0..0 |-> <<>>]
    <2>1. IsGrowth(list, objects, inFront, 0)
      BY DEF IsGrowth
    <2> HIDE DEF list
    <2>2. Growth(objects, inFront, 0)
      BY <2>1 DEF Growth
    <2> QED BY <1>1, <1>2, <2>2
  <1>3. CASE m # 0
    <2>1. m - 1 \in Nat /\ m - 1 < m /\ (m - 1) + 1 = m
      BY <1>1, <1>3
    <2>2. Growth(objects, inFront, m - 1)
      BY <1>1, <2>1
    <2>3. Growth(objects, inFront, (m - 1) + 1)
      BY <2>1, <2>2, GrowthStep
    <2> QED BY <1>1, <2>1, <2>3
  <1> QED BY <1>2, <1>3

\* Created is the end of such a growth.
LEMMA CreatedGrows ==
  ASSUME NEW objects, Len(objects) \in Nat, NEW inFront
  PROVE  \E list : /\ IsGrowth(list, objects, inFront, Len(objects))
                   /\ Created(objects, inFront) = list[Len(objects)]
  <1> DEFINE list == CHOOSE l : IsGrowth(l, objects, inFront, Len(objects))
  <1>1. IsGrowth(list, objects, inFront, Len(objects))
    BY GrowthExists DEF Growth
  <1>2. Created(objects, inFront) = list[Len(objects)]
    BY DEF Created, IsGrowth
  <1> HIDE DEF list
  <1> QED BY <1>1, <1>2

\* Typed objects make a list that keeps its ids apart, of the latest of them.
GrowsAs(S, list, objects, n) ==
  /\ list \in List(S)
  /\ \A x : x \in ToSet(list) <=>
            \E i \in 1..n : x = objects[i] /\ \A k \in (i + 1)..n : objects[k].id # objects[i].id

LEMMA GrowsOn ==
  ASSUME NEW S, NEW objects, NEW inFront \in BOOLEAN, NEW n \in Nat, objects[n + 1] \in S,
         NEW list, GrowsAs(S, list, objects, n)
  PROVE  GrowsAs(S, create(list, objects[n + 1], inFront), objects, n + 1)
  <1> DEFINE object == objects[n + 1]
             after == create(list, object, inFront)
  <1>1. /\ after \in List(S)
        /\ ToSet(after) = {object} \cup {x \in ToSet(list) : x.id # object.id}
    BY CreateSet DEF GrowsAs
  <1> HIDE DEF after
  <1>2. ASSUME NEW x
        PROVE  x \in ToSet(after) <=>
                 \E i \in 1..(n + 1) :
                   x = objects[i] /\ \A k \in (i + 1)..(n + 1) : objects[k].id # objects[i].id
    <2>1. ASSUME x \in ToSet(after)
          PROVE  \E i \in 1..(n + 1) :
                   x = objects[i] /\ \A k \in (i + 1)..(n + 1) : objects[k].id # objects[i].id
      <3>1. CASE x = object
        BY <3>1
      <3>2. CASE x # object
        <4>1. x \in ToSet(list) /\ x.id # object.id
          BY <1>1, <2>1, <3>2
        <4>2. PICK i \in 1..n : x = objects[i] /\ \A k \in (i + 1)..n : objects[k].id # objects[i].id
          BY <4>1 DEF GrowsAs
        <4>3. i \in 1..(n + 1) /\ \A k \in (i + 1)..(n + 1) : objects[k].id # objects[i].id
          BY <4>1, <4>2
        <4> QED BY <4>2, <4>3
      <3> QED BY <3>1, <3>2
    <2>2. ASSUME NEW i \in 1..(n + 1), x = objects[i],
                 \A k \in (i + 1)..(n + 1) : objects[k].id # objects[i].id
          PROVE  x \in ToSet(after)
      <3>1. CASE i = n + 1
        BY <1>1, <2>2, <3>1
      <3>2. CASE i # n + 1
        <4>1. i \in 1..n /\ n + 1 \in (i + 1)..(n + 1)
          BY <3>2
        <4>2. x.id # object.id
          BY <2>2, <4>1
        <4>3. \A k \in (i + 1)..n : objects[k].id # objects[i].id
          BY <2>2
        <4>4. x \in ToSet(list)
          BY <2>2, <4>1, <4>3 DEF GrowsAs
        <4> QED BY <1>1, <4>2, <4>4
      <3> QED BY <3>1, <3>2
    <2> QED BY <2>1, <2>2
  <1>3. GrowsAs(S, after, objects, n + 1)
    BY <1>1, <1>2 DEF GrowsAs
  <1> QED BY <1>3 DEF after

LEMMA GrowthGrows ==
  ASSUME NEW S, NEW objects, NEW inFront \in BOOLEAN, NEW m \in Nat,
         \A i \in 1..m : objects[i] \in S,
         NEW list, IsGrowth(list, objects, inFront, m)
  PROVE  GrowsAs(S, list[m], objects, m)
  <1> DEFINE Bad == {n \in 0..m : ~GrowsAs(S, list[n], objects, n)}
  <1>0. \A i \in 0..m : list[i] = IF i = 0 THEN <<>> ELSE create(list[i - 1], objects[i], inFront)
    BY DEF IsGrowth
  <1> SUFFICES ASSUME Bad # {} PROVE FALSE
    OBVIOUS
  <1>1. PICK n \in Bad : \A k \in Bad : n <= k
    <2>1. Bad \subseteq Nat
      OBVIOUS
    <2> HIDE DEF Bad
    <2> QED BY <2>1, LeastExists
  <1>2. CASE n = 0
    <2>1. list[0] = <<>>
      BY <1>0
    <2>2. <<>> \in List(S)
      BY DEF List, Apart
    <2>3. \A x : x \notin ToSet(<<>>)
      BY DEF ToSet
    <2>4. GrowsAs(S, <<>>, objects, 0)
      BY <2>2, <2>3 DEF GrowsAs
    <2> QED BY <1>1, <1>2, <2>1, <2>4
  <1>3. CASE n # 0
    <2>1. n - 1 \in 0..m /\ n - 1 \in Nat /\ n - 1 < n /\ (n - 1) + 1 = n /\ n \in 1..m
      BY <1>1, <1>3
    <2>2. GrowsAs(S, list[n - 1], objects, n - 1)
      BY <1>1, <2>1
    <2> DEFINE k == n - 1
    <2>3. k \in Nat /\ k + 1 = n /\ GrowsAs(S, list[k], objects, k) /\ objects[k + 1] \in S
      BY <2>1, <2>2
    <2> HIDE DEF k
    <2>4. GrowsAs(S, create(list[k], objects[k + 1], inFront), objects, k + 1)
      BY <2>3, GrowsOn
    <2>5. list[n] = create(list[k], objects[k + 1], inFront)
      <3>1. k = n - 1
        BY DEF k
      <3> QED BY <1>0, <1>1, <1>3, <2>1, <2>3, <3>1
    <2> QED BY <1>1, <2>3, <2>4, <2>5
  <1> QED BY <1>2, <1>3

LEMMA CreatedList ==
  ASSUME NEW S, NEW objects \in Seq(S), NEW inFront \in BOOLEAN
  PROVE  /\ Created(objects, inFront) \in List(S)
         /\ ToSet(Created(objects, inFront)) = Latest(objects)
  <1> DEFINE n == Len(objects)
  <1>1. n \in Nat /\ DOMAIN objects = 1..n /\ \A i \in 1..n : objects[i] \in S
    OBVIOUS
  <1>2. PICK list : IsGrowth(list, objects, inFront, n) /\ Created(objects, inFront) = list[n]
    BY <1>1, CreatedGrows
  <1> HIDE DEF n
  <1>3. GrowsAs(S, list[n], objects, n)
    BY <1>1, <1>2, GrowthGrows
  <1>4. ASSUME NEW x PROVE x \in ToSet(list[n]) <=> x \in Latest(objects)
    <2>1. x \in ToSet(list[n]) <=>
            \E i \in 1..n : x = objects[i] /\ \A k \in (i + 1)..n : objects[k].id # objects[i].id
      BY <1>3 DEF GrowsAs
    <2>2. x \in Latest(objects) <=>
            \E i \in 1..n : x = objects[i] /\ \A k \in 1..n : k > i => objects[k].id # objects[i].id
      BY <1>1 DEF Latest
    <2>3. ASSUME NEW i \in 1..n
          PROVE  (\A k \in (i + 1)..n : objects[k].id # objects[i].id) <=>
                 (\A k \in 1..n : k > i => objects[k].id # objects[i].id)
      BY <1>1
    <2> QED BY <2>1, <2>2, <2>3
  <1> QED BY <1>2, <1>3, <1>4 DEF GrowsAs

\* An object is left of any that there were.
LEMMA LatestExists ==
  ASSUME NEW S, NEW objects \in Seq(S), objects # <<>>
  PROVE  Latest(objects) # {}
  <1>1. Len(objects) \in DOMAIN objects /\ DOMAIN objects = 1..Len(objects) /\ Len(objects) \in Nat
    BY EmptySeq
  <1>2. objects[Len(objects)] \in Latest(objects)
    BY <1>1 DEF Latest
  <1> QED BY <1>2

-----------------------------------------------------------------------------
(* The bytes of the EEPROM.                                                *)

Image == [0..(Size - 1) -> Byte]

LEMMA ByteInt == \A b \in Byte : b \in Int /\ 0 <= b /\ b <= 255
  BY DEF Byte

LEMMA MaxWordIs == MaxWord \in Nat /\ MaxWord = 65535
  BY DEF MaxWord

LEMMA WordInt == \A w \in Word : w \in Int /\ 0 <= w /\ w <= 65535
  <1>1. MaxWord \in Nat
    BY MaxWordIs
  <1>2. \A w \in Word : w \in Int /\ 0 <= w /\ w <= MaxWord
    BY <1>1 DEF Word
  <1> QED BY <1>2, MaxWordIs

LEMMA WordIs ==
  ASSUME NEW w \in Int, 0 <= w, w <= 65535 PROVE w \in Word /\ w \in Nat
  <1>1. MaxWord \in Nat /\ w <= MaxWord
    BY MaxWordIs
  <1> QED BY <1>1 DEF Word

LEMMA IdInt == \A id \in PositiveInt : id \in Int /\ 1 <= id /\ id <= 32767
  BY DEF PositiveInt

LEMMA CellTyped ==
  ASSUME NEW image \in Image, NEW a
  PROVE  Cell(image, a) \in Byte
  BY DEF Cell, Image, Byte

LEMMA IntTyped ==
  ASSUME NEW image \in Image, NEW a
  PROVE  IntAt(image, a) \in Word /\ IntAt(image, a) \in Nat
  <1> DEFINE low == Cell(image, a)
             high == Cell(image, a + 1)
             n == IntAt(image, a)
  <1>1. low \in Byte /\ high \in Byte /\ n = low + 256 * high
    BY CellTyped DEF IntAt
  <1> HIDE DEF low, high
  <1>2. low \in Int /\ 0 <= low /\ low <= 255 /\ high \in Int /\ 0 <= high /\ high <= 255
    BY <1>1 DEF Byte
  <1> HIDE DEF n
  <1>3. n \in Int /\ 0 <= n /\ n <= 65535
    BY <1>1, <1>2
  <1>4. n \in Word /\ n \in Nat
    BY <1>3, WordIs
  <1> QED BY <1>4 DEF n

LEMMA CountTyped ==
  ASSUME NEW image \in Image
  PROVE  nTurnouts(image) \in Nat /\ nSensors(image) \in Nat /\ nOutputs(image) \in Nat
  <1>1. ASSUME NEW a PROVE Count(image, a) \in Nat
    <2>1. IntAt(image, a) \in Nat
      BY IntTyped
    <2> QED BY <2>1 DEF Count
  <1> QED BY <1>1 DEF nTurnouts, nSensors, nOutputs

\* A write changes the bytes that it names, as far as the EEPROM has them.
LEMMA PutBytes ==
  ASSUME NEW image \in Image, NEW at \in Nat, NEW bytes \in Seq(Byte)
  PROVE  /\ Put(image, at, bytes) \in Image
         /\ \A a \in Int : Cell(Put(image, at, bytes), a) =
              IF a \in 0..(Size - 1) /\ a \in at..(at + Len(bytes) - 1)
              THEN bytes[a - at + 1] ELSE Cell(image, a)
  <1>1. DOMAIN image = 0..(Size - 1) /\ Size \in Nat
    BY StoreAssumption DEF Image
  <1>2. \A a \in at..(at + Len(bytes) - 1) : bytes[a - at + 1] \in Byte
    OBVIOUS
  <1>3. Put(image, at, bytes) =
          [a \in 0..(Size - 1) |-> IF a \in at..(at + Len(bytes) - 1) THEN bytes[a - at + 1]
                                  ELSE image[a]]
    BY <1>1 DEF Put
  <1>4. Put(image, at, bytes) \in Image
    BY <1>2, <1>3 DEF Image
  <1>5. DOMAIN Put(image, at, bytes) = 0..(Size - 1)
    BY <1>3
  <1>6. ASSUME NEW a \in Int
        PROVE  Cell(Put(image, at, bytes), a) =
                 IF a \in 0..(Size - 1) /\ a \in at..(at + Len(bytes) - 1)
                 THEN bytes[a - at + 1] ELSE Cell(image, a)
    <2>1. CASE a \in 0..(Size - 1)
      BY <1>1, <1>3, <1>5, <2>1 DEF Cell
    <2>2. CASE a \notin 0..(Size - 1)
      BY <1>1, <1>5, <2>2 DEF Cell
    <2> QED BY <2>1, <2>2
  <1> QED BY <1>4, <1>6

LEMMA Int16Bytes ==
  ASSUME NEW n \in Int
  PROVE  /\ Int16(n) \in Seq(Byte) /\ Len(Int16(n)) = 2
         /\ Int16(n)[1] = n % 256 /\ Int16(n)[2] = (n \div 256) % 256
         /\ n \in Word => Int16(n)[1] + 256 * Int16(n)[2] = n
  <1>1. n % 256 \in Byte /\ (n \div 256) % 256 \in Byte
    BY DEF Byte
  <1>2. n \in Word => (n % 256) + 256 * ((n \div 256) % 256) = n
    <2> SUFFICES ASSUME 0 <= n, n <= 65535 PROVE (n % 256) + 256 * ((n \div 256) % 256) = n
      BY WordInt
    <2> QED OBVIOUS
  <1> QED BY <1>1, <1>2 DEF Int16

LEMMA JoinInt16 ==
  ASSUME NEW bytes \in Seq(Byte), NEW m \in Nat, Len(bytes) = m,
         NEW two \in Seq(Byte), Len(two) = 2
  PROVE  /\ bytes \o two \in Seq(Byte) /\ Len(bytes \o two) = m + 2
         /\ \A i \in 1..m : (bytes \o two)[i] = bytes[i]
         /\ (bytes \o two)[m + 1] = two[1] /\ (bytes \o two)[m + 2] = two[2]
  <1> DEFINE joined == bytes \o two
  <1>1. /\ joined \in Seq(Byte) /\ Len(joined) = m + 2
        /\ \A i \in 1..(m + 2) : joined[i] = IF i <= m THEN bytes[i] ELSE two[i - m]
    <2> DEFINE k == Len(two)
    <2>1. /\ joined \in Seq(Byte) /\ Len(joined) = Len(bytes) + k
          /\ \A i \in 1..(Len(bytes) + k) :
               joined[i] = IF i <= Len(bytes) THEN bytes[i] ELSE two[i - Len(bytes)]
      BY ConcatProperties
    <2>2. k = 2
      OBVIOUS
    <2> HIDE DEF joined, k
    <2> QED BY <2>1, <2>2
  <1> HIDE DEF joined
  <1>2. /\ m + 1 \in 1..(m + 2) /\ ~(m + 1 <= m) /\ (m + 1) - m = 1
        /\ m + 2 \in 1..(m + 2) /\ ~(m + 2 <= m) /\ (m + 2) - m = 2
    OBVIOUS
  <1>3. (\A i \in 1..m : joined[i] = bytes[i]) /\ joined[m + 1] = two[1] /\ joined[m + 2] = two[2]
    BY <1>1, <1>2
  <1> QED BY <1>1, <1>3 DEF joined

LEMMA HeaderBytes ==
  ASSUME NEW t \in Nat, NEW s \in Nat, NEW o \in Nat
  PROVE  /\ Header(t, s, o) \in Seq(Byte) /\ Len(Header(t, s, o)) = 12
         /\ \A i \in 1..6 : Header(t, s, o)[i] = EESTORE_ID[i]
         /\ Header(t, s, o)[7] = Int16(t)[1] /\ Header(t, s, o)[8] = Int16(t)[2]
         /\ Header(t, s, o)[9] = Int16(s)[1] /\ Header(t, s, o)[10] = Int16(s)[2]
         /\ Header(t, s, o)[11] = Int16(o)[1] /\ Header(t, s, o)[12] = Int16(o)[2]
  <1>1. EESTORE_ID \in Seq(Byte) /\ Len(EESTORE_ID) = 6
    BY DEF EESTORE_ID, Byte
  <1> DEFINE a == Int16(t)
             b == Int16(s)
             c == Int16(o)
  <1>2. /\ a \in Seq(Byte) /\ Len(a) = 2
        /\ b \in Seq(Byte) /\ Len(b) = 2
        /\ c \in Seq(Byte) /\ Len(c) = 2
    BY Int16Bytes
  <1>3. Header(t, s, o) = EESTORE_ID \o a \o b \o c
    BY DEF Header
  <1> HIDE DEF a, b, c
  <1> DEFINE d == EESTORE_ID \o a
             e == d \o b
  <1>4. d \in Seq(Byte) /\ Len(d) = 8 /\ (\A i \in 1..6 : d[i] = EESTORE_ID[i]) /\ d[7] = a[1] /\ d[8] = a[2]
    <2>1. /\ d \in Seq(Byte) /\ Len(d) = 6 + 2
          /\ \A i \in 1..6 : d[i] = EESTORE_ID[i]
          /\ d[6 + 1] = a[1] /\ d[6 + 2] = a[2]
      <3>1. EESTORE_ID \in Seq(Byte) /\ 6 \in Nat /\ Len(EESTORE_ID) = 6 /\ a \in Seq(Byte) /\ Len(a) = 2
        BY <1>1, <1>2
      <3>2. /\ EESTORE_ID \o a \in Seq(Byte) /\ Len(EESTORE_ID \o a) = 6 + 2
            /\ \A i \in 1..6 : (EESTORE_ID \o a)[i] = EESTORE_ID[i]
            /\ (EESTORE_ID \o a)[6 + 1] = a[1] /\ (EESTORE_ID \o a)[6 + 2] = a[2]
        BY <3>1, JoinInt16
      <3> QED BY <3>2
    <2> HIDE DEF d
    <2> QED BY <2>1
  <1> HIDE DEF d
  <1>5. e \in Seq(Byte) /\ Len(e) = 10 /\ (\A i \in 1..8 : e[i] = d[i]) /\ e[9] = b[1] /\ e[10] = b[2]
    <2>1. /\ e \in Seq(Byte) /\ Len(e) = 8 + 2
          /\ \A i \in 1..8 : e[i] = d[i]
          /\ e[8 + 1] = b[1] /\ e[8 + 2] = b[2]
      <3>1. d \in Seq(Byte) /\ 8 \in Nat /\ Len(d) = 8 /\ b \in Seq(Byte) /\ Len(b) = 2
        BY <1>2, <1>4
      <3>2. /\ d \o b \in Seq(Byte) /\ Len(d \o b) = 8 + 2
            /\ \A i \in 1..8 : (d \o b)[i] = d[i]
            /\ (d \o b)[8 + 1] = b[1] /\ (d \o b)[8 + 2] = b[2]
        BY <3>1, JoinInt16
      <3> QED BY <3>2
    <2> HIDE DEF e
    <2> QED BY <2>1
  <1>6. Header(t, s, o) = e \o c
    BY <1>3 DEF d
  <1> HIDE DEF e
  <1>7. /\ Header(t, s, o) \in Seq(Byte) /\ Len(Header(t, s, o)) = 12
        /\ (\A i \in 1..10 : Header(t, s, o)[i] = e[i])
        /\ Header(t, s, o)[11] = c[1] /\ Header(t, s, o)[12] = c[2]
    <2>1. /\ Header(t, s, o) \in Seq(Byte) /\ Len(Header(t, s, o)) = 10 + 2
          /\ \A i \in 1..10 : Header(t, s, o)[i] = e[i]
          /\ Header(t, s, o)[10 + 1] = c[1] /\ Header(t, s, o)[10 + 2] = c[2]
      <3>1. e \in Seq(Byte) /\ 10 \in Nat /\ Len(e) = 10 /\ c \in Seq(Byte) /\ Len(c) = 2
        BY <1>2, <1>5
      <3>2. /\ e \o c \in Seq(Byte) /\ Len(e \o c) = 10 + 2
            /\ \A i \in 1..10 : (e \o c)[i] = e[i]
            /\ (e \o c)[10 + 1] = c[1] /\ (e \o c)[10 + 2] = c[2]
        BY <3>1, JoinInt16
      <3> QED BY <3>2, <1>6
    <2> QED BY <2>1
  <1> QED BY <1>4, <1>5, <1>7 DEF a, b, c

LEMMA PairBytes ==
  ASSUME NEW x \in Byte, NEW y \in Byte
  PROVE  <<x, y>> \in Seq(Byte) /\ Len(<<x, y>>) = 2 /\ <<x, y>>[1] = x /\ <<x, y>>[2] = y
  OBVIOUS

LEMMA OutputTyped ==
  ASSUME NEW o \in Output
  PROVE  /\ OutputBytes(o) \in Seq(Byte) /\ Len(OutputBytes(o)) = 4
         /\ OutputBytes(o)[1] = o.oStatus /\ OutputBytes(o)[2] = o.id
         /\ OutputBytes(o)[3] = o.pin /\ OutputBytes(o)[4] = o.iFlag
  <1>1. o.oStatus \in Byte /\ o.id \in Byte /\ o.pin \in Byte /\ o.iFlag \in Byte
    BY DEF Output
  <1> QED BY <1>1 DEF OutputBytes

LEMMA SensorTyped ==
  ASSUME NEW s \in Sensor
  PROVE  /\ SensorBytes(s) \in Seq(Byte) /\ Len(SensorBytes(s)) = 4
         /\ SensorBytes(s)[1] = Int16(s.id)[1] /\ SensorBytes(s)[2] = Int16(s.id)[2]
         /\ SensorBytes(s)[3] = s.pin /\ SensorBytes(s)[4] = s.pullUp
  <1> DEFINE c == Int16(s.id)
             e == <<s.pin, s.pullUp>>
  <1>1. s.id \in Int /\ s.pin \in Byte /\ s.pullUp \in Byte
    <2>1. s.id \in Word /\ s.pin \in Byte /\ s.pullUp \in {0, 1}
      BY DEF Sensor
    <2>2. 0 \in Byte /\ 1 \in Byte
      BY DEF Byte
    <2> QED BY <2>1, <2>2, WordInt
  <1>2. /\ c \in Seq(Byte) /\ Len(c) = 2
        /\ e \in Seq(Byte) /\ Len(e) = 2 /\ e[1] = s.pin /\ e[2] = s.pullUp
    <2>1. c \in Seq(Byte) /\ Len(c) = 2
      BY <1>1, Int16Bytes
    <2>2. e \in Seq(Byte) /\ Len(e) = 2 /\ e[1] = s.pin /\ e[2] = s.pullUp
      BY <1>1, PairBytes
    <2> QED BY <2>1, <2>2
  <1>3. SensorBytes(s) = c \o e
    BY DEF SensorBytes
  <1> HIDE DEF c, e
  <1>4. /\ c \o e \in Seq(Byte) /\ Len(c \o e) = 2 + 2
        /\ \A i \in 1..2 : (c \o e)[i] = c[i]
        /\ (c \o e)[2 + 1] = e[1] /\ (c \o e)[2 + 2] = e[2]
    BY <1>2, JoinInt16
  <1> QED BY <1>2, <1>3, <1>4 DEF c

LEMMA TurnoutTyped ==
  ASSUME NEW t \in Turnout
  PROVE  /\ TurnoutBytes(t) \in Seq(Byte) /\ Len(TurnoutBytes(t)) = 6
         /\ TurnoutBytes(t)[1] = Int16(t.id)[1] /\ TurnoutBytes(t)[2] = Int16(t.id)[2]
         /\ TurnoutBytes(t)[3] = t.tStatus /\ TurnoutBytes(t)[4] = t.low
         /\ TurnoutBytes(t)[5] = Int16(t.high)[1] /\ TurnoutBytes(t)[6] = Int16(t.high)[2]
  <1> DEFINE a == Int16(t.id)
             b == Int16(t.high)
             d == <<t.tStatus, t.low>>
  <1>1. t.id \in Int /\ t.high \in Int /\ t.tStatus \in Byte /\ t.low \in Byte
    BY WordInt DEF Turnout
  <1>2. /\ a \in Seq(Byte) /\ Len(a) = 2
        /\ b \in Seq(Byte) /\ Len(b) = 2
        /\ d \in Seq(Byte) /\ Len(d) = 2 /\ d[1] = t.tStatus /\ d[2] = t.low
    <2>1. a \in Seq(Byte) /\ Len(a) = 2 /\ b \in Seq(Byte) /\ Len(b) = 2
      BY <1>1, Int16Bytes, ZenonT(60)
    <2>2. d \in Seq(Byte) /\ Len(d) = 2 /\ d[1] = t.tStatus /\ d[2] = t.low
      BY <1>1, PairBytes
    <2> QED BY <2>1, <2>2
  <1>3. TurnoutBytes(t) = (a \o d) \o b
    BY DEF TurnoutBytes
  <1> HIDE DEF a, b, d
  <1>4. /\ a \o d \in Seq(Byte) /\ Len(a \o d) = 2 + 2
        /\ \A i \in 1..2 : (a \o d)[i] = a[i]
        /\ (a \o d)[2 + 1] = d[1] /\ (a \o d)[2 + 2] = d[2]
    BY <1>2, JoinInt16
  <1> DEFINE f == a \o d
  <1>5. f \in Seq(Byte) /\ Len(f) = 4 /\ f[1] = a[1] /\ f[2] = a[2] /\ f[3] = d[1] /\ f[4] = d[2]
    BY <1>4
  <1>6. TurnoutBytes(t) = f \o b
    BY <1>3
  <1> HIDE DEF f
  <1>7. /\ f \o b \in Seq(Byte) /\ Len(f \o b) = 4 + 2
        /\ \A i \in 1..4 : (f \o b)[i] = f[i]
        /\ (f \o b)[4 + 1] = b[1] /\ (f \o b)[4 + 2] = b[2]
    <2>1. f \in Seq(Byte) /\ 4 \in Nat /\ Len(f) = 4 /\ b \in Seq(Byte) /\ Len(b) = 2
      BY <1>2, <1>5
    <2> QED BY <2>1, JoinInt16
  <1>8. /\ TurnoutBytes(t) \in Seq(Byte) /\ Len(TurnoutBytes(t)) = 6
        /\ TurnoutBytes(t)[1] = a[1] /\ TurnoutBytes(t)[2] = a[2]
        /\ TurnoutBytes(t)[3] = t.tStatus /\ TurnoutBytes(t)[4] = t.low
        /\ TurnoutBytes(t)[5] = b[1] /\ TurnoutBytes(t)[6] = b[2]
    <2>1. /\ TurnoutBytes(t) \in Seq(Byte) /\ Len(TurnoutBytes(t)) = 6
          /\ \A i \in 1..4 : TurnoutBytes(t)[i] = f[i]
          /\ TurnoutBytes(t)[5] = b[1] /\ TurnoutBytes(t)[6] = b[2]
      BY <1>6, <1>7, SMTT(30)
    <2> QED BY <2>1, <1>2, <1>5, SMTT(30)
  <1> QED BY <1>8 DEF a, b

\* A byte of a row of records lies in one of them, and a byte of a record in
\* the row.
LEMMA Rows ==
  ASSUME NEW size \in {4, 6}, NEW m \in Nat, NEW b \in Int, 1 <= b, b <= size * m
  PROVE  /\ Record(b, size) \in 1..m /\ Within(b, size) \in 1..size
         /\ b = size * (Record(b, size) - 1) + Within(b, size)
  <1>1. CASE size = 4
    BY <1>1 DEF Record, Within
  <1>2. CASE size = 6
    BY <1>2 DEF Record, Within
  <1> QED BY <1>1, <1>2

LEMMA RowOf ==
  ASSUME NEW size \in {4, 6}, NEW i \in Nat, NEW k \in Nat, 1 <= i, 1 <= k, k <= size,
         NEW b \in Int, b = size * (i - 1) + k
  PROVE  Record(b, size) = i /\ Within(b, size) = k
  <1>1. CASE size = 4
    BY <1>1 DEF Record, Within
  <1>2. CASE size = 6
    BY <1>2 DEF Record, Within
  <1> QED BY <1>1, <1>2

\* Where the bytes of a record lie among those of all.
AreRecords(all, ts, ss, os, t, s, n) ==
  /\ all \in Seq(Byte) /\ Len(all) = 6 * t + 4 * s + 4 * n
  /\ \A i \in 1..t, k \in 1..6 : all[6 * (i - 1) + k] = TurnoutBytes(ts[i])[k]
  /\ \A i \in 1..s, k \in 1..4 : all[6 * t + 4 * (i - 1) + k] = SensorBytes(ss[i])[k]
  /\ \A i \in 1..n, k \in 1..4 : all[6 * t + 4 * s + 4 * (i - 1) + k] = OutputBytes(os[i])[k]

LEMMA RecordsBytes ==
  ASSUME NEW ts \in Seq(Turnout), NEW ss \in Seq(Sensor), NEW os \in Seq(Output),
         NEW t \in Nat, t = Len(ts), NEW s \in Nat, s = Len(ss), NEW n \in Nat, n = Len(os)
  PROVE  AreRecords(Records(ts, ss, os), ts, ss, os, t, s, n)
  <1> DEFINE all == Records(ts, ss, os)
             last == 6 * t + 4 * s + 4 * n
             byte(b) == IF b <= 6 * t THEN TurnoutBytes(ts[Record(b, 6)])[Within(b, 6)]
                        ELSE IF b <= 6 * t + 4 * s
                        THEN SensorBytes(ss[Record(b - 6 * t, 4)])[Within(b - 6 * t, 4)]
                        ELSE OutputBytes(os[Record(b - 6 * t - 4 * s, 4)])
                               [Within(b - 6 * t - 4 * s, 4)]
  <1>1. all = [b \in 1..last |-> byte(b)]
    BY DEF Records
  <1>2. ASSUME NEW i \in 1..t PROVE ts[i] \in Turnout
    OBVIOUS
  <1>3. ASSUME NEW i \in 1..s PROVE ss[i] \in Sensor
    OBVIOUS
  <1>4. ASSUME NEW i \in 1..n PROVE os[i] \in Output
    OBVIOUS
  <1>5. ASSUME NEW b \in 1..last PROVE byte(b) \in Byte
    <2>1. CASE b <= 6 * t
      <3> DEFINE i == Record(b, 6)
                 k == Within(b, 6)
                 bytes == TurnoutBytes(ts[i])
      <3>1. i \in 1..t /\ k \in 1..6
        BY <2>1, Rows
      <3>2. byte(b) = bytes[k]
        BY <2>1
      <3> HIDE DEF i, k
      <3>3. bytes \in Seq(Byte) /\ Len(bytes) = 6
        BY <1>2, <3>1, TurnoutTyped
      <3>4. k \in 1..Len(bytes)
        BY <3>1, <3>3
      <3> HIDE DEF bytes, byte
      <3>5. bytes[k] \in Byte
        BY <3>3, <3>4, ElementOfSeq
      <3> QED BY <3>2, <3>5
    <2>2. CASE ~(b <= 6 * t) /\ b <= 6 * t + 4 * s
      <3> DEFINE c == b - 6 * t
                 i == Record(c, 4)
                 k == Within(c, 4)
                 bytes == SensorBytes(ss[i])
      <3>1. byte(b) = bytes[k]
        BY <2>2
      <3>2. c \in Int /\ 1 <= c /\ c <= 4 * s
        BY <2>2
      <3> HIDE DEF c
      <3>3. i \in 1..s /\ k \in 1..4
        BY <3>2, Rows
      <3> HIDE DEF i, k
      <3>4. bytes \in Seq(Byte) /\ Len(bytes) = 4
        BY <1>3, <3>3, SensorTyped
      <3>5. k \in 1..Len(bytes)
        BY <3>3, <3>4
      <3> HIDE DEF bytes, byte
      <3>6. bytes[k] \in Byte
        BY <3>4, <3>5, ElementOfSeq
      <3> QED BY <3>1, <3>6
    <2>3. CASE ~(b <= 6 * t) /\ ~(b <= 6 * t + 4 * s)
      <3> DEFINE c == b - 6 * t - 4 * s
                 i == Record(c, 4)
                 k == Within(c, 4)
                 bytes == OutputBytes(os[i])
      <3>1. byte(b) = bytes[k]
        BY <2>3
      <3>2. c \in Int /\ 1 <= c /\ c <= 4 * n
        BY <2>3
      <3> HIDE DEF c
      <3>3. i \in 1..n /\ k \in 1..4
        BY <3>2, Rows
      <3> HIDE DEF i, k
      <3>4. bytes \in Seq(Byte) /\ Len(bytes) = 4
        BY <1>4, <3>3, OutputTyped
      <3>5. k \in 1..Len(bytes)
        BY <3>3, <3>4
      <3> HIDE DEF bytes, byte
      <3>6. bytes[k] \in Byte
        BY <3>4, <3>5, ElementOfSeq
      <3> QED BY <3>1, <3>6
    <2> QED BY <2>1, <2>2, <2>3
  <1>6. ASSUME NEW i \in 1..t, NEW k \in 1..6
        PROVE  /\ 6 * (i - 1) + k \in 1..last
               /\ byte(6 * (i - 1) + k) = TurnoutBytes(ts[i])[k]
    <2> DEFINE b == 6 * (i - 1) + k
    <2>1. b \in 1..last /\ b <= 6 * t /\ b \in Int
      OBVIOUS
    <2>2. Record(b, 6) = i /\ Within(b, 6) = k
      <3>1. /\ i \in Nat /\ k \in Nat /\ 1 <= i /\ 1 <= k /\ k <= 6 /\ 6 \in {4, 6}
            /\ b = 6 * (i - 1) + k
        OBVIOUS
      <3> HIDE DEF b
      <3> QED BY <2>1, <3>1, RowOf, ZenonT(60)
    <2> HIDE DEF b
    <2>3. b \in 1..last /\ byte(b) = TurnoutBytes(ts[i])[k]
      BY <2>1, <2>2
    <2> QED BY <2>3 DEF b
  <1>7. ASSUME NEW i \in 1..s, NEW k \in 1..4
        PROVE  /\ 6 * t + 4 * (i - 1) + k \in 1..last
               /\ byte(6 * t + 4 * (i - 1) + k) = SensorBytes(ss[i])[k]
    <2> DEFINE b == 6 * t + 4 * (i - 1) + k
               c == b - 6 * t
    <2>1. b \in 1..last /\ ~(b <= 6 * t) /\ b <= 6 * t + 4 * s /\ c \in Int /\ c = 4 * (i - 1) + k
      OBVIOUS
    <2> HIDE DEF c
    <2>2. Record(c, 4) = i /\ Within(c, 4) = k
      <3>1. i \in Nat /\ k \in Nat /\ 1 <= i /\ 1 <= k /\ k <= 4 /\ 4 \in {4, 6}
        OBVIOUS
      <3> QED BY <2>1, <3>1, RowOf
    <2> HIDE DEF b
    <2>3. b \in 1..last /\ byte(b) = SensorBytes(ss[i])[k]
      BY <2>1, <2>2 DEF c
    <2> QED BY <2>3 DEF b
  <1>8. ASSUME NEW i \in 1..n, NEW k \in 1..4
        PROVE  /\ 6 * t + 4 * s + 4 * (i - 1) + k \in 1..last
               /\ byte(6 * t + 4 * s + 4 * (i - 1) + k) = OutputBytes(os[i])[k]
    <2> DEFINE b == 6 * t + 4 * s + 4 * (i - 1) + k
               c == b - 6 * t - 4 * s
    <2>1. /\ b \in 1..last /\ ~(b <= 6 * t) /\ ~(b <= 6 * t + 4 * s)
          /\ c \in Int /\ c = 4 * (i - 1) + k
      OBVIOUS
    <2> HIDE DEF c
    <2>2. Record(c, 4) = i /\ Within(c, 4) = k
      <3>1. i \in Nat /\ k \in Nat /\ 1 <= i /\ 1 <= k /\ k <= 4 /\ 4 \in {4, 6}
        OBVIOUS
      <3> QED BY <2>1, <3>1, RowOf
    <2> HIDE DEF b
    <2>3. b \in 1..last /\ byte(b) = OutputBytes(os[i])[k]
      BY <2>1, <2>2 DEF c
    <2> QED BY <2>3 DEF b
  <1> HIDE DEF byte
  <1>9. last \in Nat
    OBVIOUS
  <1> HIDE DEF last, all
  <1>10. all \in Seq(Byte) /\ Len(all) = last /\ \A b \in 1..last : all[b] = byte(b)
    BY <1>1, <1>5, <1>9
  <1>11. \A i \in 1..t, k \in 1..6 : all[6 * (i - 1) + k] = TurnoutBytes(ts[i])[k]
    BY <1>6, <1>10
  <1>12. \A i \in 1..s, k \in 1..4 : all[6 * t + 4 * (i - 1) + k] = SensorBytes(ss[i])[k]
    BY <1>7, <1>10
  <1>13. \A i \in 1..n, k \in 1..4 : all[6 * t + 4 * s + 4 * (i - 1) + k] = OutputBytes(os[i])[k]
    BY <1>8, <1>10
  <1>14. Len(all) = 6 * t + 4 * s + 4 * n
    BY <1>10 DEF last
  <1> QED BY <1>10, <1>11, <1>12, <1>13, <1>14 DEF all, AreRecords

LEMMA FirstBytes ==
  ASSUME NEW bytes \in Seq(Byte), NEW n \in Int
  PROVE  /\ First(bytes, n) \in Seq(Byte)
         /\ Len(First(bytes, n)) = IF n <= 0 THEN 0 ELSE IF n < Len(bytes) THEN n ELSE Len(bytes)
         /\ \A i \in 1..Len(First(bytes, n)) : First(bytes, n)[i] = bytes[i]
  <1> DEFINE m == IF n < Len(bytes) THEN n ELSE Len(bytes)
  <1>1. Len(bytes) \in Nat /\ m \in Int /\ m <= Len(bytes)
    OBVIOUS
  <1>2. First(bytes, n) = SubSeq(bytes, 1, m)
    BY DEF First
  <1>3. m = (IF n < Len(bytes) THEN n ELSE Len(bytes))
    OBVIOUS
  <1> HIDE DEF m
  <1>4. \A i \in 1..m : bytes[i] \in Byte
    BY <1>1, ElementOfSeq
  <1>5. /\ SubSeq(bytes, 1, m) \in Seq(Byte)
        /\ Len(SubSeq(bytes, 1, m)) = IF 1 <= m THEN m - 1 + 1 ELSE 0
        /\ \A i \in 1..(m - 1 + 1) : SubSeq(bytes, 1, m)[i] = bytes[1 + i - 1]
    BY <1>1, <1>4, SubSeqProperties
  <1> DEFINE first == First(bytes, n)
  <1>6. /\ first \in Seq(Byte)
        /\ Len(first) = IF 1 <= m THEN m ELSE 0
        /\ \A i \in 1..m : first[i] = bytes[i]
    BY <1>1, <1>2, <1>5
  <1> HIDE DEF first
  <1>7. /\ Len(first) = IF n <= 0 THEN 0 ELSE IF n < Len(bytes) THEN n ELSE Len(bytes)
        /\ \A i \in 1..Len(first) : first[i] = bytes[i]
    BY <1>1, <1>3, <1>6
  <1> QED BY <1>6, <1>7 DEF first

\* The header after the first m bytes of it were written.
HeaderWritten(image, after, m, t, s, o) ==
  \A a \in 0..11 : Cell(after, a) = IF a < m THEN Header(t, s, o)[a + 1] ELSE Cell(image, a)

\* The first n of these bytes were written behind the header.
RecordsWritten(after, all, n, r) ==
  \A b \in 1..r : b <= n /\ 11 + b < Size => Cell(after, 11 + b) = all[b]

\* After n byte writes of a store: the first n bytes of the records, and then
\* of the header, are those of the lists.
LEMMA StoredBytes ==
  ASSUME NEW image \in Image,
         NEW ts \in Seq(Turnout), NEW ss \in Seq(Sensor), NEW os \in Seq(Output), NEW n \in Nat,
         NEW r \in Nat, r = Len(Records(ts, ss, os))
  PROVE  /\ StoreBytes(image, ts, ss, os, n) \in Image
         /\ HeaderWritten(image, StoreBytes(image, ts, ss, os, n), n - r,
                          Len(ts), Len(ss), Len(os))
         /\ RecordsWritten(StoreBytes(image, ts, ss, os, n), Records(ts, ss, os), n, r)
  <1> DEFINE records == Records(ts, ss, os)
             header == Header(Len(ts), Len(ss), Len(os))
             left == n - r
             front == First(records, n)
             head == First(header, left)
             middle == Put(image, HeaderSize, front)
             after == Put(middle, 0, head)
  <1>0. after = StoreBytes(image, ts, ss, os, n) /\ left \in Int
    BY DEF StoreBytes
  <1>1. Len(ts) \in Nat /\ Len(ss) \in Nat /\ Len(os) \in Nat
    OBVIOUS
  <1>2. records \in Seq(Byte) /\ Len(records) = r
    BY <1>1, RecordsBytes DEF AreRecords
  <1>3. header \in Seq(Byte) /\ Len(header) = 12
    BY <1>1, HeaderBytes
  <1> HIDE DEF records, header
  <1>4. /\ front \in Seq(Byte) /\ Len(front) = IF n <= 0 THEN 0 ELSE IF n < r THEN n ELSE r
        /\ \A i \in 1..Len(front) : front[i] = records[i]
    BY <1>2, FirstBytes
  <1> HIDE DEF left
  <1>5. /\ head \in Seq(Byte)
        /\ Len(head) = IF left <= 0 THEN 0 ELSE IF left < 12 THEN left ELSE 12
        /\ \A i \in 1..Len(head) : head[i] = header[i]
    BY <1>0, <1>3, FirstBytes
  <1> HIDE DEF front, head
  <1>6. /\ middle \in Image
        /\ \A a \in Int : Cell(middle, a) =
             IF a \in 0..(Size - 1) /\ a \in 12..(12 + Len(front) - 1)
             THEN front[a - 12 + 1] ELSE Cell(image, a)
    <2>1. middle = Put(image, 12, front) /\ 12 \in Nat
      BY DEF HeaderSize
    <2>2. /\ Put(image, 12, front) \in Image
          /\ \A a \in Int : Cell(Put(image, 12, front), a) =
               IF a \in 0..(Size - 1) /\ a \in 12..(12 + Len(front) - 1)
               THEN front[a - 12 + 1] ELSE Cell(image, a)
      <3>1. front \in Seq(Byte) /\ 12 \in Nat
        BY <1>4
      <3> QED BY <3>1, PutBytes
    <2> HIDE DEF middle
    <2> QED BY <2>1, <2>2
  <1> HIDE DEF middle
  <1>7. /\ after \in Image
        /\ \A a \in Int : Cell(after, a) =
             IF a \in 0..(Size - 1) /\ a \in 0..(0 + Len(head) - 1)
             THEN head[a - 0 + 1] ELSE Cell(middle, a)
    <2>1. head \in Seq(Byte) /\ 0 \in Nat /\ middle \in Image
      BY <1>5, <1>6
    <2> QED BY <2>1, PutBytes
  <1> HIDE DEF after
  <1> DEFINE f == Len(front)
             h == Len(head)
  <1>8. /\ f \in Nat /\ h \in Nat /\ Size \in Nat /\ Size >= 12
        /\ f = (IF n < r THEN n ELSE r)
        /\ h = (IF n - r <= 0 THEN 0 ELSE IF n - r < 12 THEN n - r ELSE 12)
    <2>1. Size \in Nat /\ Size >= 12
      BY StoreAssumption
    <2>2. f = (IF n < r THEN n ELSE r) /\ f \in Nat
      BY <1>4
    <2>3. h = (IF left <= 0 THEN 0 ELSE IF left < 12 THEN left ELSE 12) /\ h \in Nat
      BY <1>0, <1>5
    <2> HIDE DEF f, h
    <2> QED BY <2>1, <2>2, <2>3 DEF left
  <1>9. /\ \A a \in Int : Cell(middle, a) =
             IF a \in 0..(Size - 1) /\ a \in 12..(12 + f - 1) THEN front[a - 12 + 1] ELSE Cell(image, a)
        /\ \A a \in Int : Cell(after, a) =
             IF a \in 0..(Size - 1) /\ a \in 0..(0 + h - 1) THEN head[a - 0 + 1] ELSE Cell(middle, a)
        /\ \A i \in 1..f : front[i] = records[i]
        /\ \A i \in 1..h : head[i] = header[i]
    BY <1>4, <1>5, <1>6, <1>7
  <1> HIDE DEF f, h
  <1>10. ASSUME NEW a \in 0..11
         PROVE  Cell(after, a) = IF a < n - r THEN header[a + 1] ELSE Cell(image, a)
    <2>1. a \in Int /\ a \in 0..(Size - 1) /\ a \notin 12..(12 + f - 1)
      BY <1>8
    <2>2. Cell(middle, a) = Cell(image, a)
      BY <1>9, <2>1
    <2>3. CASE a < n - r
      <3>1. a \in 0..(0 + h - 1) /\ a + 1 \in 1..h /\ a - 0 + 1 = a + 1
        BY <1>8, <2>3
      <3> QED BY <1>9, <2>1, <2>3, <3>1
    <2>4. CASE ~(a < n - r)
      <3>1. a \notin 0..(0 + h - 1)
        BY <1>8, <2>4
      <3> QED BY <1>9, <2>1, <2>2, <2>4, <3>1
    <2> QED BY <2>3, <2>4
  <1>11. ASSUME NEW b \in 1..r, b <= n, 11 + b < Size
         PROVE  Cell(after, 11 + b) = records[b]
    <2> DEFINE a == 11 + b
    <2>1. /\ a \in Int /\ a \in 0..(Size - 1) /\ a \in 12..(12 + f - 1)
          /\ a - 12 + 1 = b /\ b \in 1..f /\ a \notin 0..(0 + h - 1)
      BY <1>8, <1>11
    <2> HIDE DEF a
    <2>2. Cell(after, a) = records[b]
      BY <1>9, <2>1
    <2> QED BY <2>2 DEF a
  <1>12. HeaderWritten(image, after, n - r, Len(ts), Len(ss), Len(os))
    BY <1>10 DEF HeaderWritten, header
  <1>13. RecordsWritten(after, records, n, r)
    BY <1>11 DEF RecordsWritten
  <1> QED BY <1>0, <1>7, <1>12, <1>13 DEF records

-----------------------------------------------------------------------------
(* What load makes of an EEPROM, whatever it holds.                        *)

LEMMA ModTyped == \A x \in Int : x % 256 \in Byte /\ x % 65536 \in Word
  <1> SUFFICES ASSUME NEW x \in Int PROVE x % 256 \in Byte /\ x % 65536 \in Word
    OBVIOUS
  <1> DEFINE b == x % 256
             w == x % 65536
  <1>1. b \in Int /\ 0 <= b /\ b <= 255 /\ w \in Int /\ 0 <= w /\ w <= 65535
    OBVIOUS
  <1> HIDE DEF b, w
  <1>2. b \in Byte
    BY <1>1 DEF Byte
  <1>3. w \in Word
    BY <1>1, WordIs
  <1> QED BY <1>2, <1>3 DEF b, w

LEMMA SmallByte == \A x \in {0, 1} : x \in Byte
  BY DEF Byte

LEMMA PowerUpTyped ==
  ASSUME NEW iFlag \in Byte, NEW saved \in Byte
  PROVE  PowerUpStatus(iFlag, saved) \in Byte
  <1>1. Flag(iFlag, 4) \in {0, 1}
    BY ByteInt DEF Flag
  <1> QED BY <1>1, SmallByte DEF PowerUpStatus

LEMMA ReadTyped ==
  ASSUME NEW image \in Image, NEW a \in Nat
  PROVE  /\ TurnoutAt(image, a) \in Turnout /\ TurnoutAt(image, a).id = IntAt(image, a)
         /\ SensorAt(image, a) \in Sensor
         /\ OutputAt(image, a) \in Output
  <1>1. ASSUME NEW b PROVE Cell(image, b) \in Byte
    BY CellTyped
  <1>2. ASSUME NEW b PROVE IntAt(image, b) \in Word
    BY IntTyped
  <1>3. OutputAt(image, a) \in Output
    <2>1. PowerUpStatus(Cell(image, a + 3), Cell(image, a)) \in Byte
      BY <1>1, PowerUpTyped
    <2> QED BY <1>1, <2>1 DEF OutputAt, Output
  <1>4. SensorAt(image, a) \in Sensor
    BY <1>1, <1>2 DEF SensorAt, Sensor
  <1>5. TurnoutAt(image, a) \in Turnout /\ TurnoutAt(image, a).id = IntAt(image, a)
    <2> DEFINE t == [id |-> IntAt(image, a), tStatus |-> Cell(image, a + 2),
                     low |-> Cell(image, a + 3), high |-> IntAt(image, a + 4)]
               servo == [id |-> t.id, tStatus |-> t.tStatus,
                         low |-> (t.high - Signed8(t.low)) % 256, high |-> Signed8(t.low) % 65536]
    <2>1. TurnoutAt(image, a) = t \/ TurnoutAt(image, a) = servo
      BY DEF TurnoutAt, ServoTurnout
    <2>2. t \in Turnout /\ t.id = IntAt(image, a)
      BY <1>1, <1>2 DEF Turnout
    <2>3. servo.id = t.id
      OBVIOUS
    <2> HIDE DEF t
    <2>4. t.id \in Word /\ t.tStatus \in Byte /\ t.low \in Int /\ t.high \in Int
      BY <2>2, ByteInt, WordInt DEF Turnout
    <2>5. Signed8(t.low) \in Int /\ t.high - Signed8(t.low) \in Int
      BY <2>4 DEF Signed8
    <2>6. servo \in Turnout
      BY <2>4, <2>5, ModTyped DEF Turnout
    <2> HIDE DEF servo
    <2> QED BY <2>1, <2>2, <2>3, <2>6
  <1> QED BY <1>3, <1>4, <1>5

\* The records read are records.
LEMMA RecordsIn ==
  ASSUME NEW image \in Image
  PROVE  /\ TurnoutsIn(image) \in Seq(Turnout) /\ Len(TurnoutsIn(image)) = nTurnouts(image)
         /\ SensorsIn(image) \in Seq(Sensor) /\ Len(SensorsIn(image)) = nSensors(image)
         /\ OutputsIn(image) \in Seq(Output) /\ Len(OutputsIn(image)) = nOutputs(image)
         /\ \A i \in 1..nOutputs(image) : OutputsIn(image)[i].num >= HeaderSize
  <1> DEFINE t == nTurnouts(image)
             s == nSensors(image)
             n == nOutputs(image)
  <1>1. t \in Nat /\ s \in Nat /\ n \in Nat
    BY CountTyped
  <1>2. /\ TurnoutsIn(image) = [i \in 1..t |-> TurnoutAt(image, HeaderSize + 6 * (i - 1))]
        /\ SensorsIn(image) = [i \in 1..s |-> SensorAt(image, HeaderSize + 6 * t + 4 * (i - 1))]
        /\ OutputsIn(image) = [i \in 1..n |-> OutputAt(image, OutputPlace(t, s, i))]
    BY DEF TurnoutsIn, SensorsIn, OutputsIn
  <1> HIDE DEF t, s, n
  <1>3. ASSUME NEW i \in 1..t PROVE TurnoutAt(image, HeaderSize + 6 * (i - 1)) \in Turnout
    <2>1. HeaderSize + 6 * (i - 1) \in Nat
      BY <1>1 DEF HeaderSize
    <2> QED BY <2>1, ReadTyped
  <1>4. ASSUME NEW i \in 1..s PROVE SensorAt(image, HeaderSize + 6 * t + 4 * (i - 1)) \in Sensor
    <2>1. HeaderSize + 6 * t + 4 * (i - 1) \in Nat
      BY <1>1 DEF HeaderSize
    <2> QED BY <2>1, ReadTyped
  <1>5. ASSUME NEW i \in 1..n
        PROVE  /\ OutputAt(image, OutputPlace(t, s, i)) \in Output
               /\ OutputAt(image, OutputPlace(t, s, i)).num >= HeaderSize
    <2>1. OutputPlace(t, s, i) \in Nat /\ OutputPlace(t, s, i) >= HeaderSize
      BY <1>1 DEF OutputPlace, HeaderSize
    <2> QED BY <2>1, ReadTyped DEF OutputAt
  <1>6. TurnoutsIn(image) \in Seq(Turnout) /\ Len(TurnoutsIn(image)) = t
    BY <1>1, <1>2, <1>3
  <1>7. SensorsIn(image) \in Seq(Sensor) /\ Len(SensorsIn(image)) = s
    BY <1>1, <1>2, <1>4
  <1>8. OutputsIn(image) \in Seq(Output) /\ Len(OutputsIn(image)) = n
    BY <1>1, <1>2, <1>5
  <1>9. \A i \in 1..n : OutputsIn(image)[i].num >= HeaderSize
    BY <1>2, <1>5
  <1> QED BY <1>6, <1>7, <1>8, <1>9 DEF t, s, n

\* The lists that load makes.
LEMMA LoadTyped ==
  ASSUME NEW image \in Image
  PROVE  /\ load(image).turnouts \in List(Turnout)
         /\ ToSet(load(image).turnouts) = Latest(TurnoutsIn(image))
         /\ load(image).sensors \in List(Sensor)
         /\ ToSet(load(image).sensors) = Latest(SensorsIn(image))
         /\ load(image).outputs \in List(Output)
         /\ ToSet(load(image).outputs) = Latest(OutputsIn(image))
         /\ \A o \in ToSet(load(image).outputs) : o.num >= HeaderSize
  <1>1. /\ load(image).turnouts = Created(TurnoutsIn(image), TRUE)
        /\ load(image).sensors = Created(SensorsIn(image), FALSE)
        /\ load(image).outputs = Created(OutputsIn(image), FALSE)
    BY DEF load
  <1>2. /\ TurnoutsIn(image) \in Seq(Turnout) /\ SensorsIn(image) \in Seq(Sensor)
        /\ OutputsIn(image) \in Seq(Output) /\ DOMAIN OutputsIn(image) = 1..nOutputs(image)
        /\ \A i \in 1..nOutputs(image) : OutputsIn(image)[i].num >= HeaderSize
    BY RecordsIn
  <1>3. /\ Created(TurnoutsIn(image), TRUE) \in List(Turnout)
        /\ ToSet(Created(TurnoutsIn(image), TRUE)) = Latest(TurnoutsIn(image))
    BY <1>2, CreatedList
  <1>4. /\ Created(SensorsIn(image), FALSE) \in List(Sensor)
        /\ ToSet(Created(SensorsIn(image), FALSE)) = Latest(SensorsIn(image))
    BY <1>2, CreatedList
  <1>5. /\ Created(OutputsIn(image), FALSE) \in List(Output)
        /\ ToSet(Created(OutputsIn(image), FALSE)) = Latest(OutputsIn(image))
    BY <1>2, CreatedList
  <1>6. \A o \in Latest(OutputsIn(image)) : o.num >= HeaderSize
    BY <1>2 DEF Latest
  <1> QED BY <1>1, <1>3, <1>4, <1>5, <1>6

\* The id of the store.
Valid(image) == \A i \in 1..6 : Cell(image, i - 1) = EESTORE_ID[i]

LEMMA InitTyped ==
  ASSUME NEW image \in Image
  PROVE  init(image) \in Image /\ Valid(init(image)) /\ (Valid(image) => init(image) = image)
  <1> DEFINE header == Header(0, 0, 0)
  <1>1. /\ header \in Seq(Byte) /\ Len(header) = 12
        /\ \A i \in 1..6 : header[i] = EESTORE_ID[i]
    BY HeaderBytes
  <1>2. /\ ~Valid(image) => init(image) = Put(image, 0, header)
        /\ Valid(image) => init(image) = image
    BY DEF init, Valid
  <1> HIDE DEF header
  <1>3. CASE Valid(image)
    BY <1>2, <1>3
  <1>4. CASE ~Valid(image)
    <2> DEFINE after == Put(image, 0, header)
    <2>1. /\ after \in Image
          /\ \A a \in Int : Cell(after, a) =
               IF a \in 0..(Size - 1) /\ a \in 0..(0 + Len(header) - 1)
               THEN header[a - 0 + 1] ELSE Cell(image, a)
      BY <1>1, PutBytes
    <2> HIDE DEF after
    <2>2. ASSUME NEW i \in 1..6 PROVE Cell(after, i - 1) = EESTORE_ID[i]
      <3> DEFINE a == i - 1
      <3>1. a \in Int /\ a \in 0..(Size - 1) /\ a \in 0..(0 + Len(header) - 1) /\ a - 0 + 1 = i
        <4>1. Size \in Nat /\ Size >= 12
          BY StoreAssumption
        <4> QED BY <1>1, <4>1
      <3> HIDE DEF a
      <3>2. Cell(after, a) = EESTORE_ID[i]
        BY <1>1, <2>1, <3>1
      <3> QED BY <3>2 DEF a
    <2>3. Valid(after)
      BY <2>2 DEF Valid
    <2>4. init(image) = after
      BY <1>2, <1>4 DEF after
    <2> QED BY <1>4, <2>1, <2>3, <2>4
  <1> QED BY <1>3, <1>4

-----------------------------------------------------------------------------
(* The type invariant.                                                     *)

LEMMA TypeOKLists ==
  TypeOK <=> /\ eeprom \in Image
             /\ turnouts \in List(Turnout) /\ sensors \in List(Sensor) /\ outputs \in List(Output)
             /\ \A o \in ToSet(outputs) : o.num = 0 \/ o.num >= HeaderSize
  BY DEF TypeOK, Image, List, Apart

\* A power-up leaves the lists typed, whatever it finds.
LEMMA PowerUpTypes ==
  ASSUME NEW image \in Image, PowerUpFrom(image)
  PROVE  TypeOK'
  <1> DEFINE found == load(init(image))
  <1>1. init(image) \in Image
    BY InitTyped
  <1>2. /\ found.turnouts \in List(Turnout) /\ found.sensors \in List(Sensor)
        /\ found.outputs \in List(Output)
        /\ \A o \in ToSet(found.outputs) : o.num >= HeaderSize
    BY <1>1, LoadTyped
  <1>3. /\ eeprom' = init(image) /\ turnouts' = found.turnouts
        /\ sensors' = found.sensors /\ outputs' = found.outputs
    BY DEF PowerUpFrom
  <1> HIDE DEF found
  <1>4. /\ eeprom' \in Image
        /\ turnouts' \in List(Turnout) /\ sensors' \in List(Sensor) /\ outputs' \in List(Output)
        /\ \A o \in ToSet(outputs') : o.num = 0 \/ o.num >= HeaderSize
    BY <1>1, <1>2, <1>3
  <1> QED BY <1>4 DEF TypeOK, Image, List, Apart

\* The objects that the commands make.
LEMMA DefinedTyped ==
  ASSUME NEW id \in TurnoutIds
  PROVE  /\ DCCTurnout(id, 5, 1) \in Turnout /\ ServoTurnout(id, 3, 90, 60) \in Turnout
         /\ DCCTurnout(id, (id - 1) \div 4 + 1, (id - 1) % 4) \in Turnout
  <1>1. id \in Int /\ 1 <= id /\ id <= 32767
    <2>1. id \in PositiveInt
      BY StoreAssumption
    <2> QED BY <2>1, IdInt
  <1>2. id \in Word
    BY <1>1, WordIs
  <1>3. 0 \in Byte /\ 1 \in Byte /\ 67 \in Byte /\ 30 \in Byte
    BY DEF Byte
  <1>4. 5 \in Word /\ 60 \in Word
    BY WordIs
  <1>5. DCCTurnout(id, 5, 1) \in Turnout
    BY <1>2, <1>3, <1>4 DEF DCCTurnout, Turnout
  <1>6. ServoTurnout(id, 3, 90, 60) = [id |-> id, tStatus |-> 67, low |-> 30, high |-> 60]
    BY DEF ServoTurnout, STATUS_PWM
  <1>7. ServoTurnout(id, 3, 90, 60) \in Turnout
    BY <1>2, <1>3, <1>4, <1>6 DEF Turnout
  <1> DEFINE a == (id - 1) \div 4 + 1
             b == (id - 1) % 4
  <1>8. a \in Int /\ 0 <= a /\ a <= 65535 /\ b \in Int /\ 0 <= b /\ b <= 255
    BY <1>1
  <1> HIDE DEF a, b
  <1>9. a \in Word /\ b \in Byte
    <2>1. a \in Word
      BY <1>8, WordIs
    <2>2. b \in Byte
      BY <1>8 DEF Byte
    <2> QED BY <2>1, <2>2
  <1>10. DCCTurnout(id, a, b) \in Turnout
    BY <1>2, <1>3, <1>9 DEF DCCTurnout, Turnout
  <1> QED BY <1>5, <1>7, <1>10 DEF a, b

LEMMA WithStateTyped ==
  ASSUME NEW t \in Turnout, NEW state \in BOOLEAN
  PROVE  /\ WithState(t, state) \in Turnout /\ WithState(t, state).id = t.id
         /\ WithState(t, state).tStatus \in Byte
  <1> DEFINE status == (t.tStatus % 128) + (IF state THEN 128 ELSE 0)
  <1>1. /\ t.id \in Word /\ t.tStatus \in Byte /\ t.low \in Byte /\ t.high \in Word
        /\ t = [id |-> t.id, tStatus |-> t.tStatus, low |-> t.low, high |-> t.high]
    BY DEF Turnout
  <1>2. status \in Byte
    <2>1. status \in Int /\ 0 <= status /\ status <= 255
      BY <1>1, ByteInt
    <2> HIDE DEF status
    <2> QED BY <2>1 DEF Byte
  <1>3. WithState(t, state) = [id |-> t.id, tStatus |-> status, low |-> t.low, high |-> t.high]
    BY <1>1 DEF WithState, STATUS_ACTIVE
  <1> HIDE DEF status
  <1> QED BY <1>1, <1>2, <1>3 DEF Turnout

\* An object changed in its place.
Changed(list, i, object) == [list EXCEPT ![i] = object]

LEMMA ChangeSet ==
  ASSUME NEW S, NEW list \in List(S), NEW i \in 1..Len(list), NEW object \in S,
         object.id = list[i].id
  PROVE  /\ Changed(list, i, object) \in List(S)
         /\ ToSet(Changed(list, i, object))
            = {object} \cup {x \in ToSet(list) : x.id # object.id}
         /\ Changed(list, i, object)[i] = object
  <1> DEFINE atEnd == FALSE
  <1>1. atEnd \in BOOLEAN /\ Changed(list, i, object) = create(list, object, atEnd)
    BY ChangeIsCreate DEF Changed
  <1> HIDE DEF atEnd
  <1>2. /\ create(list, object, atEnd) \in List(S)
        /\ ToSet(create(list, object, atEnd))
           = {object} \cup {x \in ToSet(list) : x.id # object.id}
    BY <1>1, CreateSet
  <1>3. Changed(list, i, object)[i] = object
    BY DEF Changed, List
  <1> QED BY <1>1, <1>2, <1>3

\* The place of an id, in a list that is one.
LEMMA PlaceOfObject ==
  ASSUME NEW S, NEW list \in List(S), NEW id, PlaceOf(list, id) > 0
  PROVE  /\ PlaceOf(list, id) \in 1..Len(list)
         /\ list[PlaceOf(list, id)] \in S /\ list[PlaceOf(list, id)].id = id
         /\ list[PlaceOf(list, id)] \in ToSet(list)
  <1> DEFINE p == PlaceOf(list, id)
  <1>1. list \in Seq(S) /\ DOMAIN list = 1..Len(list)
    BY DEF List
  <1>2. p \in 0..Len(list) /\ p > 0 /\ list[p].id = id
    BY <1>1, Place
  <1> HIDE DEF p
  <1>3. p \in 1..Len(list)
    BY <1>1, <1>2
  <1>4. list[p] \in S /\ list[p] \in ToSet(list)
    BY <1>1, <1>3, ElementOfSeq DEF ToSet
  <1> QED BY <1>2, <1>3, <1>4 DEF p

\* One object of a list is made, changed or removed, and no other.
Edited(S, list, after, id) ==
  /\ after \in List(S)
  /\ \E x \in ToSet(list) \cup ToSet(after) : x.id = id
  /\ \A x : x.id # id => (x \in ToSet(after) <=> x \in ToSet(list))
SomeEdited(S, list, after) == \E id : Edited(S, list, after, id)

LEMMA CreateEdits ==
  ASSUME NEW S, NEW list \in List(S), NEW object \in S, NEW inFront \in BOOLEAN
  PROVE  Edited(S, list, create(list, object, inFront), object.id)
  BY CreateSet DEF Edited

LEMMA ChangeEdits ==
  ASSUME NEW S, NEW list \in List(S), NEW i \in 1..Len(list), NEW object \in S,
         object.id = list[i].id
  PROVE  Edited(S, list, Changed(list, i, object), object.id)
  BY ChangeSet DEF Edited

LEMMA RemoveEdits ==
  ASSUME NEW S, NEW list \in List(S), NEW id, PlaceOf(list, id) > 0
  PROVE  Edited(S, list, RemoveAt(list, PlaceOf(list, id)), id)
  BY RemoveSet, PlaceOfObject DEF Edited

LEMMA TurnoutsEdited ==
  ASSUME TypeOK, DefineTurnout \/ RemoveTurnout \/ ActivateTurnout
  PROVE  SomeEdited(Turnout, turnouts, turnouts') /\ UNCHANGED <<sensors, outputs, eeprom, cuts>>
  <1>0. turnouts \in List(Turnout)
    BY TypeOKLists
  <1>1. UNCHANGED <<sensors, outputs, eeprom, cuts>>
    BY DEF DefineTurnout, RemoveTurnout, ActivateTurnout, Command
  <1>2. CASE DefineTurnout
    <2>1. PICK id \in TurnoutIds :
            \E turnout \in {DCCTurnout(id, 5, 1), ServoTurnout(id, 3, 90, 60)} :
              turnouts' = createTurnout(turnouts, turnout)
      BY <1>2 DEF DefineTurnout
    <2>2. PICK turnout \in Turnout : turnouts' = create(turnouts, turnout, TRUE)
      BY <2>1, DefinedTyped DEF createTurnout
    <2>3. Edited(Turnout, turnouts, turnouts', turnout.id)
      BY <1>0, <2>2, CreateEdits
    <2> QED BY <1>1, <2>3 DEF SomeEdited
  <1>3. CASE RemoveTurnout
    <2>1. PICK id \in TurnoutIds :
            PlaceOf(turnouts, id) > 0 /\ turnouts' = RemoveAt(turnouts, PlaceOf(turnouts, id))
      BY <1>3 DEF RemoveTurnout
    <2>2. Edited(Turnout, turnouts, turnouts', id)
      BY <1>0, <2>1, RemoveEdits
    <2> QED BY <1>1, <2>2 DEF SomeEdited
  <1>4. CASE ActivateTurnout
    <2>1. PICK id \in TurnoutIds, state \in BOOLEAN :
            /\ PlaceOf(turnouts, id) > 0
            /\ turnouts' = [turnouts EXCEPT ![PlaceOf(turnouts, id)] = WithState(@, state)]
      BY <1>4 DEF ActivateTurnout
    <2> DEFINE i == PlaceOf(turnouts, id)
               t == turnouts[i]
    <2>2. i \in 1..Len(turnouts) /\ t \in Turnout
      BY <1>0, <2>1, PlaceOfObject
    <2>3. turnouts' = Changed(turnouts, i, WithState(t, state))
      BY <2>1 DEF Changed
    <2>4. WithState(t, state) \in Turnout /\ WithState(t, state).id = t.id
      BY <2>2, WithStateTyped
    <2> DEFINE o == WithState(t, state)
    <2> HIDE DEF o, i
    <2>5. Edited(Turnout, turnouts, turnouts', o.id)
      BY <1>0, <2>2, <2>3, <2>4, ChangeEdits DEF o
    <2> QED BY <1>1, <2>5 DEF SomeEdited
  <1> QED BY <1>2, <1>3, <1>4

LEMMA PutByte ==
  ASSUME NEW image \in Image, NEW at \in Nat, NEW b \in Byte
  PROVE  /\ Put(image, at, <<b>>) \in Image
         /\ \A a \in Int : Cell(Put(image, at, <<b>>), a) =
              IF a = at /\ at < Size THEN b ELSE Cell(image, a)
  <1>1. <<b>> \in Seq(Byte) /\ Len(<<b>>) = 1 /\ <<b>>[1] = b
    OBVIOUS
  <1>2. Size \in Nat
    BY StoreAssumption
  <1> DEFINE bytes == <<b>>
             after == Put(image, at, bytes)
  <1> HIDE DEF bytes
  <1>3. /\ after \in Image
        /\ \A a \in Int : Cell(after, a) =
             IF a \in 0..(Size - 1) /\ a \in at..(at + Len(bytes) - 1)
             THEN bytes[a - at + 1] ELSE Cell(image, a)
    BY <1>1, PutBytes DEF bytes
  <1> HIDE DEF after
  <1>4. ASSUME NEW a \in Int PROVE Cell(after, a) = IF a = at /\ at < Size THEN b ELSE Cell(image, a)
    <2>1. Len(bytes) = 1 /\ bytes[1] = b
      BY <1>1 DEF bytes
    <2> QED BY <1>2, <1>3, <2>1
  <1> QED BY <1>3, <1>4 DEF after, bytes

LEMMA TurnoutThrown ==
  ASSUME TypeOK, ThrowTurnout
  PROVE  /\ SomeEdited(Turnout, turnouts, turnouts') /\ UNCHANGED <<sensors, outputs, cuts>>
         /\ \E id \in TurnoutIds, b \in Byte : eeprom' = Put(eeprom, id, <<b>>)
  <1>0. turnouts \in List(Turnout)
    BY TypeOKLists
  <1>1. PICK id \in TurnoutIds, state \in BOOLEAN :
          LET made == IF PlaceOf(turnouts, id) > 0 THEN turnouts
                      ELSE createTurnout(turnouts, DCCTurnout(id, (id - 1) \div 4 + 1, (id - 1) % 4))
              i == PlaceOf(made, id)
          IN /\ turnouts' = [made EXCEPT ![i] = WithState(@, state)]
             /\ eeprom' = Put(eeprom, id, <<turnouts'[i].tStatus>>)
    BY DEF ThrowTurnout
  <1> DEFINE new == DCCTurnout(id, (id - 1) \div 4 + 1, (id - 1) % 4)
             made == IF PlaceOf(turnouts, id) > 0 THEN turnouts ELSE create(turnouts, new, TRUE)
             i == PlaceOf(made, id)
             t == made[i]
             o == WithState(t, state)
  <1>2. /\ turnouts' = [made EXCEPT ![i] = WithState(@, state)]
        /\ eeprom' = Put(eeprom, id, <<turnouts'[i].tStatus>>)
    BY <1>1 DEF createTurnout
  <1>3. new \in Turnout /\ new.id = id
    BY DefinedTyped DEF DCCTurnout
  <1> HIDE DEF new
  <1>4. /\ made \in List(Turnout)
        /\ \E x \in ToSet(made) : x.id = id
        /\ \A x : x.id # id => (x \in ToSet(made) <=> x \in ToSet(turnouts))
    <2>1. CASE PlaceOf(turnouts, id) > 0
      <3>1. made = turnouts
        BY <2>1
      <3>2. \E x \in ToSet(turnouts) : x.id = id
        BY <1>0, <2>1, PlaceOfObject
      <3> HIDE DEF made
      <3> QED BY <1>0, <3>1, <3>2
    <2>2. CASE ~(PlaceOf(turnouts, id) > 0)
      <3> DEFINE inFront == TRUE
      <3>1. made = create(turnouts, new, inFront) /\ inFront \in BOOLEAN
        BY <2>2
      <3> HIDE DEF inFront
      <3>2. /\ create(turnouts, new, inFront) \in List(Turnout)
            /\ ToSet(create(turnouts, new, inFront)) = {new} \cup {x \in ToSet(turnouts) : x.id # new.id}
        BY <1>0, <1>3, <3>1, CreateSet
      <3> HIDE DEF made
      <3> QED BY <1>3, <3>1, <3>2
    <2> QED BY <2>1, <2>2
  <1> HIDE DEF made
  <1>5. i \in 1..Len(made) /\ t \in Turnout /\ t.id = id
    <2>1. made \in Seq(Turnout) /\ DOMAIN made = 1..Len(made)
      BY <1>4 DEF List
    <2>2. \E j \in 1..Len(made) : made[j].id = id
      BY <1>4, <2>1 DEF ToSet
    <2>3. i > 0
      BY <2>1, <2>2, Place
    <2> HIDE DEF i
    <2> QED BY <1>4, <2>3, PlaceOfObject DEF i
  <1>6. turnouts' = Changed(made, i, o)
    BY <1>2 DEF Changed
  <1>7. o \in Turnout /\ o.id = id /\ o.tStatus \in Byte
    BY <1>5, WithStateTyped
  <1> HIDE DEF o, t, i
  <1>8. /\ turnouts' \in List(Turnout)
        /\ ToSet(turnouts') = {o} \cup {x \in ToSet(made) : x.id # o.id}
        /\ turnouts'[i] = o
    <2>1. o.id = made[i].id
      BY <1>5, <1>7 DEF t
    <2>2. /\ Changed(made, i, o) \in List(Turnout)
          /\ ToSet(Changed(made, i, o)) = {o} \cup {x \in ToSet(made) : x.id # o.id}
          /\ Changed(made, i, o)[i] = o
      BY <1>4, <1>5, <1>7, <2>1, ChangeSet
    <2> QED BY <1>6, <2>2
  <1>9. Edited(Turnout, turnouts, turnouts', id)
    BY <1>4, <1>7, <1>8 DEF Edited
  <1> QED BY <1>2, <1>7, <1>8, <1>9 DEF SomeEdited, ThrowTurnout, Command

LEMMA SensorsEdited ==
  ASSUME TypeOK, DefineSensor \/ RemoveSensor
  PROVE  SomeEdited(Sensor, sensors, sensors') /\ UNCHANGED <<turnouts, outputs, eeprom, cuts>>
  <1>0. sensors \in List(Sensor)
    BY TypeOKLists
  <1>1. UNCHANGED <<turnouts, outputs, eeprom, cuts>>
    BY DEF DefineSensor, RemoveSensor, Command
  <1>2. CASE DefineSensor
    <2>1. PICK id \in SensorIds, pullUp \in {0, 1} :
            sensors' = createSensor(sensors, [id |-> id, pin |-> 22, pullUp |-> pullUp])
      BY <1>2 DEF DefineSensor
    <2> DEFINE object == [id |-> id, pin |-> 22, pullUp |-> pullUp]
    <2>2. object \in Sensor
      <3>1. id \in Word
        BY StoreAssumption, IdInt, WordIs
      <3>2. 22 \in Byte
        BY DEF Byte
      <3> QED BY <3>1, <3>2 DEF Sensor
    <2>3. sensors' = create(sensors, object, FALSE)
      BY <2>1 DEF createSensor
    <2> DEFINE atEnd == FALSE
    <2>4. atEnd \in BOOLEAN /\ sensors' = create(sensors, object, atEnd)
      BY <2>3
    <2> HIDE DEF object, atEnd
    <2>5. Edited(Sensor, sensors, sensors', object.id)
      BY <1>0, <2>2, <2>4, CreateEdits
    <2> QED BY <1>1, <2>5 DEF SomeEdited
  <1>3. CASE RemoveSensor
    <2>1. PICK id \in SensorIds :
            PlaceOf(sensors, id) > 0 /\ sensors' = RemoveAt(sensors, PlaceOf(sensors, id))
      BY <1>3 DEF RemoveSensor
    <2>2. Edited(Sensor, sensors, sensors', id)
      BY <1>0, <2>1, RemoveEdits
    <2> QED BY <1>1, <2>2 DEF SomeEdited
  <1> QED BY <1>2, <1>3

\* A new output has no record yet; one that is defined again keeps its record.
Redefined(list, after, o) ==
  /\ after \in List(Output) /\ o \in Output
  /\ ToSet(after) = {o} \cup {x \in ToSet(list) : x.id # o.id}
  /\ \/ o.num = 0 /\ \A x \in ToSet(list) : x.id # o.id
     \/ \E x \in ToSet(list) : x.id = o.id /\ x.num = o.num

\* The ids given to outputs fit into the byte that an object has for its id.
OutputIdsFit == OutputIds \subseteq Byte

LEMMA OutputDefined ==
  ASSUME OutputIdsFit, TypeOK, DefineOutput
  PROVE  /\ \E o : Redefined(outputs, outputs', o)
         /\ UNCHANGED <<turnouts, sensors, eeprom, cuts>>
  <1>0. outputs \in List(Output)
    BY TypeOKLists
  <1>1. UNCHANGED <<turnouts, sensors, eeprom, cuts>>
    BY DEF DefineOutput, Command
  <1>2. PICK id \in OutputIds, iFlag \in Flags :
          outputs' = createOutput(outputs, id, 30, iFlag, PowerUpStatus(iFlag, 0))
    BY DEF DefineOutput
  <1> DEFINE i == PlaceOf(outputs, id)
             status == PowerUpStatus(iFlag, 0)
             num == IF i > 0 THEN outputs[i].num ELSE 0
             o == [oStatus |-> status, id |-> id, pin |-> 30, iFlag |-> iFlag, num |-> num]
             atEnd == FALSE
  <1>3. outputs' = create(outputs, o, atEnd) /\ atEnd \in BOOLEAN
    <2>1. id \in Byte
      BY DEF OutputIdsFit
    <2>2. id % 256 = id
      BY <2>1 DEF Byte
    <2> QED BY <1>2, <2>2 DEF createOutput, create
  <1>4. id \in Byte /\ iFlag \in Byte /\ 30 \in Byte
    <2>1. 30 \in Byte
      BY DEF Byte
    <2> QED BY <2>1, StoreAssumption DEF OutputIdsFit
  <1>5. status \in Byte
    BY <1>4, SmallByte, PowerUpTyped
  <1>6. \/ num = 0 /\ \A x \in ToSet(outputs) : x.id # id
        \/ \E x \in ToSet(outputs) : x.id = id /\ x.num = num
    <2>1. CASE i > 0
      <3>1. outputs[i] \in ToSet(outputs) /\ outputs[i].id = id
        BY <1>0, <2>1, PlaceOfObject
      <3> QED BY <2>1, <3>1
    <2>2. CASE ~(i > 0)
      <3>1. outputs \in Seq(Output) /\ DOMAIN outputs = 1..Len(outputs)
        BY <1>0 DEF List
      <3>2. i \in 0..Len(outputs) /\ (i = 0 => \A j \in 1..Len(outputs) : outputs[j].id # id)
        BY <3>1, Place
      <3>3. i = 0
        BY <2>2, <3>1, <3>2
      <3>4. \A x \in ToSet(outputs) : x.id # id
        BY <3>1, <3>2, <3>3 DEF ToSet
      <3> QED BY <2>2, <3>4
    <2> QED BY <2>1, <2>2
  <1>7. num \in Nat
    <2>1. CASE i > 0
      <3>1. outputs[i] \in Output
        BY <1>0, <2>1, PlaceOfObject
      <3> QED BY <2>1, <3>1 DEF Output
    <2>2. CASE ~(i > 0)
      BY <2>2
    <2> QED BY <2>1, <2>2
  <1> HIDE DEF num, status
  <1>8. o \in Output /\ o.id = id /\ o.num = num
    BY <1>4, <1>5, <1>7 DEF Output
  <1> HIDE DEF o, atEnd
  <1>9. /\ create(outputs, o, atEnd) \in List(Output)
        /\ ToSet(create(outputs, o, atEnd)) = {o} \cup {x \in ToSet(outputs) : x.id # o.id}
    BY <1>0, <1>3, <1>8, CreateSet
  <1>10. Redefined(outputs, outputs', o)
    BY <1>3, <1>6, <1>8, <1>9 DEF Redefined
  <1> QED BY <1>1, <1>10

Removed(list, after, id) ==
  /\ after \in List(Output)
  /\ \E x \in ToSet(list) : x.id = id
  /\ ToSet(after) = {x \in ToSet(list) : x.id # id}

LEMMA OutputRemoved ==
  ASSUME TypeOK, RemoveOutput
  PROVE  /\ \E id : Removed(outputs, outputs', id)
         /\ UNCHANGED <<turnouts, sensors, eeprom, cuts>>
  <1>0. outputs \in List(Output)
    BY TypeOKLists
  <1>1. PICK id \in OutputIds :
          PlaceOf(outputs, id) > 0 /\ outputs' = RemoveAt(outputs, PlaceOf(outputs, id))
    BY DEF RemoveOutput
  <1>2. Removed(outputs, outputs', id)
    BY <1>0, <1>1, RemoveSet, PlaceOfObject DEF Removed
  <1> QED BY <1>2 DEF RemoveOutput, Command

WithStatus(o, state) ==
  [oStatus |-> state, id |-> o.id, pin |-> o.pin, iFlag |-> o.iFlag, num |-> o.num]

\* An output is switched, in the list and in its record, if it has one.
Switched(list, after, o, state) ==
  /\ after \in List(Output) /\ o \in ToSet(list) /\ o \in Output /\ state \in {0, 1}
  /\ ToSet(after) = {WithStatus(o, state)} \cup {x \in ToSet(list) : x.id # o.id}

LEMMA OutputSwitched ==
  ASSUME TypeOK, ActivateOutput
  PROVE  /\ \E o, state : /\ Switched(outputs, outputs', o, state)
                          /\ eeprom' = IF o.num = 0 THEN eeprom ELSE Put(eeprom, o.num, <<state>>)
         /\ UNCHANGED <<turnouts, sensors, cuts>>
  <1>0. outputs \in List(Output)
    BY TypeOKLists
  <1>1. PICK id \in OutputIds, state \in {0, 1} :
          /\ PlaceOf(outputs, id) > 0
          /\ outputs' = [outputs EXCEPT ![PlaceOf(outputs, id)].oStatus = state]
          /\ eeprom' = IF outputs[PlaceOf(outputs, id)].num = 0 THEN eeprom
                       ELSE Put(eeprom, outputs[PlaceOf(outputs, id)].num, <<state>>)
    BY DEF ActivateOutput
  <1> DEFINE i == PlaceOf(outputs, id)
             o == outputs[i]
  <1>2. i \in 1..Len(outputs) /\ o \in Output /\ o \in ToSet(outputs)
    BY <1>0, <1>1, PlaceOfObject
  <1>3. [o EXCEPT !.oStatus = state] = WithStatus(o, state)
    BY <1>2 DEF Output, WithStatus
  <1>4. outputs' = Changed(outputs, i, WithStatus(o, state))
    <2>1. outputs' = [outputs EXCEPT ![i] = [o EXCEPT !.oStatus = state]]
      BY <1>1
    <2> QED BY <1>3, <2>1 DEF Changed
  <1>5. WithStatus(o, state) \in Output /\ WithStatus(o, state).id = o.id
    BY <1>2, SmallByte DEF Output, WithStatus
  <1>6. eeprom' = IF o.num = 0 THEN eeprom ELSE Put(eeprom, o.num, <<state>>)
    BY <1>1
  <1> DEFINE new == WithStatus(o, state)
  <1>7. new \in Output /\ new.id = outputs[i].id /\ outputs' = Changed(outputs, i, new)
    BY <1>4, <1>5
  <1> HIDE DEF new, i
  <1>8. /\ Changed(outputs, i, new) \in List(Output)
        /\ ToSet(Changed(outputs, i, new)) = {new} \cup {x \in ToSet(outputs) : x.id # new.id}
    BY <1>0, <1>2, <1>7, ChangeSet
  <1>9. Switched(outputs, outputs', o, state)
    BY <1>2, <1>7, <1>8 DEF Switched, new
  <1> QED BY <1>6, <1>9 DEF ActivateOutput, Command

\* Each output stored has a place.
WithPlace(o, num) ==
  [oStatus |-> o.oStatus, id |-> o.id, pin |-> o.pin, iFlag |-> o.iFlag, num |-> num]

LEMMA OutputsStored ==
  ASSUME TypeOK, store
  PROVE  /\ outputs' \in List(Output) /\ Len(outputs') = Len(outputs)
         /\ \A i \in 1..Len(outputs) :
              outputs'[i] = WithPlace(outputs[i], OutputPlace(Len(turnouts), Len(sensors), i))
         /\ \A o \in ToSet(outputs') : o.num >= HeaderSize
  <1> DEFINE t == Len(turnouts)
             s == Len(sensors)
             n == Len(outputs)
  <1>1. /\ turnouts \in Seq(Turnout) /\ sensors \in Seq(Sensor) /\ outputs \in Seq(Output)
        /\ Apart(outputs)
    BY TypeOKLists DEF List
  <1>2. t \in Nat /\ s \in Nat /\ n \in Nat /\ DOMAIN outputs = 1..n
    BY <1>1
  <1>3. outputs' = [i \in DOMAIN outputs |-> [outputs[i] EXCEPT !.num = OutputPlace(t, s, i)]]
    BY DEF store
  <1> HIDE DEF t, s, n
  <1>4. ASSUME NEW i \in 1..n
        PROVE  /\ OutputPlace(t, s, i) \in Nat /\ OutputPlace(t, s, i) >= HeaderSize
               /\ [outputs[i] EXCEPT !.num = OutputPlace(t, s, i)]
                  = WithPlace(outputs[i], OutputPlace(t, s, i))
               /\ WithPlace(outputs[i], OutputPlace(t, s, i)) \in Output
    <2>1. OutputPlace(t, s, i) \in Nat /\ OutputPlace(t, s, i) >= HeaderSize
      BY <1>2 DEF OutputPlace, HeaderSize
    <2>2. outputs[i] \in Output
      BY <1>1, <1>2
    <2> DEFINE o == outputs[i]
               a == OutputPlace(t, s, i)
    <2> HIDE DEF o, a
    <2>3. [o EXCEPT !.num = a] = WithPlace(o, a) /\ WithPlace(o, a) \in Output
      <3>1. o \in Output /\ a \in Nat
        BY <2>1, <2>2 DEF o, a
      <3> QED BY <3>1 DEF Output, WithPlace
    <2> QED BY <2>1, <2>3 DEF o, a
  <1>5. outputs' = [i \in 1..n |-> WithPlace(outputs[i], OutputPlace(t, s, i))]
    BY <1>2, <1>3, <1>4
  <1>6. /\ outputs' \in Seq(Output) /\ Len(outputs') = n /\ DOMAIN outputs' = 1..n
        /\ \A i \in 1..n : outputs'[i] = WithPlace(outputs[i], OutputPlace(t, s, i))
    BY <1>2, <1>4, <1>5
  <1>7. Apart(outputs')
    <2>1. \A i \in 1..n : outputs'[i].id = outputs[i].id
      BY <1>6 DEF WithPlace
    <2> QED BY <1>1, <1>2, <1>6, <2>1 DEF Apart
  <1>8. \A o \in ToSet(outputs') : o.num >= HeaderSize
    <2> SUFFICES ASSUME NEW i \in 1..n PROVE outputs'[i].num >= HeaderSize
      BY <1>6 DEF ToSet
    <2> DEFINE a == OutputPlace(t, s, i)
    <2>1. outputs'[i] = WithPlace(outputs[i], a) /\ a >= HeaderSize
      BY <1>4, <1>6
    <2> HIDE DEF a
    <2>2. outputs'[i].num = a
      BY <2>1 DEF WithPlace
    <2> QED BY <2>1, <2>2
  <1> QED BY <1>2, <1>6, <1>7, <1>8 DEF t, s, n, List

LEMMA StoreImage ==
  ASSUME TypeOK, NEW n \in Nat
  PROVE  StoreBytes(eeprom, turnouts, sensors, outputs, n) \in Image
  <1>1. /\ turnouts \in Seq(Turnout) /\ sensors \in Seq(Sensor) /\ outputs \in Seq(Output)
        /\ eeprom \in Image
    BY TypeOKLists DEF List
  <1>2. Len(turnouts) \in Nat /\ Len(sensors) \in Nat /\ Len(outputs) \in Nat
    BY <1>1
  <1>3. Records(turnouts, sensors, outputs) \in Seq(Byte)
    BY <1>1, <1>2, RecordsBytes DEF AreRecords
  <1>4. Len(Records(turnouts, sensors, outputs)) \in Nat
    BY <1>3
  <1> QED BY <1>1, <1>4, StoredBytes

LEMMA ClearImage ==
  ASSUME NEW image \in Image
  PROVE  Put(image, 0, Header(0, 0, 0)) \in Image
  <1>1. Header(0, 0, 0) \in Seq(Byte)
    BY HeaderBytes
  <1> QED BY <1>1, PutBytes

LEMMA TypeOKInit == Init => TypeOK
  <1> SUFFICES ASSUME Init PROVE TypeOK
    OBVIOUS
  <1> DEFINE blank == [a \in 0..(Size - 1) |-> 255]
  <1>1. blank \in Image
    <2>1. 255 \in Byte
      BY DEF Byte
    <2> QED BY <2>1 DEF Image
  <1> HIDE DEF blank
  <1>2. init(blank) \in Image
    BY <1>1, InitTyped
  <1>3. eeprom \in Image
    BY <1>2 DEF Init, blank
  <1>4. /\ turnouts \in List(Turnout) /\ sensors \in List(Sensor) /\ outputs \in List(Output)
        /\ ToSet(outputs) = {}
    BY DEF Init, List, Apart, ToSet
  <1> QED BY <1>3, <1>4, TypeOKLists

LEMMA TypeOKStep ==
  ASSUME OutputIdsFit, TypeOK, [Next]_vars
  PROVE  TypeOK'
  <1> USE DEF List
  <1>1. /\ eeprom \in Image
        /\ turnouts \in List(Turnout) /\ sensors \in List(Sensor) /\ outputs \in List(Output)
        /\ \A o \in ToSet(outputs) : o.num = 0 \/ o.num >= HeaderSize
    BY TypeOKLists
  <1> SUFFICES /\ eeprom' \in Image
               /\ turnouts' \in List(Turnout) /\ sensors' \in List(Sensor) /\ outputs' \in List(Output)
               /\ \A o \in ToSet(outputs') : o.num = 0 \/ o.num >= HeaderSize
    BY DEF TypeOK, Image, Apart
  <1>2. CASE DefineTurnout \/ RemoveTurnout \/ ActivateTurnout
    BY <1>1, <1>2, TurnoutsEdited DEF SomeEdited, Edited
  <1>3. CASE ThrowTurnout
    <2>1. PICK id \in TurnoutIds, b \in Byte : eeprom' = Put(eeprom, id, <<b>>)
      BY <1>3, TurnoutThrown
    <2>2. id \in Nat
      BY StoreAssumption, IdInt
    <2>3. eeprom' \in Image
      BY <1>1, <2>1, <2>2, PutByte
    <2> QED BY <1>1, <1>3, <2>3, TurnoutThrown DEF SomeEdited, Edited
  <1>4. CASE DefineSensor \/ RemoveSensor
    BY <1>1, <1>4, SensorsEdited DEF SomeEdited, Edited
  <1>5. CASE DefineOutput
    <2>1. /\ UNCHANGED <<turnouts, sensors, eeprom>>
          /\ \E o : Redefined(outputs, outputs', o)
      BY <1>5, OutputDefined
    <2> QED BY <1>1, <2>1 DEF Redefined
  <1>6. CASE RemoveOutput
    BY <1>1, <1>6, OutputRemoved DEF Removed
  <1>7. CASE ActivateOutput
    <2>1. PICK o, state : /\ Switched(outputs, outputs', o, state)
                          /\ eeprom' = IF o.num = 0 THEN eeprom ELSE Put(eeprom, o.num, <<state>>)
      BY <1>7, OutputSwitched
    <2>2. /\ o \in ToSet(outputs) /\ o.num \in Nat /\ state \in Byte /\ outputs' \in List(Output)
          /\ ToSet(outputs') = {WithStatus(o, state)} \cup {x \in ToSet(outputs) : x.id # o.id}
      BY <2>1, SmallByte DEF Switched, Output
    <2>3. eeprom' \in Image
      BY <1>1, <2>1, <2>2, PutByte
    <2>4. WithStatus(o, state).num = o.num
      BY DEF WithStatus
    <2> QED BY <1>1, <1>7, <2>2, <2>3, <2>4, OutputSwitched
  <1>8. CASE store
    <2>1. HeaderSize + Len(Records(turnouts, sensors, outputs)) \in Nat
      <3>1. turnouts \in Seq(Turnout) /\ sensors \in Seq(Sensor) /\ outputs \in Seq(Output)
        BY <1>1
      <3>2. Len(turnouts) \in Nat /\ Len(sensors) \in Nat /\ Len(outputs) \in Nat
        BY <3>1
      <3>3. Records(turnouts, sensors, outputs) \in Seq(Byte)
        BY <3>1, <3>2, RecordsBytes DEF AreRecords
      <3> QED BY <3>3 DEF HeaderSize
    <2>2. eeprom' \in Image
      BY <1>8, <2>1, StoreImage DEF store
    <2> QED BY <1>1, <1>8, <2>2, OutputsStored DEF store
  <1>9. CASE clear
    BY <1>1, <1>9, ClearImage DEF clear, lists
  <1>10. CASE Restart
    <2>1. TypeOK'
      BY <1>1, <1>10, PowerUpTypes DEF Restart
    <2> QED BY <2>1 DEF TypeOK, Image, Apart
  <1>11. CASE CutStore
    <2>1. PICK n \in 1..(HeaderSize + Len(Records(turnouts, sensors, outputs)) - 1) :
            PowerUpFrom(StoreBytes(eeprom, turnouts, sensors, outputs, n))
      BY <1>11 DEF CutStore
    <2>2. n \in Nat
      OBVIOUS
    <2>3. TypeOK'
      BY <2>1, <2>2, StoreImage, PowerUpTypes
    <2> QED BY <2>3 DEF TypeOK, Image, Apart
  <1>12. CASE UNCHANGED vars
    BY <1>1, <1>12 DEF vars, lists
  <1> QED BY <1>2, <1>3, <1>4, <1>5, <1>6, <1>7, <1>8, <1>9, <1>10, <1>11, <1>12 DEF Next

\* If the ids given to outputs are below 256, then whatever the users do, and
\* whatever a power cut leaves in the EEPROM: the lists hold typed objects, each
\* id at most once, and no output has a place inside the header.
THEOREM StoreTypeOK == OutputIdsFit => (Spec => []TypeOK)
  <1> SUFFICES ASSUME OutputIdsFit PROVE Spec => []TypeOK
    OBVIOUS
  <1>1. TypeOK /\ [Next]_vars => TypeOK'
    BY TypeOKStep
  <1> QED BY <1>1, TypeOKInit, PTL DEF Spec

-----------------------------------------------------------------------------
(* What an EEPROM keeps: of the records of one id, the last.               *)

\* The places in a row of records whose id no later one has.
Newest(objects) ==
  {i \in DOMAIN objects : \A k \in DOMAIN objects : k > i => objects[k].id # objects[i].id}

LEMMA LatestNewest ==
  ASSUME NEW objects PROVE Latest(objects) = {objects[i] : i \in Newest(objects)}
  BY DEF Latest, Newest

\* The i-th output as it was stored.
StoredAt(image, i) ==
  LET a == OutputPlace(nTurnouts(image), nSensors(image), i)
  IN [oStatus |-> Cell(image, a), id |-> Cell(image, a + 1), pin |-> Cell(image, a + 2),
      iFlag |-> Cell(image, a + 3), num |-> 0]

KeptTurnouts(image) == {WithoutAngles(TurnoutsIn(image)[i]) : i \in Newest(TurnoutsIn(image))}
KeptSensors(image) == {SensorsIn(image)[i] : i \in Newest(SensorsIn(image))}
KeptOutputs(image) == {StoredAt(image, i) : i \in Newest(OutputsIn(image))}

\* Objects, kind by kind.
LEMMA ObjectsOf ==
  ASSUME NEW ts, NEW ss, NEW os
  PROVE  /\ DOMAIN Objects(ts, ss, os) = {"turnout", "sensor", "output"}
         /\ Objects(ts, ss, os) = [k \in {"turnout", "sensor", "output"} |-> Objects(ts, ss, os)[k]]
         /\ Objects(ts, ss, os)["turnout"] = {WithoutAngles(t) : t \in ToSet(ts)}
         /\ Objects(ts, ss, os)["sensor"] = ToSet(ss)
         /\ Objects(ts, ss, os)["output"] = {[o EXCEPT !.num = 0] : o \in ToSet(os)}
  BY DEF Objects

LEMMA OutputIn ==
  ASSUME NEW image \in Image, NEW i \in 1..nOutputs(image)
  PROVE  LET a == OutputPlace(nTurnouts(image), nSensors(image), i)
             o == OutputsIn(image)[i]
         IN /\ a \in Nat /\ o \in Output
            /\ o.oStatus = PowerUpStatus(Cell(image, a + 3), Cell(image, a))
            /\ o.id = Cell(image, a + 1) /\ o.pin = Cell(image, a + 2)
            /\ o.iFlag = Cell(image, a + 3) /\ o.num = a
            /\ [[o EXCEPT !.oStatus = Cell(image, o.num)] EXCEPT !.num = 0] = StoredAt(image, i)
  <1> DEFINE a == OutputPlace(nTurnouts(image), nSensors(image), i)
             o == OutputsIn(image)[i]
  <1>1. o = OutputAt(image, a)
    BY DEF OutputsIn
  <1>2. a \in Nat
    <2>1. nTurnouts(image) \in Nat /\ nSensors(image) \in Nat /\ i \in Nat /\ i >= 1
      BY CountTyped
    <2> QED BY <2>1 DEF OutputPlace, HeaderSize
  <1>3. StoredAt(image, i) = [oStatus |-> Cell(image, a), id |-> Cell(image, a + 1),
          pin |-> Cell(image, a + 2), iFlag |-> Cell(image, a + 3), num |-> 0]
    BY DEF StoredAt
  <1> HIDE DEF a, o
  <1>4. o \in Output
    BY <1>1, <1>2, ReadTyped
  <1>5. /\ o.oStatus = PowerUpStatus(Cell(image, a + 3), Cell(image, a))
        /\ o.id = Cell(image, a + 1) /\ o.pin = Cell(image, a + 2)
        /\ o.iFlag = Cell(image, a + 3) /\ o.num = a
    BY <1>1 DEF OutputAt
  <1>6. [[o EXCEPT !.oStatus = Cell(image, o.num)] EXCEPT !.num = 0] = StoredAt(image, i)
    <2> DEFINE c == Cell(image, a)
               p == WithStatus(o, c)
    <2>1. [o EXCEPT !.oStatus = c] = p
      <3> HIDE DEF c
      <3> QED BY <1>4 DEF Output, WithStatus
    <2>2. p \in Output
      BY <1>4, CellTyped DEF Output, WithStatus
    <2>3. [p EXCEPT !.num = 0] = WithPlace(p, 0)
      <3> HIDE DEF p
      <3> QED BY <2>2 DEF Output, WithPlace
    <2>4. WithPlace(p, 0) = StoredAt(image, i)
      BY <1>3, <1>5 DEF WithPlace, WithStatus
    <2> HIDE DEF p
    <2> QED BY <1>5, <2>1, <2>3, <2>4
  <1> QED BY <1>2, <1>4, <1>5, <1>6 DEF a, o

LEMMA KeptSets ==
  ASSUME NEW image \in Image, Valid(image)
  PROVE  /\ DOMAIN KeptIn(image) = {"turnout", "sensor", "output"}
         /\ KeptIn(image) = [k \in {"turnout", "sensor", "output"} |-> KeptIn(image)[k]]
         /\ KeptIn(image)["turnout"] = KeptTurnouts(image)
         /\ KeptIn(image)["sensor"] = KeptSensors(image)
         /\ KeptIn(image)["output"] = KeptOutputs(image)
  <1> DEFINE found == load(image)
             Saved(o) == [o EXCEPT !.oStatus = Cell(image, o.num)]
             saved == [i \in DOMAIN found.outputs |-> Saved(found.outputs[i])]
  <1>1. init(image) = image
    BY InitTyped
  <1>2. KeptIn(image) = Objects(found.turnouts, found.sensors, saved)
    BY <1>1 DEF KeptIn
  <1>3. /\ ToSet(found.turnouts) = Latest(TurnoutsIn(image))
        /\ ToSet(found.sensors) = Latest(SensorsIn(image))
        /\ ToSet(found.outputs) = Latest(OutputsIn(image))
    BY LoadTyped
  <1>4. {WithoutAngles(t) : t \in ToSet(found.turnouts)} = KeptTurnouts(image)
    BY <1>3, LatestNewest DEF KeptTurnouts
  <1>5. ToSet(found.sensors) = KeptSensors(image)
    BY <1>3, LatestNewest DEF KeptSensors
  <1>6. {[o EXCEPT !.num = 0] : o \in ToSet(saved)} = KeptOutputs(image)
    <2>1. ToSet(saved) = {Saved(o) : o \in ToSet(found.outputs)}
      BY DEF ToSet
    <2>2. DOMAIN OutputsIn(image) = 1..nOutputs(image)
      BY RecordsIn
    <2>3. ASSUME NEW i \in Newest(OutputsIn(image))
          PROVE  [Saved(OutputsIn(image)[i]) EXCEPT !.num = 0] = StoredAt(image, i)
      <3>1. i \in 1..nOutputs(image)
        BY <2>2 DEF Newest
      <3> QED BY <3>1, OutputIn
    <2>4. {[o EXCEPT !.num = 0] : o \in ToSet(saved)}
          = {[Saved(OutputsIn(image)[i]) EXCEPT !.num = 0] : i \in Newest(OutputsIn(image))}
      <3> HIDE DEF saved, Saved
      <3>1. ToSet(saved) = {Saved(OutputsIn(image)[i]) : i \in Newest(OutputsIn(image))}
        BY <1>3, <2>1, LatestNewest
      <3> QED BY <3>1
    <2> QED BY <2>3, <2>4 DEF KeptOutputs
  <1> HIDE DEF saved, found
  <1>7. /\ DOMAIN KeptIn(image) = {"turnout", "sensor", "output"}
        /\ KeptIn(image) = [k \in {"turnout", "sensor", "output"} |-> KeptIn(image)[k]]
        /\ KeptIn(image)["turnout"] = {WithoutAngles(t) : t \in ToSet(found.turnouts)}
        /\ KeptIn(image)["sensor"] = ToSet(found.sensors)
        /\ KeptIn(image)["output"] = {[o EXCEPT !.num = 0] : o \in ToSet(saved)}
    BY <1>2, ObjectsOf
  <1> QED BY <1>4, <1>5, <1>6, <1>7

LEMMA SameNewest ==
  ASSUME NEW objects, NEW others, DOMAIN objects = DOMAIN others,
         \A i \in DOMAIN objects : objects[i].id = others[i].id
  PROVE  Newest(objects) = Newest(others)
  BY DEF Newest

LEMMA ApartNewest ==
  ASSUME NEW S, NEW objects \in Seq(S), Apart(objects)
  PROVE  Newest(objects) = 1..Len(objects)
  <1>1. DOMAIN objects = 1..Len(objects) /\ Len(objects) \in Nat
    OBVIOUS
  <1>2. \A i, k \in 1..Len(objects) : k > i => objects[k].id # objects[i].id
    BY <1>1 DEF Apart
  <1> QED BY <1>1, <1>2 DEF Newest

\* What a record says depends on its bytes alone.
LEMMA SameTurnoutAt ==
  ASSUME NEW image, NEW after, NEW a \in Int,
         \A k \in 0..5 : Cell(after, a + k) = Cell(image, a + k)
  PROVE  TurnoutAt(after, a) = TurnoutAt(image, a)
  <1>0. a + 0 = a /\ a + 4 + 1 = a + 5
    OBVIOUS
  <1>1. /\ Cell(after, a) = Cell(image, a) /\ Cell(after, a + 1) = Cell(image, a + 1)
        /\ Cell(after, a + 2) = Cell(image, a + 2) /\ Cell(after, a + 3) = Cell(image, a + 3)
        /\ Cell(after, a + 4) = Cell(image, a + 4) /\ Cell(after, a + 4 + 1) = Cell(image, a + 4 + 1)
    BY <1>0
  <1>2. IntAt(after, a) = IntAt(image, a) /\ IntAt(after, a + 4) = IntAt(image, a + 4)
    BY <1>1 DEF IntAt
  <1> QED BY <1>1, <1>2, Zenon DEF TurnoutAt

LEMMA SameSensorAt ==
  ASSUME NEW image, NEW after, NEW a \in Int,
         \A k \in 0..3 : Cell(after, a + k) = Cell(image, a + k)
  PROVE  SensorAt(after, a) = SensorAt(image, a)
  <1>0. a + 0 = a
    OBVIOUS
  <1>1. /\ Cell(after, a) = Cell(image, a) /\ Cell(after, a + 1) = Cell(image, a + 1)
        /\ Cell(after, a + 2) = Cell(image, a + 2) /\ Cell(after, a + 3) = Cell(image, a + 3)
    BY <1>0
  <1>2. IntAt(after, a) = IntAt(image, a)
    BY <1>1 DEF IntAt
  <1> QED BY <1>1, <1>2, Zenon DEF SensorAt

\* As long as the header says the same.
LEMMA SameCounts ==
  ASSUME NEW image, NEW after, \A a \in 0..11 : Cell(after, a) = Cell(image, a)
  PROVE  /\ nTurnouts(after) = nTurnouts(image) /\ nSensors(after) = nSensors(image)
         /\ nOutputs(after) = nOutputs(image)
         /\ Valid(image) => Valid(after)
  <1>1. ASSUME NEW a \in {6, 8, 10} PROVE Count(after, a) = Count(image, a)
    <2>1. Cell(after, a) = Cell(image, a) /\ Cell(after, a + 1) = Cell(image, a + 1)
      OBVIOUS
    <2>2. IntAt(after, a) = IntAt(image, a)
      BY <2>1 DEF IntAt
    <2> QED BY <2>2 DEF Count
  <1>2. ASSUME NEW i \in 1..6 PROVE Cell(after, i - 1) = Cell(image, i - 1)
    <2>1. i - 1 \in 0..11
      OBVIOUS
    <2> QED BY <2>1
  <1> QED BY <1>1, <1>2 DEF nTurnouts, nSensors, nOutputs, Valid

LEMMA SameTurnouts ==
  ASSUME NEW image \in Image, NEW after \in Image, nTurnouts(after) = nTurnouts(image),
         \A a \in 12..(11 + 6 * nTurnouts(image)) : Cell(after, a) = Cell(image, a)
  PROVE  TurnoutsIn(after) = TurnoutsIn(image)
  <1> DEFINE t == nTurnouts(image)
  <1>1. t \in Nat
    BY CountTyped
  <1>2. ASSUME NEW i \in 1..t
        PROVE  TurnoutAt(after, HeaderSize + 6 * (i - 1)) = TurnoutAt(image, HeaderSize + 6 * (i - 1))
    <2> DEFINE a == HeaderSize + 6 * (i - 1)
    <2>1. a \in Int /\ 12 <= a /\ a + 5 <= 11 + 6 * t
      BY <1>1 DEF HeaderSize
    <2> HIDE DEF a, t
    <2>2. a \in Int
      BY <1>1, <2>1
    <2>3. \A k \in 0..5 : a + k \in 12..(11 + 6 * t)
      BY <1>1, <2>1
    <2>4. \A b \in 12..(11 + 6 * t) : Cell(after, b) = Cell(image, b)
      BY DEF t
    <2> QED BY <2>2, <2>3, <2>4, SameTurnoutAt DEF a
  <1> QED BY <1>2 DEF TurnoutsIn

LEMMA SameSensors ==
  ASSUME NEW image \in Image, NEW after \in Image,
         nTurnouts(after) = nTurnouts(image), nSensors(after) = nSensors(image),
         \A a \in 12..(11 + 6 * nTurnouts(image) + 4 * nSensors(image)) :
           Cell(after, a) = Cell(image, a)
  PROVE  SensorsIn(after) = SensorsIn(image)
  <1> DEFINE t == nTurnouts(image)
             s == nSensors(image)
  <1>1. t \in Nat /\ s \in Nat
    BY CountTyped
  <1>2. ASSUME NEW i \in 1..s
        PROVE  SensorAt(after, HeaderSize + 6 * t + 4 * (i - 1))
               = SensorAt(image, HeaderSize + 6 * t + 4 * (i - 1))
    <2> DEFINE a == HeaderSize + 6 * t + 4 * (i - 1)
    <2>1. a \in Int /\ 12 <= a /\ a + 3 <= 11 + 6 * t + 4 * s
      BY <1>1 DEF HeaderSize
    <2> HIDE DEF a, t, s
    <2>2. a \in Int
      BY <1>1, <2>1
    <2>3. \A k \in 0..3 : a + k \in 12..(11 + 6 * t + 4 * s)
      BY <1>1, <2>1
    <2>4. \A b \in 12..(11 + 6 * t + 4 * s) : Cell(after, b) = Cell(image, b)
      BY DEF t, s
    <2> QED BY <2>2, <2>3, <2>4, SameSensorAt DEF a
  <1> QED BY <1>2 DEF SensorsIn

\* The records of outputs do not overlap, and lie between the others and the
\* end of the records.
LEMMA OutputPlaces ==
  ASSUME NEW t \in Nat, NEW s \in Nat, NEW n \in Nat, NEW i \in 1..n
  PROVE  /\ OutputPlace(t, s, i) \in Nat /\ OutputPlace(t, s, i) >= 12 + 6 * t + 4 * s
         /\ OutputPlace(t, s, i) + 4 <= OutputPlace(t, s, n + 1)
         /\ \A j \in 1..n : j # i => \/ OutputPlace(t, s, j) + 4 <= OutputPlace(t, s, i)
                                     \/ OutputPlace(t, s, i) + 4 <= OutputPlace(t, s, j)
  BY DEF OutputPlace, HeaderSize

\* Two EEPROMs of the same layout: the same outputs, but for some states.
SameOutputs(image, after) ==
  /\ nOutputs(after) = nOutputs(image)
  /\ \A i \in 1..nOutputs(image) :
       /\ OutputsIn(after)[i].id = OutputsIn(image)[i].id
       /\ OutputsIn(after)[i].num = OutputsIn(image)[i].num
  /\ Newest(OutputsIn(after)) = Newest(OutputsIn(image))

LEMMA SameOutputIds ==
  ASSUME NEW image \in Image, NEW after \in Image,
         nTurnouts(after) = nTurnouts(image), nSensors(after) = nSensors(image),
         nOutputs(after) = nOutputs(image),
         \A i \in 1..nOutputs(image) :
           LET a == OutputPlace(nTurnouts(image), nSensors(image), i)
           IN Cell(after, a + 1) = Cell(image, a + 1)
  PROVE  SameOutputs(image, after)
  <1>1. DOMAIN OutputsIn(image) = 1..nOutputs(image) /\ DOMAIN OutputsIn(after) = 1..nOutputs(image)
    BY RecordsIn
  <1>2. ASSUME NEW i \in 1..nOutputs(image)
        PROVE  /\ OutputsIn(after)[i].id = OutputsIn(image)[i].id
               /\ OutputsIn(after)[i].num = OutputsIn(image)[i].num
    <2> DEFINE a == OutputPlace(nTurnouts(image), nSensors(image), i)
    <2>1. Cell(after, a + 1) = Cell(image, a + 1)
      OBVIOUS
    <2>2. /\ a = OutputPlace(nTurnouts(after), nSensors(after), i) /\ i \in 1..nOutputs(after)
      OBVIOUS
    <2> HIDE DEF a
    <2>3. OutputsIn(image)[i].id = Cell(image, a + 1) /\ OutputsIn(image)[i].num = a
      BY OutputIn DEF a
    <2>4. OutputsIn(after)[i].id = Cell(after, a + 1) /\ OutputsIn(after)[i].num = a
      BY <2>2, OutputIn
    <2> QED BY <2>1, <2>3, <2>4
  <1>3. Newest(OutputsIn(after)) = Newest(OutputsIn(image))
    BY <1>1, <1>2, SameNewest
  <1> QED BY <1>2, <1>3 DEF SameOutputs

\* A write behind the records disturbs nothing that is kept.
LEMMA SameKept ==
  ASSUME NEW image \in Image, Valid(image), NEW after \in Image,
         \A a \in 0..(RecordsEnd(image) - 1) : Cell(after, a) = Cell(image, a)
  PROVE  /\ nTurnouts(after) = nTurnouts(image) /\ nSensors(after) = nSensors(image)
         /\ Valid(after) /\ SameOutputs(image, after) /\ KeptIn(after) = KeptIn(image)
  <1> DEFINE t == nTurnouts(image)
             s == nSensors(image)
             n == nOutputs(image)
             end == RecordsEnd(image)
  <1>1. t \in Nat /\ s \in Nat /\ n \in Nat
    BY CountTyped
  <1>2. end = OutputPlace(t, s, n + 1) /\ end = 12 + 6 * t + 4 * s + 4 * n
    BY <1>1 DEF RecordsEnd, OutputPlace, HeaderSize
  <1>3. \A a \in 0..(end - 1) : Cell(after, a) = Cell(image, a)
    OBVIOUS
  <1> HIDE DEF end
  <1>4. /\ 0..11 \subseteq 0..(end - 1)
        /\ 12..(11 + 6 * t) \subseteq 0..(end - 1)
        /\ 12..(11 + 6 * t + 4 * s) \subseteq 0..(end - 1)
    <2> HIDE DEF t, s, n
    <2> QED BY <1>1, <1>2
  <1>5. /\ nTurnouts(after) = t /\ nSensors(after) = s /\ nOutputs(after) = n /\ Valid(after)
    <2>1. \A a \in 0..11 : Cell(after, a) = Cell(image, a)
      BY <1>3, <1>4
    <2> QED BY <2>1, SameCounts
  <1>6. TurnoutsIn(after) = TurnoutsIn(image)
    BY <1>3, <1>4, <1>5, SameTurnouts
  <1>7. SensorsIn(after) = SensorsIn(image)
    BY <1>3, <1>4, <1>5, SameSensors
  <1>8. ASSUME NEW i \in 1..n, NEW k \in 0..3
        PROVE  Cell(after, OutputPlace(t, s, i) + k) = Cell(image, OutputPlace(t, s, i) + k)
    <2> DEFINE a == OutputPlace(t, s, i)
    <2>1. a \in Nat /\ a + 4 <= end
      BY <1>1, <1>2, OutputPlaces
    <2> HIDE DEF a
    <2>2. end \in Int
      BY <1>1, <1>2
    <2>3. a + k \in 0..(end - 1)
      BY <2>1, <2>2
    <2> QED BY <1>3, <2>3 DEF a
  <1>9. ASSUME NEW i \in 1..n PROVE StoredAt(after, i) = StoredAt(image, i)
    <2> DEFINE a == OutputPlace(t, s, i)
    <2>1. a + 0 = a
      <3>1. a \in Nat
        BY <1>1, OutputPlaces
      <3> QED BY <3>1
    <2>2. /\ Cell(after, a + 0) = Cell(image, a + 0) /\ Cell(after, a + 1) = Cell(image, a + 1)
          /\ Cell(after, a + 2) = Cell(image, a + 2) /\ Cell(after, a + 3) = Cell(image, a + 3)
      BY <1>8
    <2> QED BY <1>5, <2>1, <2>2 DEF StoredAt
  <1>10. SameOutputs(image, after)
    BY <1>5, <1>8, SameOutputIds
  <1>11. Newest(OutputsIn(image)) \subseteq 1..n
    BY RecordsIn DEF Newest
  <1>12. KeptOutputs(after) = KeptOutputs(image)
    BY <1>9, <1>10, <1>11 DEF KeptOutputs, SameOutputs
  <1>13. KeptTurnouts(after) = KeptTurnouts(image) /\ KeptSensors(after) = KeptSensors(image)
    BY <1>6, <1>7 DEF KeptTurnouts, KeptSensors
  <1>14. KeptIn(after) = KeptIn(image)
    <2> DEFINE p == KeptIn(after)
               q == KeptIn(image)
    <2>1. /\ p = [k \in {"turnout", "sensor", "output"} |-> p[k]]
          /\ q = [k \in {"turnout", "sensor", "output"} |-> q[k]]
          /\ p["turnout"] = KeptTurnouts(after) /\ q["turnout"] = KeptTurnouts(image)
          /\ p["sensor"] = KeptSensors(after) /\ q["sensor"] = KeptSensors(image)
          /\ p["output"] = KeptOutputs(after) /\ q["output"] = KeptOutputs(image)
      BY <1>5, KeptSets
    <2> HIDE DEF p, q
    <2>2. \A k \in {"turnout", "sensor", "output"} : p[k] = q[k]
      BY <1>12, <1>13, <2>1
    <2>3. p = q
      BY <2>1, <2>2
    <2> QED BY <2>3 DEF p, q
  <1> QED BY <1>5, <1>10, <1>14

-----------------------------------------------------------------------------
(* What is read back is what was stored.                                   *)

\* The bytes lie at an address.
Holds(image, a, bytes) == \A k \in 1..Len(bytes) : Cell(image, a + k - 1) = bytes[k]

LEMMA IntBack ==
  ASSUME NEW image, NEW a \in Int, NEW w \in Word,
         Cell(image, a) = Int16(w)[1], Cell(image, a + 1) = Int16(w)[2]
  PROVE  IntAt(image, a) = w
  <1>1. w \in Int
    BY WordInt
  <1>2. Int16(w)[1] + 256 * Int16(w)[2] = w
    BY <1>1, Int16Bytes
  <1> QED BY <1>2 DEF IntAt

\* A turnout without its angles.
AsTurnout(id, tStatus, low, high) == [id |-> id, tStatus |-> tStatus, low |-> low, high |-> high]

LEMMA NoAngles ==
  ASSUME NEW id, NEW tStatus, NEW low, NEW high
  PROVE  [AsTurnout(id, tStatus, low, high) EXCEPT !.low = 0, !.high = 0]
         = AsTurnout(id, tStatus, 0, 0)
  <1>1. [AsTurnout(id, tStatus, low, high) EXCEPT !.low = 0] = AsTurnout(id, tStatus, 0, high)
    BY DEF AsTurnout
  <1>2. [AsTurnout(id, tStatus, 0, high) EXCEPT !.high = 0] = AsTurnout(id, tStatus, 0, 0)
    BY DEF AsTurnout
  <1>3. ASSUME NEW t
        PROVE  [t EXCEPT !.low = 0, !.high = 0] = [[t EXCEPT !.low = 0] EXCEPT !.high = 0]
    OBVIOUS
  <1> QED BY <1>1, <1>2, <1>3

LEMMA TurnoutBack ==
  ASSUME NEW image, NEW a \in Int, NEW t \in Turnout, Holds(image, a, TurnoutBytes(t))
  PROVE  TurnoutAt(image, a).id = t.id /\ WithoutAngles(TurnoutAt(image, a)) = WithoutAngles(t)
  <1> DEFINE bytes == TurnoutBytes(t)
  <1>1. /\ Len(bytes) = 6
        /\ bytes[1] = Int16(t.id)[1] /\ bytes[2] = Int16(t.id)[2]
        /\ bytes[3] = t.tStatus /\ bytes[4] = t.low
        /\ bytes[5] = Int16(t.high)[1] /\ bytes[6] = Int16(t.high)[2]
    BY TurnoutTyped
  <1>2. \A k \in 1..6 : Cell(image, a + k - 1) = bytes[k]
    BY <1>1 DEF Holds
  <1> HIDE DEF bytes
  <1>3. /\ a + 1 - 1 = a /\ a + 2 - 1 = a + 1 /\ a + 3 - 1 = a + 2 /\ a + 4 - 1 = a + 3
        /\ a + 5 - 1 = a + 4 /\ a + 6 - 1 = a + 4 + 1
    OBVIOUS
  <1>4. /\ Cell(image, a) = bytes[1] /\ Cell(image, a + 1) = bytes[2]
        /\ Cell(image, a + 2) = bytes[3] /\ Cell(image, a + 3) = bytes[4]
        /\ Cell(image, a + 4) = bytes[5] /\ Cell(image, a + 4 + 1) = bytes[6]
    BY <1>2, <1>3
  <1>5. t.id \in Word /\ t.high \in Word
    BY DEF Turnout
  <1>6. IntAt(image, a) = t.id
    BY <1>1, <1>4, <1>5, IntBack
  <1>7. IntAt(image, a + 4) = t.high
    BY <1>1, <1>4, <1>5, IntBack
  <1>8. t = [id |-> t.id, tStatus |-> t.tStatus, low |-> t.low, high |-> t.high]
    BY DEF Turnout
  <1>9. t = [id |-> IntAt(image, a), tStatus |-> Cell(image, a + 2),
             low |-> Cell(image, a + 3), high |-> IntAt(image, a + 4)]
    BY <1>1, <1>4, <1>6, <1>7, <1>8
  <1> DEFINE u == TurnoutAt(image, a)
  <1>10. u = IF Flag(t.tStatus, STATUS_PWM) = 0 THEN t
             ELSE [ServoTurnout(t.id, 0, t.high, Signed8(t.low)) EXCEPT !.tStatus = t.tStatus]
    BY <1>9, Zenon DEF TurnoutAt
  <1> HIDE DEF u
  <1>11. CASE Flag(t.tStatus, STATUS_PWM) = 0
    BY <1>10, <1>11 DEF u
  <1>12. CASE Flag(t.tStatus, STATUS_PWM) # 0
    <2> DEFINE low == (t.high - Signed8(t.low)) % 256
               high == Signed8(t.low) % 65536
    <2>1. u = AsTurnout(t.id, t.tStatus, low, high)
      BY <1>10, <1>12 DEF ServoTurnout, AsTurnout
    <2> HIDE DEF low, high
    <2>2. u.id = t.id /\ u.tStatus = t.tStatus
      BY <2>1 DEF AsTurnout
    <2>3. [u EXCEPT !.low = 0, !.high = 0] = AsTurnout(t.id, t.tStatus, 0, 0)
      BY <2>1, NoAngles
    <2>4. [t EXCEPT !.low = 0, !.high = 0] = AsTurnout(t.id, t.tStatus, 0, 0)
      <3> DEFINE i == t.id
                 status == t.tStatus
                 l == t.low
                 h == t.high
      <3>1. t = AsTurnout(i, status, l, h)
        BY <1>8 DEF AsTurnout
      <3> HIDE DEF i, status, l, h
      <3>2. [t EXCEPT !.low = 0, !.high = 0] = AsTurnout(i, status, 0, 0)
        BY <3>1, NoAngles
      <3> QED BY <3>2 DEF i, status
    <2> QED BY <1>12, <2>2, <2>3, <2>4 DEF WithoutAngles, u
  <1> QED BY <1>11, <1>12

LEMMA SensorBack ==
  ASSUME NEW image, NEW a \in Int, NEW s \in Sensor, Holds(image, a, SensorBytes(s))
  PROVE  SensorAt(image, a) = s
  <1> DEFINE bytes == SensorBytes(s)
  <1>1. /\ Len(bytes) = 4
        /\ bytes[1] = Int16(s.id)[1] /\ bytes[2] = Int16(s.id)[2]
        /\ bytes[3] = s.pin /\ bytes[4] = s.pullUp
    BY SensorTyped
  <1>2. \A k \in 1..4 : Cell(image, a + k - 1) = bytes[k]
    BY <1>1 DEF Holds
  <1> HIDE DEF bytes
  <1>3. a + 1 - 1 = a /\ a + 2 - 1 = a + 1 /\ a + 3 - 1 = a + 2 /\ a + 4 - 1 = a + 3
    OBVIOUS
  <1>4. /\ Cell(image, a) = bytes[1] /\ Cell(image, a + 1) = bytes[2]
        /\ Cell(image, a + 2) = bytes[3] /\ Cell(image, a + 3) = bytes[4]
    BY <1>2, <1>3
  <1>5. s.id \in Word /\ s.pullUp \in {0, 1}
    BY DEF Sensor
  <1>6. IntAt(image, a) = s.id
    BY <1>1, <1>4, <1>5, IntBack
  <1>7. (IF Cell(image, a + 3) = 0 THEN 0 ELSE 1) = s.pullUp
    BY <1>1, <1>4, <1>5
  <1>8. s = [id |-> s.id, pin |-> s.pin, pullUp |-> s.pullUp]
    BY DEF Sensor
  <1> QED BY <1>1, <1>4, <1>6, <1>7, <1>8 DEF SensorAt

LEMMA OutputBack ==
  ASSUME NEW image, NEW a \in Int, NEW o \in Output, Holds(image, a, OutputBytes(o))
  PROVE  /\ Cell(image, a) = o.oStatus /\ Cell(image, a + 1) = o.id
         /\ Cell(image, a + 2) = o.pin /\ Cell(image, a + 3) = o.iFlag
  <1> DEFINE bytes == OutputBytes(o)
  <1>1. /\ Len(bytes) = 4
        /\ bytes[1] = o.oStatus /\ bytes[2] = o.id /\ bytes[3] = o.pin /\ bytes[4] = o.iFlag
    BY OutputTyped
  <1>2. \A k \in 1..4 : Cell(image, a + k - 1) = bytes[k]
    BY <1>1 DEF Holds
  <1> HIDE DEF bytes
  <1>3. a + 1 - 1 = a /\ a + 2 - 1 = a + 1 /\ a + 3 - 1 = a + 2 /\ a + 4 - 1 = a + 3
    OBVIOUS
  <1> QED BY <1>1, <1>2, <1>3

\* A row of records that holds a list is read as that list.
LEMMA TurnoutsBack ==
  ASSUME NEW image \in Image, NEW ts \in List(Turnout), nTurnouts(image) = Len(ts),
         \A i \in 1..Len(ts) : Holds(image, HeaderSize + 6 * (i - 1), TurnoutBytes(ts[i]))
  PROVE  KeptTurnouts(image) = {WithoutAngles(t) : t \in ToSet(ts)}
  <1> DEFINE n == Len(ts)
             objects == TurnoutsIn(image)
  <1>1. n \in Nat /\ DOMAIN ts = 1..n /\ Apart(ts) /\ ts \in Seq(Turnout)
    BY DEF List
  <1>2. objects \in Seq(Turnout) /\ Len(objects) = n /\ DOMAIN objects = 1..n
    BY RecordsIn
  <1>3. ASSUME NEW i \in 1..n
        PROVE  objects[i].id = ts[i].id /\ WithoutAngles(objects[i]) = WithoutAngles(ts[i])
    <2>1. HeaderSize + 6 * (i - 1) \in Int
      BY DEF HeaderSize
    <2>2. objects[i] = TurnoutAt(image, HeaderSize + 6 * (i - 1))
      BY DEF TurnoutsIn
    <2>3. ts[i] \in Turnout
      BY <1>1, ElementOfSeq
    <2> QED BY <2>1, <2>2, <2>3, TurnoutBack
  <1> HIDE DEF objects
  <1>4. Newest(objects) = 1..n
    <2>1. Apart(objects)
      BY <1>1, <1>2, <1>3 DEF Apart
    <2> QED BY <1>2, <2>1, ApartNewest
  <1>5. KeptTurnouts(image) = {WithoutAngles(objects[i]) : i \in 1..n}
    BY <1>4 DEF KeptTurnouts, objects
  <1>6. {WithoutAngles(t) : t \in ToSet(ts)} = {WithoutAngles(ts[i]) : i \in 1..n}
    BY <1>1 DEF ToSet
  <1> QED BY <1>3, <1>5, <1>6

LEMMA SensorsBack ==
  ASSUME NEW image \in Image, NEW ss \in List(Sensor), nSensors(image) = Len(ss),
         \A i \in 1..Len(ss) :
           Holds(image, HeaderSize + 6 * nTurnouts(image) + 4 * (i - 1), SensorBytes(ss[i]))
  PROVE  KeptSensors(image) = ToSet(ss)
  <1> DEFINE n == Len(ss)
             objects == SensorsIn(image)
  <1>1. n \in Nat /\ DOMAIN ss = 1..n /\ Apart(ss) /\ ss \in Seq(Sensor)
    BY DEF List
  <1>2. objects \in Seq(Sensor) /\ Len(objects) = n /\ DOMAIN objects = 1..n
    BY RecordsIn
  <1>3. ASSUME NEW i \in 1..n PROVE objects[i] = ss[i]
    <2>1. HeaderSize + 6 * nTurnouts(image) + 4 * (i - 1) \in Int
      BY CountTyped DEF HeaderSize
    <2>2. objects[i] = SensorAt(image, HeaderSize + 6 * nTurnouts(image) + 4 * (i - 1))
      BY DEF SensorsIn
    <2>3. ss[i] \in Sensor
      BY <1>1, ElementOfSeq
    <2> QED BY <2>1, <2>2, <2>3, SensorBack
  <1> HIDE DEF objects
  <1>4. Newest(objects) = 1..n
    <2>1. Apart(objects)
      BY <1>1, <1>2, <1>3 DEF Apart
    <2> QED BY <1>2, <2>1, ApartNewest
  <1>5. KeptSensors(image) = {objects[i] : i \in 1..n}
    BY <1>4 DEF KeptSensors, objects
  <1>6. ToSet(ss) = {ss[i] : i \in 1..n}
    BY <1>1 DEF ToSet
  <1> QED BY <1>3, <1>5, <1>6

\* The newest of the outputs' records are all of them, one for each output.
LEMMA OutputsBack ==
  ASSUME NEW image \in Image, NEW os \in List(Output), nOutputs(image) = Len(os),
         \A i \in 1..Len(os) :
           Holds(image, OutputPlace(nTurnouts(image), nSensors(image), i), OutputBytes(os[i]))
  PROVE  /\ KeptOutputs(image) = {[o EXCEPT !.num = 0] : o \in ToSet(os)}
         /\ Newest(OutputsIn(image)) = 1..Len(os)
         /\ \A i \in 1..Len(os) : OutputsIn(image)[i].id = os[i].id
  <1> DEFINE n == Len(os)
             objects == OutputsIn(image)
  <1>1. n \in Nat /\ DOMAIN os = 1..n /\ Apart(os) /\ os \in Seq(Output)
    BY DEF List
  <1>2. objects \in Seq(Output) /\ Len(objects) = n /\ DOMAIN objects = 1..n
    BY RecordsIn
  <1>3. ASSUME NEW i \in 1..n
        PROVE  objects[i].id = os[i].id /\ StoredAt(image, i) = [os[i] EXCEPT !.num = 0]
    <2> DEFINE a == OutputPlace(nTurnouts(image), nSensors(image), i)
               o == os[i]
    <2>1. a \in Nat /\ objects[i].id = Cell(image, a + 1)
      <3>1. i \in 1..nOutputs(image)
        OBVIOUS
      <3> QED BY <3>1, OutputIn
    <2>2. o \in Output
      BY <1>1, ElementOfSeq
    <2>3. Holds(image, a, OutputBytes(o))
      OBVIOUS
    <2>4. StoredAt(image, i) = [oStatus |-> Cell(image, a), id |-> Cell(image, a + 1),
            pin |-> Cell(image, a + 2), iFlag |-> Cell(image, a + 3), num |-> 0]
      BY DEF StoredAt
    <2> HIDE DEF a, o
    <2>5. /\ Cell(image, a) = o.oStatus /\ Cell(image, a + 1) = o.id
          /\ Cell(image, a + 2) = o.pin /\ Cell(image, a + 3) = o.iFlag
      BY <2>1, <2>2, <2>3, OutputBack
    <2>6. [o EXCEPT !.num = 0] = WithPlace(o, 0)
      BY <2>2 DEF Output, WithPlace
    <2>7. StoredAt(image, i) = WithPlace(o, 0)
      BY <2>4, <2>5 DEF WithPlace
    <2>8. objects[i].id = o.id /\ StoredAt(image, i) = [o EXCEPT !.num = 0]
      BY <2>1, <2>5, <2>6, <2>7
    <2> QED BY <2>8 DEF o
  <1> HIDE DEF objects
  <1>4. Newest(objects) = 1..n
    <2>1. Apart(objects)
      BY <1>1, <1>2, <1>3 DEF Apart
    <2> QED BY <1>2, <2>1, ApartNewest
  <1>5. KeptOutputs(image) = {StoredAt(image, i) : i \in 1..n}
    BY <1>4 DEF KeptOutputs, objects
  <1>6. {[o EXCEPT !.num = 0] : o \in ToSet(os)} = {[os[i] EXCEPT !.num = 0] : i \in 1..n}
    BY <1>1 DEF ToSet
  <1>7. {StoredAt(image, i) : i \in 1..n} = {[os[i] EXCEPT !.num = 0] : i \in 1..n}
    BY <1>3
  <1>8. KeptOutputs(image) = {[o EXCEPT !.num = 0] : o \in ToSet(os)}
    BY <1>5, <1>6, <1>7, Zenon
  <1> QED BY <1>3, <1>4, <1>8 DEF objects

\* Nothing is kept of a kind that the header does not count, and something of
\* one that it does.
LEMMA NewestExists ==
  ASSUME NEW S, NEW objects \in Seq(S)
  PROVE  Newest(objects) = {} <=> Len(objects) = 0
  <1>1. Len(objects) \in Nat /\ DOMAIN objects = 1..Len(objects)
    OBVIOUS
  <1>2. CASE Len(objects) = 0
    BY <1>1, <1>2 DEF Newest
  <1>3. CASE Len(objects) # 0
    <2>1. objects # <<>>
      BY <1>3
    <2>2. Latest(objects) # {}
      BY <2>1, LatestExists
    <2> QED BY <1>3, <2>2, LatestNewest
  <1> QED BY <1>2, <1>3

LEMMA NoneKept ==
  ASSUME NEW image \in Image
  PROVE  /\ KeptTurnouts(image) = {} <=> nTurnouts(image) = 0
         /\ KeptSensors(image) = {} <=> nSensors(image) = 0
         /\ KeptOutputs(image) = {} <=> nOutputs(image) = 0
  <1>1. /\ TurnoutsIn(image) \in Seq(Turnout) /\ Len(TurnoutsIn(image)) = nTurnouts(image)
        /\ SensorsIn(image) \in Seq(Sensor) /\ Len(SensorsIn(image)) = nSensors(image)
        /\ OutputsIn(image) \in Seq(Output) /\ Len(OutputsIn(image)) = nOutputs(image)
    BY RecordsIn
  <1>2. Newest(TurnoutsIn(image)) = {} <=> nTurnouts(image) = 0
    BY <1>1, NewestExists
  <1>3. Newest(SensorsIn(image)) = {} <=> nSensors(image) = 0
    BY <1>1, NewestExists
  <1>4. Newest(OutputsIn(image)) = {} <=> nOutputs(image) = 0
    BY <1>1, NewestExists
  <1>5. KeptTurnouts(image) = {} <=> Newest(TurnoutsIn(image)) = {}
    BY DEF KeptTurnouts
  <1>6. KeptSensors(image) = {} <=> Newest(SensorsIn(image)) = {}
    BY DEF KeptSensors
  <1>7. KeptOutputs(image) = {} <=> Newest(OutputsIn(image)) = {}
    BY DEF KeptOutputs
  <1> QED BY <1>2, <1>3, <1>4, <1>5, <1>6, <1>7

-----------------------------------------------------------------------------
(* What a store leaves, whole or cut short.                                *)

\* A header with these counts.
IsHeader(h, t, s, o) ==
  /\ \A i \in 1..6 : h[i] = EESTORE_ID[i]
  /\ h[7] = Int16(t)[1] /\ h[8] = Int16(t)[2]
  /\ h[9] = Int16(s)[1] /\ h[10] = Int16(s)[2]
  /\ h[11] = Int16(o)[1] /\ h[12] = Int16(o)[2]

LEMMA HeaderIs ==
  ASSUME NEW t \in Nat, NEW s \in Nat, NEW o \in Nat
  PROVE  IsHeader(Header(t, s, o), t, s, o)
  BY HeaderBytes DEF IsHeader

\* No count takes more than a byte.
Small(image) == Cell(image, 7) = 0 /\ Cell(image, 9) = 0 /\ Cell(image, 11) = 0

LEMMA SmallCount ==
  ASSUME NEW image \in Image, Small(image)
  PROVE  /\ nTurnouts(image) = Cell(image, 6) /\ nSensors(image) = Cell(image, 8)
         /\ nOutputs(image) = Cell(image, 10)
  <1>1. ASSUME NEW a \in {6, 8, 10} PROVE Count(image, a) = Cell(image, a)
    <2>1. Cell(image, a + 1) = 0
      BY DEF Small
    <2>2. Cell(image, a) \in Int /\ 0 <= Cell(image, a) /\ Cell(image, a) <= 255
      BY CellTyped, ByteInt
    <2>3. IntAt(image, a) = Cell(image, a)
      BY <2>1, <2>2 DEF IntAt
    <2> QED BY <2>2, <2>3 DEF Count
  <1> QED BY <1>1 DEF nTurnouts, nSensors, nOutputs

LEMMA SmallHeader ==
  ASSUME NEW t \in Byte, NEW s \in Byte, NEW o \in Byte
  PROVE  /\ Header(t, s, o)[7] = t /\ Header(t, s, o)[8] = 0
         /\ Header(t, s, o)[9] = s /\ Header(t, s, o)[10] = 0
         /\ Header(t, s, o)[11] = o /\ Header(t, s, o)[12] = 0
         /\ \A i \in 1..6 : Header(t, s, o)[i] = EESTORE_ID[i]
  <1>1. ASSUME NEW n \in Byte PROVE Int16(n)[1] = n /\ Int16(n)[2] = 0
    <2>1. n \in Int /\ 0 <= n /\ n <= 255
      BY ByteInt
    <2>2. n % 256 = n /\ (n \div 256) % 256 = 0
      BY <2>1
    <2>3. Int16(n)[1] = n % 256 /\ Int16(n)[2] = (n \div 256) % 256
      BY <2>1, Int16Bytes, ZenonT(30)
    <2> QED BY <2>2, <2>3, Zenon
  <1>2. t \in Nat /\ s \in Nat /\ o \in Nat
    BY ByteInt
  <1>3. /\ Header(t, s, o)[7] = Int16(t)[1] /\ Header(t, s, o)[8] = Int16(t)[2]
        /\ Header(t, s, o)[9] = Int16(s)[1] /\ Header(t, s, o)[10] = Int16(s)[2]
        /\ Header(t, s, o)[11] = Int16(o)[1] /\ Header(t, s, o)[12] = Int16(o)[2]
    BY <1>2, HeaderBytes
  <1>4. \A i \in 1..6 : Header(t, s, o)[i] = EESTORE_ID[i]
    <2>1. IsHeader(Header(t, s, o), t, s, o)
      BY <1>2, HeaderIs
    <2> QED BY <2>1 DEF IsHeader
  <1> QED BY <1>1, <1>3, <1>4

LEMMA WrittenHeader ==
  ASSUME NEW image \in Image, Valid(image), Small(image), NEW after \in Image, NEW m \in Int,
         NEW t \in Byte, NEW s \in Byte, NEW o \in Byte,
         HeaderWritten(image, after, m, t, s, o)
  PROVE  /\ Valid(after) /\ Small(after)
         /\ nTurnouts(after) = IF m >= 7 THEN t ELSE nTurnouts(image)
         /\ nSensors(after) = IF m >= 9 THEN s ELSE nSensors(image)
         /\ nOutputs(after) = IF m >= 11 THEN o ELSE nOutputs(image)
  <1> DEFINE h == Header(t, s, o)
  <1>1. /\ h[7] = t /\ h[8] = 0 /\ h[9] = s /\ h[10] = 0 /\ h[11] = o /\ h[12] = 0
    BY SmallHeader
  <1>2. \A i \in 1..6 : h[i] = EESTORE_ID[i]
    BY SmallHeader
  <1>3. \A a \in 0..11 : Cell(after, a) = IF a < m THEN h[a + 1] ELSE Cell(image, a)
    BY DEF HeaderWritten
  <1> HIDE DEF h
  <1>4. ASSUME NEW i \in 1..6 PROVE Cell(after, i - 1) = EESTORE_ID[i]
    <2>1. i - 1 \in 0..11 /\ i - 1 + 1 = i
      OBVIOUS
    <2>2. Cell(after, i - 1) = h[i] \/ Cell(after, i - 1) = Cell(image, i - 1)
      BY <1>3, <2>1
    <2> QED BY <1>2, <2>2 DEF Valid
  <1>5. /\ Cell(after, 6) = IF m >= 7 THEN t ELSE Cell(image, 6)
        /\ Cell(after, 7) = IF m >= 8 THEN 0 ELSE Cell(image, 7)
        /\ Cell(after, 8) = IF m >= 9 THEN s ELSE Cell(image, 8)
        /\ Cell(after, 9) = IF m >= 10 THEN 0 ELSE Cell(image, 9)
        /\ Cell(after, 10) = IF m >= 11 THEN o ELSE Cell(image, 10)
        /\ Cell(after, 11) = IF m >= 12 THEN 0 ELSE Cell(image, 11)
    <2>1. /\ 6 \in 0..11 /\ 7 \in 0..11 /\ 8 \in 0..11 /\ 9 \in 0..11 /\ 10 \in 0..11 /\ 11 \in 0..11
      OBVIOUS
    <2> QED BY <1>1, <1>3, <2>1
  <1>6. Small(after)
    BY <1>5 DEF Small
  <1>7. /\ nTurnouts(after) = Cell(after, 6) /\ nSensors(after) = Cell(after, 8)
        /\ nOutputs(after) = Cell(after, 10)
        /\ nTurnouts(image) = Cell(image, 6) /\ nSensors(image) = Cell(image, 8)
        /\ nOutputs(image) = Cell(image, 10)
    BY <1>6, SmallCount
  <1> QED BY <1>4, <1>5, <1>6, <1>7 DEF Valid

\* Once the records are written, the bytes of each object are in its place.
LEMMA RecordsHeld ==
  ASSUME NEW image \in Image,
         NEW ts \in Seq(Turnout), NEW ss \in Seq(Sensor), NEW os \in Seq(Output),
         NEW t \in Nat, t = Len(ts), NEW s \in Nat, s = Len(ss), NEW n \in Nat, n = Len(os),
         NEW m \in Nat, m >= Len(Records(ts, ss, os)), OutputPlace(t, s, n + 1) <= Size
  PROVE  LET after == StoreBytes(image, ts, ss, os, m)
         IN /\ \A i \in 1..t : Holds(after, HeaderSize + 6 * (i - 1), TurnoutBytes(ts[i]))
            /\ \A i \in 1..s : Holds(after, HeaderSize + 6 * t + 4 * (i - 1), SensorBytes(ss[i]))
            /\ \A i \in 1..n : Holds(after, OutputPlace(t, s, i), OutputBytes(os[i]))
  <1>1. /\ Records(ts, ss, os) \in Seq(Byte)
        /\ Len(Records(ts, ss, os)) = 6 * t + 4 * s + 4 * n
        /\ \A i \in 1..t, k \in 1..6 :
             Records(ts, ss, os)[6 * (i - 1) + k] = TurnoutBytes(ts[i])[k]
        /\ \A i \in 1..s, k \in 1..4 :
             Records(ts, ss, os)[6 * t + 4 * (i - 1) + k] = SensorBytes(ss[i])[k]
        /\ \A i \in 1..n, k \in 1..4 :
             Records(ts, ss, os)[6 * t + 4 * s + 4 * (i - 1) + k] = OutputBytes(os[i])[k]
    <2>1. AreRecords(Records(ts, ss, os), ts, ss, os, t, s, n)
      BY RecordsBytes
    <2> QED BY <2>1 DEF AreRecords
  <1> DEFINE after == StoreBytes(image, ts, ss, os, m)
             all == Records(ts, ss, os)
             r == 6 * t + 4 * s + 4 * n
  <1>2. r \in Nat /\ r = Len(Records(ts, ss, os)) /\ m >= r /\ Size \in Nat /\ r + 12 <= Size
    <2>1. Size \in Nat
      BY StoreAssumption
    <2>2. r + 12 <= Size
      BY <2>1 DEF OutputPlace, HeaderSize
    <2> QED BY <1>1, <2>1, <2>2
  <1> HIDE DEF r
  <1>3. RecordsWritten(after, all, m, r)
    BY <1>2, StoredBytes
  <1> HIDE DEF after, all
  <1>4. \A b \in 1..r : Cell(after, 11 + b) = all[b]
    BY <1>2, <1>3 DEF RecordsWritten
  <1>5. ASSUME NEW i \in 1..t
        PROVE  Holds(after, HeaderSize + 6 * (i - 1), TurnoutBytes(ts[i]))
    <2>1. Len(TurnoutBytes(ts[i])) = 6
      BY ElementOfSeq, TurnoutTyped
    <2>2. ASSUME NEW k \in 1..6
          PROVE  Cell(after, HeaderSize + 6 * (i - 1) + k - 1) = TurnoutBytes(ts[i])[k]
      <3> DEFINE b == 6 * (i - 1) + k
      <3>1. b \in 1..r /\ HeaderSize + 6 * (i - 1) + k - 1 = 11 + b
        BY DEF r, HeaderSize
      <3>2. all[b] = TurnoutBytes(ts[i])[k]
        BY <1>1, Zenon DEF all
      <3> HIDE DEF b
      <3> QED BY <1>4, <3>1, <3>2
    <2> QED BY <2>1, <2>2 DEF Holds
  <1>6. ASSUME NEW i \in 1..s
        PROVE  Holds(after, HeaderSize + 6 * t + 4 * (i - 1), SensorBytes(ss[i]))
    <2>1. Len(SensorBytes(ss[i])) = 4
      BY ElementOfSeq, SensorTyped
    <2>2. ASSUME NEW k \in 1..4
          PROVE  Cell(after, HeaderSize + 6 * t + 4 * (i - 1) + k - 1) = SensorBytes(ss[i])[k]
      <3> DEFINE b == 6 * t + 4 * (i - 1) + k
      <3>1. b \in 1..r /\ HeaderSize + 6 * t + 4 * (i - 1) + k - 1 = 11 + b
        BY DEF r, HeaderSize
      <3>2. all[b] = SensorBytes(ss[i])[k]
        BY <1>1, Zenon DEF all
      <3> HIDE DEF b
      <3> QED BY <1>4, <3>1, <3>2
    <2> QED BY <2>1, <2>2 DEF Holds
  <1>7. ASSUME NEW i \in 1..n
        PROVE  Holds(after, OutputPlace(t, s, i), OutputBytes(os[i]))
    <2>1. Len(OutputBytes(os[i])) = 4
      BY ElementOfSeq, OutputTyped
    <2>2. ASSUME NEW k \in 1..4
          PROVE  Cell(after, OutputPlace(t, s, i) + k - 1) = OutputBytes(os[i])[k]
      <3> DEFINE b == 6 * t + 4 * s + 4 * (i - 1) + k
      <3>1. b \in 1..r /\ OutputPlace(t, s, i) + k - 1 = 11 + b
        BY DEF r, OutputPlace, HeaderSize
      <3>2. all[b] = OutputBytes(os[i])[k]
        BY <1>1, Zenon DEF all
      <3> HIDE DEF b
      <3> QED BY <1>4, <3>1, <3>2
    <2> QED BY <2>1, <2>2 DEF Holds
  <1> QED BY <1>5, <1>6, <1>7 DEF after

\* There is room for these lists.
RoomFor(ts, ss, os) ==
  /\ OutputPlace(Len(ts), Len(ss), Len(os) + 1) <= Size
  /\ Len(ts) < 256 /\ Len(ss) < 256 /\ Len(os) < 256

\* The header counts a list, and those before it, as the store wrote them.
Counted(image, t, s, n) ==
  nTurnouts(image) = t /\ nSensors(image) = s /\ nOutputs(image) = n

LEMMA StoreCounts ==
  ASSUME NEW image \in Image, Valid(image), Small(image),
         NEW ts \in List(Turnout), NEW ss \in List(Sensor), NEW os \in List(Output),
         RoomFor(ts, ss, os), NEW m \in Nat, NEW r \in Nat, r = Len(Records(ts, ss, os)),
         NEW after, after = StoreBytes(image, ts, ss, os, m)
  PROVE  /\ after \in Image /\ Valid(after) /\ Small(after)
         /\ Counted(after, IF m >= r + 7 THEN Len(ts) ELSE nTurnouts(image),
                           IF m >= r + 9 THEN Len(ss) ELSE nSensors(image),
                           IF m >= r + 11 THEN Len(os) ELSE nOutputs(image))
  <1>1. ts \in Seq(Turnout) /\ ss \in Seq(Sensor) /\ os \in Seq(Output)
    BY DEF List
  <1>3. after \in Image /\ HeaderWritten(image, after, m - r, Len(ts), Len(ss), Len(os))
    BY <1>1, StoredBytes
  <1> DEFINE t == Len(ts)
             s == Len(ss)
             n == Len(os)
             h == m - r
  <1>2. t \in Byte /\ s \in Byte /\ n \in Byte
    <2>1. t \in Nat /\ s \in Nat /\ n \in Nat
      BY <1>1
    <2>2. t < 256 /\ s < 256 /\ n < 256
      BY DEF RoomFor
    <2> HIDE DEF t, s, n
    <2> QED BY <2>1, <2>2 DEF Byte
  <1>4. h \in Int /\ HeaderWritten(image, after, h, t, s, n)
    BY <1>3
  <1> HIDE DEF t, s, n, h
  <1>5. /\ Valid(after) /\ Small(after)
        /\ nTurnouts(after) = IF h >= 7 THEN t ELSE nTurnouts(image)
        /\ nSensors(after) = IF h >= 9 THEN s ELSE nSensors(image)
        /\ nOutputs(after) = IF h >= 11 THEN n ELSE nOutputs(image)
    BY <1>2, <1>3, <1>4, WrittenHeader
  <1>6. (h >= 7 <=> m >= r + 7) /\ (h >= 9 <=> m >= r + 9) /\ (h >= 11 <=> m >= r + 11)
    BY DEF h
  <1> QED BY <1>3, <1>5, <1>6 DEF Counted, t, s, n

LEMMA StoreKeeps ==
  ASSUME NEW image \in Image,
         NEW ts \in List(Turnout), NEW ss \in List(Sensor), NEW os \in List(Output),
         RoomFor(ts, ss, os), NEW m \in Nat, m >= Len(Records(ts, ss, os)),
         NEW after, after = StoreBytes(image, ts, ss, os, m), after \in Image
  PROVE  /\ nTurnouts(after) = Len(ts) =>
              KeptTurnouts(after) = {WithoutAngles(t) : t \in ToSet(ts)}
         /\ nTurnouts(after) = Len(ts) /\ nSensors(after) = Len(ss) =>
              KeptSensors(after) = ToSet(ss)
         /\ Counted(after, Len(ts), Len(ss), Len(os)) =>
              /\ KeptOutputs(after) = {[o EXCEPT !.num = 0] : o \in ToSet(os)}
              /\ Newest(OutputsIn(after)) = 1..Len(os)
              /\ \A i \in 1..Len(os) : OutputsIn(after)[i].id = os[i].id
  <1> DEFINE t == Len(ts)
             s == Len(ss)
             n == Len(os)
  <1>1. ts \in Seq(Turnout) /\ ss \in Seq(Sensor) /\ os \in Seq(Output)
    BY DEF List
  <1>2. t \in Nat /\ s \in Nat /\ n \in Nat
    BY <1>1
  <1>3. OutputPlace(t, s, n + 1) <= Size
    BY DEF RoomFor
  <1>4. t = Len(ts) /\ s = Len(ss) /\ n = Len(os)
    OBVIOUS
  <1> HIDE DEF t, s, n
  <1>5. /\ \A i \in 1..t : Holds(after, HeaderSize + 6 * (i - 1), TurnoutBytes(ts[i]))
        /\ \A i \in 1..s : Holds(after, HeaderSize + 6 * t + 4 * (i - 1), SensorBytes(ss[i]))
        /\ \A i \in 1..n : Holds(after, OutputPlace(t, s, i), OutputBytes(os[i]))
    BY <1>1, <1>2, <1>3, <1>4, RecordsHeld
  <1>6. nTurnouts(after) = t => KeptTurnouts(after) = {WithoutAngles(u) : u \in ToSet(ts)}
    BY <1>4, <1>5, TurnoutsBack
  <1>7. nTurnouts(after) = t /\ nSensors(after) = s => KeptSensors(after) = ToSet(ss)
    BY <1>4, <1>5, SensorsBack
  <1>8. nTurnouts(after) = t /\ nSensors(after) = s /\ nOutputs(after) = n =>
          /\ KeptOutputs(after) = {[o EXCEPT !.num = 0] : o \in ToSet(os)}
          /\ Newest(OutputsIn(after)) = 1..n
          /\ \A i \in 1..n : OutputsIn(after)[i].id = os[i].id
    BY <1>4, <1>5, OutputsBack
  <1> QED BY <1>4, <1>6, <1>7, <1>8 DEF Counted

\* A state written to the record of an output changes that of no other.
LEMMA SwitchKeeps ==
  ASSUME NEW image \in Image, Valid(image), Small(image), RecordsEnd(image) <= Size,
         NEW i \in 1..nOutputs(image), NEW state \in Byte,
         NEW a, a = OutputPlace(nTurnouts(image), nSensors(image), i),
         NEW after, after = Put(image, a, <<state>>)
  PROVE  /\ after \in Image /\ Valid(after) /\ Small(after)
         /\ Counted(after, nTurnouts(image), nSensors(image), nOutputs(image))
         /\ SameOutputs(image, after)
         /\ KeptTurnouts(after) = KeptTurnouts(image) /\ KeptSensors(after) = KeptSensors(image)
         /\ StoredAt(after, i) = WithStatus(StoredAt(image, i), state)
         /\ \A j \in 1..nOutputs(image) : j # i => StoredAt(after, j) = StoredAt(image, j)
  <1> DEFINE t == nTurnouts(image)
             s == nSensors(image)
             n == nOutputs(image)
  <1>1. t \in Nat /\ s \in Nat /\ n \in Nat
    BY CountTyped
  <1>2. i \in 1..n /\ a = OutputPlace(t, s, i) /\ OutputPlace(t, s, n + 1) <= Size
    BY DEF RecordsEnd
  <1> HIDE DEF t, s, n
  <1>3. a \in Nat /\ a >= 12 + 6 * t + 4 * s /\ a + 4 <= Size /\ Size \in Nat
    <2>1. /\ a \in Nat /\ a >= 12 + 6 * t + 4 * s /\ a + 4 <= OutputPlace(t, s, n + 1)
      BY <1>1, <1>2, OutputPlaces
    <2>2. OutputPlace(t, s, n + 1) \in Int /\ Size \in Nat
      BY <1>1, StoreAssumption DEF OutputPlace, HeaderSize
    <2> QED BY <1>2, <2>1, <2>2
  <1>4. /\ after \in Image
        /\ \A b \in Int : Cell(after, b) = IF b = a THEN state ELSE Cell(image, b)
    <2>1. /\ Put(image, a, <<state>>) \in Image
          /\ \A b \in Int : Cell(Put(image, a, <<state>>), b) =
               IF b = a /\ a < Size THEN state ELSE Cell(image, b)
      BY <1>3, PutByte
    <2>2. a < Size
      BY <1>3
    <2> QED BY <2>1, <2>2
  <1>5. \A b \in 0..(11 + 6 * t + 4 * s) : Cell(after, b) = Cell(image, b)
    BY <1>1, <1>3, <1>4
  <1>6. /\ 0..11 \subseteq 0..(11 + 6 * t + 4 * s)
        /\ 12..(11 + 6 * t) \subseteq 0..(11 + 6 * t + 4 * s)
        /\ 12..(11 + 6 * t + 4 * s) \subseteq 0..(11 + 6 * t + 4 * s)
    BY <1>1
  <1>7. nTurnouts(after) = t /\ nSensors(after) = s /\ nOutputs(after) = n /\ Valid(after)
    <2>1. \A b \in 0..11 : Cell(after, b) = Cell(image, b)
      BY <1>5, <1>6
    <2> QED BY <2>1, SameCounts DEF t, s, n
  <1>8. Small(after)
    <2>1. 7 \in Int /\ 9 \in Int /\ 11 \in Int /\ 7 # a /\ 9 # a /\ 11 # a
      BY <1>1, <1>3
    <2> QED BY <1>4, <2>1 DEF Small
  <1>9. TurnoutsIn(after) = TurnoutsIn(image)
    <2>1. \A b \in 12..(11 + 6 * t) : Cell(after, b) = Cell(image, b)
      BY <1>5, <1>6
    <2> QED BY <1>4, <1>7, <2>1, SameTurnouts DEF t
  <1>10. SensorsIn(after) = SensorsIn(image)
    <2>1. \A b \in 12..(11 + 6 * t + 4 * s) : Cell(after, b) = Cell(image, b)
      BY <1>5, <1>6
    <2> QED BY <1>4, <1>7, <2>1, SameSensors DEF t, s
  <1>11. ASSUME NEW j \in 1..n
         PROVE  LET b == OutputPlace(t, s, j)
                IN /\ Cell(after, b) = IF j = i THEN state ELSE Cell(image, b)
                   /\ Cell(after, b + 1) = Cell(image, b + 1)
                   /\ Cell(after, b + 2) = Cell(image, b + 2)
                   /\ Cell(after, b + 3) = Cell(image, b + 3)
    <2> DEFINE b == OutputPlace(t, s, j)
    <2>1. b \in Nat /\ (j # i => b + 4 <= a \/ a + 4 <= b) /\ (j = i => b = a)
      BY <1>1, <1>2, OutputPlaces
    <2> HIDE DEF b
    <2>2. /\ b \in Int /\ (b = a <=> j = i)
          /\ b + 1 \in Int /\ b + 1 # a /\ b + 2 \in Int /\ b + 2 # a /\ b + 3 \in Int /\ b + 3 # a
      BY <1>3, <2>1
    <2>3. /\ Cell(after, b) = IF j = i THEN state ELSE Cell(image, b)
          /\ Cell(after, b + 1) = Cell(image, b + 1)
          /\ Cell(after, b + 2) = Cell(image, b + 2)
          /\ Cell(after, b + 3) = Cell(image, b + 3)
      BY <1>4, <2>2
    <2> QED BY <2>3 DEF b
  <1>12. SameOutputs(image, after)
    <2>1. \A j \in 1..nOutputs(image) :
            LET b == OutputPlace(nTurnouts(image), nSensors(image), j)
            IN Cell(after, b + 1) = Cell(image, b + 1)
      BY <1>11 DEF t, s, n
    <2> QED BY <1>4, <1>7, <2>1, SameOutputIds DEF t, s, n
  <1>13. ASSUME NEW j \in 1..n
         PROVE  StoredAt(after, j) = [oStatus |-> IF j = i THEN state ELSE StoredAt(image, j).oStatus,
                  id |-> StoredAt(image, j).id, pin |-> StoredAt(image, j).pin,
                  iFlag |-> StoredAt(image, j).iFlag, num |-> 0]
    <2> DEFINE b == OutputPlace(t, s, j)
    <2>1. StoredAt(image, j) = [oStatus |-> Cell(image, b), id |-> Cell(image, b + 1),
            pin |-> Cell(image, b + 2), iFlag |-> Cell(image, b + 3), num |-> 0]
      BY DEF StoredAt, t, s
    <2>2. StoredAt(after, j) = [oStatus |-> Cell(after, b), id |-> Cell(after, b + 1),
            pin |-> Cell(after, b + 2), iFlag |-> Cell(after, b + 3), num |-> 0]
      BY <1>7 DEF StoredAt
    <2>3. /\ Cell(after, b) = IF j = i THEN state ELSE Cell(image, b)
          /\ Cell(after, b + 1) = Cell(image, b + 1)
          /\ Cell(after, b + 2) = Cell(image, b + 2)
          /\ Cell(after, b + 3) = Cell(image, b + 3)
      BY <1>11
    <2> HIDE DEF b
    <2> QED BY <2>1, <2>2, <2>3
  <1>14. \A j \in 1..n : StoredAt(image, j) = [oStatus |-> StoredAt(image, j).oStatus,
                  id |-> StoredAt(image, j).id, pin |-> StoredAt(image, j).pin,
                  iFlag |-> StoredAt(image, j).iFlag, num |-> 0] /\ StoredAt(image, j).num = 0
    BY DEF StoredAt
  <1>15. StoredAt(after, i) = WithStatus(StoredAt(image, i), state)
    BY <1>2, <1>13, <1>14 DEF WithStatus
  <1>16. \A j \in 1..n : j # i => StoredAt(after, j) = StoredAt(image, j)
    BY <1>13, <1>14
  <1>17. KeptTurnouts(after) = KeptTurnouts(image) /\ KeptSensors(after) = KeptSensors(image)
    BY <1>9, <1>10 DEF KeptTurnouts, KeptSensors
  <1> QED BY <1>4, <1>7, <1>8, <1>12, <1>15, <1>16, <1>17 DEF Counted, t, s, n

-----------------------------------------------------------------------------
(* Retention's view of the lists and of the EEPROM.                        *)

\* Objects, kind by kind.
AsKinds(ts, ss, os) ==
  [k \in {"turnout", "sensor", "output"} |->
     CASE k = "turnout" -> ts [] k = "sensor" -> ss [] k = "output" -> os]

LEMMA KindsAre ==
  ASSUME NEW ts, NEW ss, NEW os
  PROVE  /\ AsKinds(ts, ss, os)["turnout"] = ts
         /\ AsKinds(ts, ss, os)["sensor"] = ss
         /\ AsKinds(ts, ss, os)["output"] = os
         /\ \A x : [AsKinds(ts, ss, os) EXCEPT !["output"] = x] = AsKinds(ts, ss, x)
         /\ \A x : [AsKinds(ts, ss, os) EXCEPT !["turnout"] = x] = AsKinds(x, ss, os)
  BY DEF AsKinds

LEMMA SameKinds ==
  ASSUME NEW p, p = [k \in {"turnout", "sensor", "output"} |-> p[k]]
  PROVE  p = AsKinds(p["turnout"], p["sensor"], p["output"])
  BY DEF AsKinds

TurnoutSet(ts) == {WithoutAngles(t) : t \in ToSet(ts)}
OutputSet(os) == {WithPlace(o, 0) : o \in ToSet(os)}
Links(os) == {o.id : o \in {p \in ToSet(os) : p.num # 0}}

LEMMA OutputParts ==
  ASSUME NEW o \in Output, NEW state \in Byte, NEW num \in Nat
  PROVE  /\ [o EXCEPT !.oStatus = state] = WithStatus(o, state)
         /\ [o EXCEPT !.num = num] = WithPlace(o, num)
         /\ WithStatus(o, state) \in Output /\ WithPlace(o, num) \in Output
         /\ WithStatus(o, state).id = o.id /\ WithStatus(o, state).num = o.num
         /\ WithPlace(o, num).id = o.id /\ WithPlace(o, num).num = num
         /\ WithPlace(WithStatus(o, state), num) = WithStatus(WithPlace(o, num), state)
         /\ \A m \in Nat : WithPlace(WithPlace(o, m), num) = WithPlace(o, num)
  <1>1. /\ [o EXCEPT !.oStatus = state] = WithStatus(o, state)
        /\ WithStatus(o, state) \in Output
    BY DEF Output, WithStatus
  <1>2. /\ [o EXCEPT !.num = num] = WithPlace(o, num)
        /\ WithPlace(o, num) \in Output
    BY DEF Output, WithPlace
  <1>3. /\ WithStatus(o, state).id = o.id /\ WithStatus(o, state).num = o.num
        /\ WithPlace(o, num).id = o.id /\ WithPlace(o, num).num = num
    BY DEF WithStatus, WithPlace
  <1>4. /\ WithPlace(WithStatus(o, state), num) = WithStatus(WithPlace(o, num), state)
        /\ \A m \in Nat : WithPlace(WithPlace(o, m), num) = WithPlace(o, num)
    BY DEF WithStatus, WithPlace
  <1> QED BY <1>1, <1>2, <1>3, <1>4

LEMMA DefsAre ==
  ASSUME NEW ts, NEW ss, NEW os \in Seq(Output)
  PROVE  Objects(ts, ss, os) = AsKinds(TurnoutSet(ts), ToSet(ss), OutputSet(os))
  <1> DEFINE p == Objects(ts, ss, os)
  <1>1. /\ p = [k \in {"turnout", "sensor", "output"} |-> p[k]]
        /\ p["turnout"] = TurnoutSet(ts) /\ p["sensor"] = ToSet(ss)
        /\ p["output"] = {[o EXCEPT !.num = 0] : o \in ToSet(os)}
    BY ObjectsOf DEF TurnoutSet
  <1>2. \A o \in ToSet(os) : [o EXCEPT !.num = 0] = WithPlace(o, 0)
    <2>1. \A o \in ToSet(os) : o \in Output
      BY DEF ToSet
    <2>2. 0 \in Nat /\ 0 \in Byte
      BY DEF Byte
    <2> QED BY <2>1, <2>2, OutputParts
  <1>3. p["output"] = OutputSet(os)
    BY <1>1, <1>2 DEF OutputSet
  <1> HIDE DEF p
  <1>4. p = AsKinds(TurnoutSet(ts), ToSet(ss), OutputSet(os))
    BY <1>1, <1>3, SameKinds
  <1> QED BY <1>4 DEF p

LEMMA KeptAre ==
  ASSUME NEW image \in Image, Valid(image)
  PROVE  KeptIn(image) = AsKinds(KeptTurnouts(image), KeptSensors(image), KeptOutputs(image))
  <1> DEFINE p == KeptIn(image)
  <1>1. /\ p = [k \in {"turnout", "sensor", "output"} |-> p[k]]
        /\ p["turnout"] = KeptTurnouts(image) /\ p["sensor"] = KeptSensors(image)
        /\ p["output"] = KeptOutputs(image)
    BY KeptSets
  <1> HIDE DEF p
  <1>2. p = AsKinds(p["turnout"], p["sensor"], p["output"])
    BY <1>1, SameKinds
  <1> QED BY <1>1, <1>2 DEF p

\* An output that has a place in the EEPROM has the record there that counts.
Points(image, o) ==
  \E i \in Newest(OutputsIn(image)) :
    OutputsIn(image)[i].id = o.id /\ OutputsIn(image)[i].num = o.num

\* So have all; or there are no records any more.
LinksHold(image, os) ==
  \/ Counted(image, 0, 0, 0)
  \/ \A o \in ToSet(os) : o.num # 0 => Points(image, o)

LEMMA SameLinks ==
  ASSUME NEW image \in Image, NEW after \in Image, NEW os, LinksHold(image, os),
         SameOutputs(image, after), nTurnouts(after) = nTurnouts(image),
         nSensors(after) = nSensors(image)
  PROVE  LinksHold(after, os)
  <1>1. CASE Counted(image, 0, 0, 0)
    BY <1>1 DEF LinksHold, Counted, SameOutputs
  <1>2. CASE \A o \in ToSet(os) : o.num # 0 => Points(image, o)
    <2> SUFFICES ASSUME NEW o \in ToSet(os), o.num # 0 PROVE Points(after, o)
      BY DEF LinksHold
    <2>1. PICK i \in Newest(OutputsIn(image)) :
            OutputsIn(image)[i].id = o.id /\ OutputsIn(image)[i].num = o.num
      BY <1>2 DEF Points
    <2>2. i \in 1..nOutputs(image)
      BY RecordsIn DEF Newest
    <2>3. /\ i \in Newest(OutputsIn(after)) /\ OutputsIn(after)[i].id = OutputsIn(image)[i].id
          /\ OutputsIn(after)[i].num = OutputsIn(image)[i].num
      BY <2>2 DEF SameOutputs
    <2> QED BY <2>1, <2>3 DEF Points
  <1> QED BY <1>1, <1>2 DEF LinksHold

\* What the refinement keeps: the EEPROM has its id and its small counts, kept
\* is what it holds, and the places of the outputs are right.
KeptInv ==
  /\ TypeOK /\ Valid(eeprom) /\ Small(eeprom) /\ kept = KeptIn(eeprom)
  /\ LinksHold(eeprom, outputs)

\* The EEPROM does not change, nor what it keeps.
LEMMA KeptStays ==
  ASSUME KeptInv, TypeOK', eeprom' = eeprom, LinksHold(eeprom', outputs'),
         kept' = IF eeprom' = eeprom THEN kept ELSE KeptIn(eeprom')
  PROVE  KeptInv' /\ kept' = kept
  BY Zenon DEF KeptInv

-----------------------------------------------------------------------------
(* Each step of the store is a step of Retention: the edits.               *)

\* What the steps say of kept.
KeptStep == kept' = IF eeprom' = eeprom THEN kept ELSE KeptIn(eeprom')

LEMMA KeptFollows ==
  ASSUME KeptInv, KeptStep
  PROVE  kept' = KeptIn(eeprom')
  <1>1. CASE eeprom' = eeprom
    BY <1>1 DEF KeptInv, KeptStep
  <1>2. CASE eeprom' # eeprom
    BY <1>2 DEF KeptStep
  <1> QED BY <1>1, <1>2

\* The lists as Retention sees them, before and after a step.
LEMMA DefsOf ==
  ASSUME TypeOK
  PROVE  Objects(turnouts, sensors, outputs)
         = AsKinds(TurnoutSet(turnouts), ToSet(sensors), OutputSet(outputs))
  BY DefsAre DEF TypeOK

LEMMA DefsAfter ==
  ASSUME TypeOK'
  PROVE  Objects(turnouts', sensors', outputs')
         = AsKinds(TurnoutSet(turnouts'), ToSet(sensors'), OutputSet(outputs'))
  <1>1. outputs' \in Seq(Output)
    BY DEF TypeOK
  <1> QED BY <1>1, DefsAre

LEMMA TurnoutSetEdited ==
  ASSUME NEW ts \in List(Turnout), NEW after, NEW id, Edited(Turnout, ts, after, id)
  PROVE  /\ Promise!Others(TurnoutSet(after), id) = Promise!Others(TurnoutSet(ts), id)
         /\ id \in Promise!Ids(TurnoutSet(ts)) \cup Promise!Ids(TurnoutSet(after))
  <1>1. \A t \in ToSet(ts) \cup ToSet(after) : WithoutAngles(t).id = t.id
    <2>1. after \in Seq(Turnout) /\ ts \in Seq(Turnout)
      BY DEF Edited, List
    <2>2. \A t \in ToSet(ts) \cup ToSet(after) : t \in Turnout
      BY <2>1 DEF ToSet
    <2> QED BY <2>2 DEF WithoutAngles, Turnout
  <1>2. \A t : t.id # id => (t \in ToSet(after) <=> t \in ToSet(ts))
    BY DEF Edited
  <1>3. PICK x \in ToSet(ts) \cup ToSet(after) : x.id = id
    BY DEF Edited
  <1>4. Promise!Others(TurnoutSet(after), id) = Promise!Others(TurnoutSet(ts), id)
    BY <1>1, <1>2 DEF TurnoutSet, Promise!Others
  <1>5. id \in Promise!Ids(TurnoutSet(ts)) \cup Promise!Ids(TurnoutSet(after))
    BY <1>1, <1>3 DEF TurnoutSet, Promise!Ids
  <1> QED BY <1>4, <1>5

\* A turnout is edited: kept stays, and so does the rest of the lists.
LEMMA TurnoutEdit ==
  ASSUME TypeOK, TypeOK', SomeEdited(Turnout, turnouts, turnouts'),
         UNCHANGED <<sensors, outputs, cuts, kept>>
  PROVE  Promise!Edit
  <1>1. turnouts \in List(Turnout)
    BY TypeOKLists
  <1>2. PICK id : Edited(Turnout, turnouts, turnouts', id)
    BY DEF SomeEdited
  <1> DEFINE old == Objects(turnouts, sensors, outputs)
             new == Objects(turnouts', sensors', outputs')
  <1>3. /\ old = AsKinds(TurnoutSet(turnouts), ToSet(sensors), OutputSet(outputs))
        /\ new = AsKinds(TurnoutSet(turnouts'), ToSet(sensors'), OutputSet(outputs'))
    BY DefsOf, DefsAfter
  <1> HIDE DEF old, new
  <1>4. /\ old["turnout"] = TurnoutSet(turnouts) /\ new["turnout"] = TurnoutSet(turnouts')
        /\ new["sensor"] = old["sensor"] /\ new["output"] = old["output"]
    BY <1>3, KindsAre
  <1>5. /\ Promise!Others(new["turnout"], id) = Promise!Others(old["turnout"], id)
        /\ id \in Promise!Ids(old["turnout"]) \cup Promise!Ids(new["turnout"])
    BY <1>1, <1>2, <1>4, TurnoutSetEdited
  <1>6. \A other \in Promise!Kinds \ {"turnout"} : new[other] = old[other]
    BY <1>4 DEF Promise!Kinds
  <1>7. "turnout" \in Promise!Kinds /\ "turnout" # "output"
    BY DEF Promise!Kinds
  <1>8. Links(outputs') = Links(outputs)
    OBVIOUS
  <1> QED BY <1>5, <1>6, <1>7, <1>8 DEF Promise!Edit, old, new, Links

LEMMA SensorEdit ==
  ASSUME TypeOK, TypeOK', SomeEdited(Sensor, sensors, sensors'),
         UNCHANGED <<turnouts, outputs, cuts, kept>>
  PROVE  Promise!Edit
  <1>1. PICK id : Edited(Sensor, sensors, sensors', id)
    BY DEF SomeEdited
  <1> DEFINE old == Objects(turnouts, sensors, outputs)
             new == Objects(turnouts', sensors', outputs')
  <1>2. /\ old = AsKinds(TurnoutSet(turnouts), ToSet(sensors), OutputSet(outputs))
        /\ new = AsKinds(TurnoutSet(turnouts'), ToSet(sensors'), OutputSet(outputs'))
    BY DefsOf, DefsAfter
  <1> HIDE DEF old, new
  <1>3. /\ old["sensor"] = ToSet(sensors) /\ new["sensor"] = ToSet(sensors')
        /\ new["turnout"] = old["turnout"] /\ new["output"] = old["output"]
    BY <1>2, KindsAre
  <1>4. /\ Promise!Others(new["sensor"], id) = Promise!Others(old["sensor"], id)
        /\ id \in Promise!Ids(old["sensor"]) \cup Promise!Ids(new["sensor"])
    BY <1>1, <1>3 DEF Edited, Promise!Others, Promise!Ids
  <1>5. \A other \in Promise!Kinds \ {"sensor"} : new[other] = old[other]
    BY <1>3 DEF Promise!Kinds
  <1>6. "sensor" \in Promise!Kinds /\ "sensor" # "output"
    BY DEF Promise!Kinds
  <1>7. Links(outputs') = Links(outputs)
    OBVIOUS
  <1> QED BY <1>4, <1>5, <1>6, <1>7 DEF Promise!Edit, old, new, Links

\* An output is edited: what its links do is for the caller to show.
LEMMA OutputEdit ==
  ASSUME TypeOK, TypeOK', UNCHANGED <<turnouts, sensors, cuts, kept>>, NEW id,
         Promise!Others(OutputSet(outputs'), id) = Promise!Others(OutputSet(outputs), id),
         id \in Promise!Ids(OutputSet(outputs)) \cup Promise!Ids(OutputSet(outputs')),
         Links(outputs') =
           IF id \notin Promise!Ids(OutputSet(outputs)) \cap Promise!Ids(OutputSet(outputs'))
           THEN Links(outputs) \ {id} ELSE Links(outputs)
  PROVE  Promise!Edit
  <1> DEFINE old == Objects(turnouts, sensors, outputs)
             new == Objects(turnouts', sensors', outputs')
  <1>1. /\ old = AsKinds(TurnoutSet(turnouts), ToSet(sensors), OutputSet(outputs))
        /\ new = AsKinds(TurnoutSet(turnouts'), ToSet(sensors'), OutputSet(outputs'))
    BY DefsOf, DefsAfter
  <1> HIDE DEF old, new
  <1>2. /\ old["output"] = OutputSet(outputs) /\ new["output"] = OutputSet(outputs')
        /\ new["turnout"] = old["turnout"] /\ new["sensor"] = old["sensor"]
    BY <1>1, KindsAre
  <1>3. \A other \in Promise!Kinds \ {"output"} : new[other] = old[other]
    BY <1>2 DEF Promise!Kinds
  <1>4. "output" \in Promise!Kinds
    BY DEF Promise!Kinds
  <1> QED BY <1>2, <1>3, <1>4 DEF Promise!Edit, old, new, Links

LEMMA OutputSetIn ==
  ASSUME NEW os \in Seq(Output)
  PROVE  /\ \A o \in ToSet(os) : /\ o \in Output /\ WithPlace(o, 0) \in OutputSet(os)
                                 /\ WithPlace(o, 0).id = o.id
         /\ \A x \in OutputSet(os) : \E o \in ToSet(os) : x = WithPlace(o, 0) /\ x.id = o.id
  <1>1. \A o \in ToSet(os) : o \in Output
    BY DEF ToSet
  <1>2. \A o : WithPlace(o, 0).id = o.id
    BY DEF WithPlace
  <1> QED BY <1>1, <1>2 DEF OutputSet

LEMMA ApartSet ==
  ASSUME NEW S, NEW list \in List(S), NEW x \in ToSet(list), NEW y \in ToSet(list), x.id = y.id
  PROVE  x = y
  BY DEF ToSet, List, Apart

\* <Z id pin iflag>: a new output is linked to no record, and one that is
\* defined again stays linked.
LEMMA DefineStep ==
  ASSUME OutputIdsFit, KeptInv, TypeOK', KeptStep, DefineOutput
  PROVE  KeptInv' /\ Promise!Edit
  <1>1. PICK o : Redefined(outputs, outputs', o)
    BY OutputDefined DEF KeptInv
  <1>2. UNCHANGED <<turnouts, sensors, eeprom, cuts>>
    BY OutputDefined DEF KeptInv
  <1>3. /\ outputs \in List(Output) /\ outputs' \in List(Output) /\ o \in Output
        /\ ToSet(outputs') = {o} \cup {x \in ToSet(outputs) : x.id # o.id}
        /\ \/ o.num = 0 /\ \A x \in ToSet(outputs) : x.id # o.id
           \/ \E x \in ToSet(outputs) : x.id = o.id /\ x.num = o.num
    BY <1>1, TypeOKLists DEF KeptInv, Redefined
  <1>4. outputs \in Seq(Output) /\ outputs' \in Seq(Output)
    BY <1>3 DEF List
  <1>5. LinksHold(eeprom', outputs')
    <2>1. CASE Counted(eeprom, 0, 0, 0)
      BY <1>2, <2>1 DEF LinksHold
    <2>2. CASE \A x \in ToSet(outputs) : x.num # 0 => Points(eeprom, x)
      <3> SUFFICES ASSUME NEW x \in ToSet(outputs'), x.num # 0 PROVE Points(eeprom, x)
        BY <1>2 DEF LinksHold
      <3>1. CASE x = o
        <4>1. PICK y \in ToSet(outputs) : y.id = o.id /\ y.num = o.num
          BY <1>3, <3>1
        <4>2. Points(eeprom, y)
          BY <2>2, <3>1, <4>1
        <4> QED BY <3>1, <4>1, <4>2 DEF Points
      <3>2. CASE x \in ToSet(outputs)
        BY <2>2, <3>2
      <3> QED BY <1>3, <3>1, <3>2
    <2> QED BY <2>1, <2>2 DEF KeptInv, LinksHold
  <1>6. KeptInv' /\ kept' = kept
    BY <1>2, <1>5, KeptStays DEF KeptStep
  <1>7. Promise!Others(OutputSet(outputs'), o.id) = Promise!Others(OutputSet(outputs), o.id)
    <2>1. \A x : x.id # o.id => (x \in ToSet(outputs') <=> x \in ToSet(outputs))
      BY <1>3
    <2>2. \A x : WithPlace(x, 0).id = x.id
      BY DEF WithPlace
    <2> QED BY <2>1, <2>2 DEF OutputSet, Promise!Others
  <1>8. o.id \in Promise!Ids(OutputSet(outputs'))
    <2>1. o \in ToSet(outputs')
      BY <1>3
    <2>2. WithPlace(o, 0) \in OutputSet(outputs') /\ WithPlace(o, 0).id = o.id
      BY <1>4, <2>1, OutputSetIn
    <2> QED BY <2>2 DEF Promise!Ids
  <1>9. CASE o.num = 0 /\ \A x \in ToSet(outputs) : x.id # o.id
    <2>1. o.id \notin Promise!Ids(OutputSet(outputs))
      BY <1>4, <1>9, OutputSetIn DEF Promise!Ids
    <2>2. Links(outputs') = Links(outputs) \ {o.id}
      BY <1>3, <1>9 DEF Links
    <2> QED BY <1>2, <1>6, <1>7, <1>8, <2>1, <2>2, OutputEdit DEF KeptInv
  <1>10. CASE \E x \in ToSet(outputs) : x.id = o.id /\ x.num = o.num
    <2>1. PICK x \in ToSet(outputs) : x.id = o.id /\ x.num = o.num
      BY <1>10
    <2>2. o.id \in Promise!Ids(OutputSet(outputs))
      <3>1. WithPlace(x, 0) \in OutputSet(outputs) /\ WithPlace(x, 0).id = o.id
        BY <1>4, <2>1, OutputSetIn
      <3> QED BY <3>1 DEF Promise!Ids
    <2>3. \A y \in ToSet(outputs) : y.id = o.id => y.num = o.num
      BY <1>3, <2>1, ApartSet
    <2>4. Links(outputs') = Links(outputs)
      BY <1>3, <2>1, <2>3 DEF Links
    <2> QED BY <1>2, <1>6, <1>7, <1>8, <2>2, <2>4, OutputEdit DEF KeptInv
  <1> QED BY <1>3, <1>9, <1>10

\* <Z id>: nor is a removed one linked any more.
LEMMA RemoveStep ==
  ASSUME KeptInv, TypeOK', KeptStep, RemoveOutput
  PROVE  KeptInv' /\ Promise!Edit
  <1>1. PICK id : Removed(outputs, outputs', id)
    BY OutputRemoved DEF KeptInv
  <1>2. UNCHANGED <<turnouts, sensors, eeprom, cuts>>
    BY OutputRemoved DEF KeptInv
  <1>3. /\ outputs \in List(Output) /\ outputs' \in List(Output)
        /\ \E x \in ToSet(outputs) : x.id = id
        /\ ToSet(outputs') = {x \in ToSet(outputs) : x.id # id}
    BY <1>1, TypeOKLists DEF KeptInv, Removed
  <1>4. outputs \in Seq(Output) /\ outputs' \in Seq(Output)
    BY <1>3 DEF List
  <1>5. LinksHold(eeprom', outputs')
    BY <1>2, <1>3 DEF KeptInv, LinksHold
  <1>6. KeptInv' /\ kept' = kept
    BY <1>2, <1>5, KeptStays DEF KeptStep
  <1>7. Promise!Others(OutputSet(outputs'), id) = Promise!Others(OutputSet(outputs), id)
    <2>1. \A x : x.id # id => (x \in ToSet(outputs') <=> x \in ToSet(outputs))
      BY <1>3
    <2>2. \A x : WithPlace(x, 0).id = x.id
      BY DEF WithPlace
    <2> QED BY <2>1, <2>2 DEF OutputSet, Promise!Others
  <1>8. id \in Promise!Ids(OutputSet(outputs))
    <2>1. PICK x \in ToSet(outputs) : x.id = id
      BY <1>3
    <2>2. WithPlace(x, 0) \in OutputSet(outputs) /\ WithPlace(x, 0).id = id
      BY <1>4, <2>1, OutputSetIn
    <2> QED BY <2>2 DEF Promise!Ids
  <1>9. id \notin Promise!Ids(OutputSet(outputs'))
    BY <1>3, <1>4, OutputSetIn DEF Promise!Ids
  <1>10. Links(outputs') = Links(outputs) \ {id}
    BY <1>3 DEF Links
  <1> QED BY <1>2, <1>6, <1>7, <1>8, <1>9, <1>10, OutputEdit DEF KeptInv

\* The list of outputs when one is switched.
LEMMA SwitchedSet ==
  ASSUME NEW list \in List(Output), NEW after, NEW o, NEW state, Switched(list, after, o, state)
  PROVE  /\ OutputSet(after) = Promise!Set(OutputSet(list), o.id, state)
         /\ Links(after) = Links(list)
         /\ Promise!Others(OutputSet(after), o.id) = Promise!Others(OutputSet(list), o.id)
         /\ o.id \in Promise!Ids(OutputSet(list)) /\ o.id \in Promise!Ids(OutputSet(after))
  <1>1. /\ o \in ToSet(list) /\ o \in Output /\ state \in {0, 1} /\ after \in Seq(Output)
        /\ list \in Seq(Output)
        /\ ToSet(after) = {WithStatus(o, state)} \cup {x \in ToSet(list) : x.id # o.id}
    BY DEF Switched, List
  <1> DEFINE new == WithStatus(o, state)
             kind == WithPlace(o, 0)
  <1>2. state \in Byte /\ 0 \in Nat
    BY <1>1, SmallByte
  <1>3. /\ new.id = o.id /\ new.num = o.num /\ kind.id = o.id /\ kind \in Output
        /\ WithPlace(new, 0) = WithStatus(kind, state)
        /\ [kind EXCEPT !.oStatus = state] = WithStatus(kind, state)
        /\ WithStatus(kind, state).id = o.id
    BY <1>1, <1>2, OutputParts
  <1>4. \A x \in ToSet(list) : x.id = o.id => x = o
    BY <1>1, ApartSet
  <1>5. Links(after) = Links(list)
    <2>1. ToSet(after) = {new} \cup {x \in ToSet(list) : x.id # o.id}
      BY <1>1
    <2> HIDE DEF new, kind
    <2> QED BY <1>1, <1>3, <1>4, <2>1 DEF Links
  <1>6. \A x : WithPlace(x, 0).id = x.id
    BY DEF WithPlace
  <1>7. Promise!Others(OutputSet(after), o.id) = Promise!Others(OutputSet(list), o.id)
    <2>1. \A x : x.id # o.id => (x \in ToSet(after) <=> x \in ToSet(list))
      BY <1>1, <1>3
    <2> QED BY <1>6, <2>1 DEF OutputSet, Promise!Others
  <1>8. OutputSet(after) = {WithStatus(kind, state)} \cup Promise!Others(OutputSet(list), o.id)
    <2>1. ToSet(after) = {new} \cup {x \in ToSet(list) : x.id # o.id}
      BY <1>1
    <2> HIDE DEF new, kind
    <2> QED BY <1>3, <1>6, <2>1 DEF OutputSet, Promise!Others
  <1>9. OutputSet(list) \ Promise!Others(OutputSet(list), o.id) = {kind}
    <2>1. kind \in OutputSet(list)
      BY <1>1 DEF OutputSet
    <2>2. \A x \in OutputSet(list) : x.id = o.id => x = kind
      BY <1>4, <1>6 DEF OutputSet
    <2> HIDE DEF kind
    <2> QED BY <1>3, <2>1, <2>2 DEF Promise!Others
  <1>10. o.id \in Promise!Ids(OutputSet(list)) /\ o.id \in Promise!Ids(OutputSet(after))
    <2>1. kind \in OutputSet(list) /\ WithStatus(kind, state) \in OutputSet(after)
      BY <1>8, <1>9
    <2> HIDE DEF kind
    <2> QED BY <1>3, <2>1 DEF Promise!Ids
  <1>11. OutputSet(after) = Promise!Set(OutputSet(list), o.id, state)
    <2> HIDE DEF kind
    <2> QED BY <1>3, <1>8, <1>9 DEF Promise!Set
  <1> QED BY <1>5, <1>7, <1>10, <1>11

-----------------------------------------------------------------------------
(* Each step of the store is a step of Retention: the writes.              *)

\* A byte written behind the records.
LEMMA ByteBehind ==
  ASSUME NEW image \in Image, Valid(image), Small(image), NEW at \in Nat,
         RecordsEnd(image) <= at, NEW b \in Byte, NEW after, after = Put(image, at, <<b>>)
  PROVE  /\ after \in Image /\ Valid(after) /\ Small(after) /\ KeptIn(after) = KeptIn(image)
         /\ nTurnouts(after) = nTurnouts(image) /\ nSensors(after) = nSensors(image)
         /\ SameOutputs(image, after)
  <1>2. /\ after \in Image
        /\ \A a \in Int : a # at => Cell(after, a) = Cell(image, a)
    <2>1. /\ Put(image, at, <<b>>) \in Image
          /\ \A a \in Int : Cell(Put(image, at, <<b>>), a) =
               IF a = at /\ at < Size THEN b ELSE Cell(image, a)
      BY PutByte
    <2> QED BY <2>1
  <1>3. RecordsEnd(image) \in Nat /\ RecordsEnd(image) >= 12
    <2>1. nTurnouts(image) \in Nat /\ nSensors(image) \in Nat /\ nOutputs(image) \in Nat
      BY CountTyped
    <2> QED BY <2>1 DEF RecordsEnd, OutputPlace, HeaderSize
  <1>4. \A a \in 0..(RecordsEnd(image) - 1) : Cell(after, a) = Cell(image, a)
    <2> SUFFICES ASSUME NEW a \in 0..(RecordsEnd(image) - 1) PROVE Cell(after, a) = Cell(image, a)
      OBVIOUS
    <2>1. a \in Int /\ a # at
      BY <1>3
    <2> QED BY <1>2, <2>1
  <1>5. Small(after)
    <2>1. /\ 7 \in 0..(RecordsEnd(image) - 1) /\ 9 \in 0..(RecordsEnd(image) - 1)
          /\ 11 \in 0..(RecordsEnd(image) - 1)
      BY <1>3
    <2> QED BY <1>4, <2>1 DEF Small
  <1> QED BY <1>2, <1>4, <1>5, SameKept

\* PTA: Turnout::activate(int, bool) writes behind the records.
LEMMA ThrowStep ==
  ASSUME KeptInv, Room, TypeOK', KeptStep, ThrowTurnout
  PROVE  KeptInv' /\ Promise!Edit
  <1>1. /\ SomeEdited(Turnout, turnouts, turnouts') /\ UNCHANGED <<sensors, outputs, cuts>>
        /\ \E id \in TurnoutIds, b \in Byte : eeprom' = Put(eeprom, id, <<b>>)
    BY TurnoutThrown DEF KeptInv
  <1>2. PICK id \in TurnoutIds, b \in Byte : eeprom' = Put(eeprom, id, <<b>>)
    BY <1>1
  <1>3. id \in Nat /\ RecordsEnd(eeprom) <= id /\ eeprom \in Image
    <2>1. id \in PositiveInt
      BY StoreAssumption
    <2>2. RecordsEnd(eeprom) \in Int
      <3>1. eeprom \in Image
        BY TypeOKLists DEF KeptInv
      <3>2. nTurnouts(eeprom) \in Nat /\ nSensors(eeprom) \in Nat /\ nOutputs(eeprom) \in Nat
        BY <3>1, CountTyped
      <3> QED BY <3>2 DEF RecordsEnd, OutputPlace, HeaderSize
    <2>3. id \in Int /\ 1 <= id
      BY <2>1, IdInt
    <2>4. id >= RecordsEnd(eeprom)
      BY DEF Room
    <2> QED BY <2>2, <2>3, <2>4, TypeOKLists DEF KeptInv
  <1>4. /\ eeprom' \in Image /\ Valid(eeprom') /\ Small(eeprom')
        /\ KeptIn(eeprom') = KeptIn(eeprom)
        /\ nTurnouts(eeprom') = nTurnouts(eeprom) /\ nSensors(eeprom') = nSensors(eeprom)
        /\ SameOutputs(eeprom, eeprom')
    BY <1>2, <1>3, ByteBehind DEF KeptInv
  <1>5. LinksHold(eeprom', outputs')
    <2>1. LinksHold(eeprom', outputs)
      BY <1>3, <1>4, SameLinks DEF KeptInv
    <2> QED BY <1>1, <2>1
  <1>6. kept' = KeptIn(eeprom')
    BY KeptFollows
  <1>7. KeptInv'
    BY <1>4, <1>5, <1>6 DEF KeptInv
  <1>8. kept' = kept
    BY <1>4, <1>6 DEF KeptInv
  <1> QED BY <1>1, <1>7, <1>8, TurnoutEdit DEF KeptInv

\* A state set on an output that has no record.
LEMMA SwitchUnstored ==
  ASSUME KeptInv, TypeOK', KeptStep, NEW o, NEW state,
         Switched(outputs, outputs', o, state), o.num = 0, eeprom' = eeprom,
         UNCHANGED <<turnouts, sensors, cuts>>
  PROVE  KeptInv' /\ Promise!Edit
  <1>1. outputs \in List(Output)
    BY TypeOKLists DEF KeptInv
  <1>2. LinksHold(eeprom', outputs')
    <2>1. ToSet(outputs') = {WithStatus(o, state)} \cup {x \in ToSet(outputs) : x.id # o.id}
      BY DEF Switched
    <2>2. WithStatus(o, state).num = 0
      BY DEF WithStatus
    <2> QED BY <2>1, <2>2 DEF KeptInv, LinksHold
  <1>3. KeptInv' /\ kept' = kept
    BY <1>2, KeptStays DEF KeptStep
  <1>4. /\ Links(outputs') = Links(outputs)
        /\ Promise!Others(OutputSet(outputs'), o.id) = Promise!Others(OutputSet(outputs), o.id)
        /\ o.id \in Promise!Ids(OutputSet(outputs)) /\ o.id \in Promise!Ids(OutputSet(outputs'))
    BY <1>1, SwitchedSet
  <1> QED BY <1>3, <1>4, OutputEdit DEF KeptInv

\* The outputs that are linked to a record, after one of them was switched.
LEMMA SwitchedLinks ==
  ASSUME NEW image, NEW list, NEW after, NEW o, NEW state, Switched(list, after, o, state),
         LinksHold(image, list)
  PROVE  LinksHold(image, after)
  <1>1. /\ o \in ToSet(list)
        /\ ToSet(after) = {WithStatus(o, state)} \cup {x \in ToSet(list) : x.id # o.id}
    BY DEF Switched
  <1>2. WithStatus(o, state).num = o.num /\ WithStatus(o, state).id = o.id
    BY DEF WithStatus
  <1>3. Points(image, o) => Points(image, WithStatus(o, state))
    BY <1>2 DEF Points
  <1> QED BY <1>1, <1>2, <1>3 DEF LinksHold

\* What an EEPROM keeps of outputs, after one record got another state.
LEMMA KeptSwitched ==
  ASSUME NEW image \in Image, NEW after \in Image, SameOutputs(image, after),
         NEW state \in Byte, NEW i \in Newest(OutputsIn(image)),
         StoredAt(after, i) = WithStatus(StoredAt(image, i), state),
         \A j \in 1..nOutputs(image) : j # i => StoredAt(after, j) = StoredAt(image, j)
  PROVE  KeptOutputs(after) = Promise!Set(KeptOutputs(image), OutputsIn(image)[i].id, state)
  <1> DEFINE new == Newest(OutputsIn(image))
             id == OutputsIn(image)[i].id
             saved == StoredAt(image, i)
  <1>1. new \subseteq 1..nOutputs(image) /\ DOMAIN OutputsIn(image) = 1..nOutputs(image)
    BY RecordsIn DEF Newest
  <1>2. \A j \in new : StoredAt(image, j) \in Output /\ StoredAt(image, j).id = OutputsIn(image)[j].id
    <2> SUFFICES ASSUME NEW j \in new
                 PROVE  /\ StoredAt(image, j) \in Output
                        /\ StoredAt(image, j).id = OutputsIn(image)[j].id
      OBVIOUS
    <2> DEFINE a == OutputPlace(nTurnouts(image), nSensors(image), j)
    <2>1. a \in Nat /\ OutputsIn(image)[j].id = Cell(image, a + 1)
      BY <1>1, OutputIn
    <2>2. StoredAt(image, j) = [oStatus |-> Cell(image, a), id |-> Cell(image, a + 1),
            pin |-> Cell(image, a + 2), iFlag |-> Cell(image, a + 3), num |-> 0]
      BY DEF StoredAt
    <2> HIDE DEF a
    <2>3. /\ Cell(image, a) \in Byte /\ Cell(image, a + 1) \in Byte
          /\ Cell(image, a + 2) \in Byte /\ Cell(image, a + 3) \in Byte
      BY <2>1, CellTyped
    <2> QED BY <2>1, <2>2, <2>3 DEF Output
  <1>3. \A j \in new : OutputsIn(image)[j].id = id => j = i
    BY <1>1 DEF Newest
  <1>4. KeptOutputs(after) = {StoredAt(after, j) : j \in new}
    BY DEF KeptOutputs, SameOutputs
  <1>5. KeptOutputs(image) = {StoredAt(image, j) : j \in new}
    BY DEF KeptOutputs
  <1>6. Promise!Others(KeptOutputs(image), id) = {StoredAt(image, j) : j \in new \ {i}}
    <2> HIDE DEF new, id
    <2>1. \A j \in new : StoredAt(image, j).id # id <=> j # i
      BY <1>2, <1>3 DEF id
    <2> QED BY <1>5, <2>1 DEF Promise!Others
  <1>7. KeptOutputs(image) \ Promise!Others(KeptOutputs(image), id) = {saved}
    <2>1. \A j \in new : StoredAt(image, j).id = id <=> j = i
      BY <1>2, <1>3
    <2>2. i \in new /\ saved = StoredAt(image, i)
      OBVIOUS
    <2> HIDE DEF new, id, saved
    <2> QED BY <1>5, <2>1, <2>2 DEF Promise!Others
  <1>8. KeptOutputs(after) = {WithStatus(saved, state)} \cup {StoredAt(image, j) : j \in new \ {i}}
    <2>1. \A j \in new : j # i => StoredAt(after, j) = StoredAt(image, j)
      BY <1>1
    <2>2. StoredAt(after, i) = WithStatus(saved, state) /\ i \in new
      OBVIOUS
    <2> HIDE DEF new, saved
    <2> QED BY <1>4, <2>1, <2>2
  <1>9. [saved EXCEPT !.oStatus = state] = WithStatus(saved, state)
    <2>1. saved \in Output
      BY <1>2
    <2> HIDE DEF saved
    <2> QED BY <2>1 DEF Output, WithStatus
  <1> HIDE DEF new, saved
  <1>10. {[x EXCEPT !.oStatus = state] : x \in {saved}} = {WithStatus(saved, state)}
    BY <1>9
  <1> QED BY <1>6, <1>7, <1>8, <1>10 DEF Promise!Set

\* <Z id state> on an output that is linked: its record gets the state too.
LEMMA SwitchStored ==
  ASSUME KeptInv, RecordsEnd(eeprom) <= Size, TypeOK', KeptStep, NEW o, NEW state,
         Switched(outputs, outputs', o, state), o.num # 0,
         eeprom' = Put(eeprom, o.num, <<state>>), UNCHANGED <<turnouts, sensors, cuts>>
  PROVE  KeptInv' /\ Promise!Switch
  <1>1. /\ eeprom \in Image /\ outputs \in List(Output) /\ o \in ToSet(outputs)
        /\ o \in Output /\ state \in {0, 1} /\ o.num >= HeaderSize
    BY TypeOKLists DEF KeptInv, Switched
  <1>2. state \in Byte
    BY <1>1, SmallByte
  <1>3. /\ OutputSet(outputs') = Promise!Set(OutputSet(outputs), o.id, state)
        /\ Links(outputs') = Links(outputs)
    BY <1>1, SwitchedSet
  <1>4. o.id \in Links(outputs)
    BY <1>1 DEF Links
  <1>5. kept' = KeptIn(eeprom')
    BY KeptFollows
  <1>6. LinksHold(eeprom, outputs')
    BY SwitchedLinks DEF KeptInv
  <1>7. KeptInv' /\ kept' = [kept EXCEPT !["output"] = Promise!Set(@, o.id, state)]
    <2> DEFINE ts == KeptTurnouts(eeprom)
               ss == KeptSensors(eeprom)
               os == KeptOutputs(eeprom)
    <2>1. kept = AsKinds(ts, ss, os)
      BY <1>1, KeptAre DEF KeptInv
    <2>2. [kept EXCEPT !["output"] = Promise!Set(@, o.id, state)]
          = AsKinds(ts, ss, Promise!Set(os, o.id, state))
      <3> HIDE DEF ts, ss, os
      <3>1. kept["output"] = os
        BY <2>1, KindsAre
      <3>2. [kept EXCEPT !["output"] = Promise!Set(os, o.id, state)]
            = AsKinds(ts, ss, Promise!Set(os, o.id, state))
        BY <2>1, KindsAre
      <3> QED BY <3>1, <3>2
    <2>3. CASE Counted(eeprom, 0, 0, 0)
      <3>1. RecordsEnd(eeprom) = 12
        BY <2>3 DEF Counted, RecordsEnd, OutputPlace, HeaderSize
      <3>2. o.num \in Nat /\ RecordsEnd(eeprom) <= o.num
        BY <1>1, <3>1 DEF Output, HeaderSize
      <3>3. /\ eeprom' \in Image /\ Valid(eeprom') /\ Small(eeprom')
            /\ KeptIn(eeprom') = KeptIn(eeprom)
            /\ nTurnouts(eeprom') = nTurnouts(eeprom) /\ nSensors(eeprom') = nSensors(eeprom)
            /\ SameOutputs(eeprom, eeprom')
        BY <1>1, <1>2, <3>2, ByteBehind DEF KeptInv
      <3>4. KeptInv'
        BY <1>1, <1>5, <1>6, <3>3, SameLinks DEF KeptInv
      <3>5. os = {}
        BY <1>1, <2>3, NoneKept DEF Counted
      <3>6. Promise!Set({}, o.id, state) = {}
        BY DEF Promise!Set, Promise!Others
      <3>7. kept' = kept
        BY <1>5, <3>3 DEF KeptInv
      <3> QED BY <2>1, <2>2, <3>4, <3>5, <3>6, <3>7
    <2>4. CASE ~Counted(eeprom, 0, 0, 0)
      <3>1. Points(eeprom, o)
        BY <1>1, <2>4 DEF KeptInv, LinksHold
      <3>2. PICK i \in Newest(OutputsIn(eeprom)) :
              OutputsIn(eeprom)[i].id = o.id /\ OutputsIn(eeprom)[i].num = o.num
        BY <3>1 DEF Points
      <3>3. i \in 1..nOutputs(eeprom)
        BY <1>1, RecordsIn DEF Newest
      <3>4. o.num = OutputPlace(nTurnouts(eeprom), nSensors(eeprom), i)
        BY <1>1, <3>2, <3>3, OutputIn
      <3>5. /\ eeprom' \in Image /\ Valid(eeprom') /\ Small(eeprom')
            /\ Counted(eeprom', nTurnouts(eeprom), nSensors(eeprom), nOutputs(eeprom))
            /\ SameOutputs(eeprom, eeprom')
            /\ KeptTurnouts(eeprom') = ts /\ KeptSensors(eeprom') = ss
            /\ StoredAt(eeprom', i) = WithStatus(StoredAt(eeprom, i), state)
            /\ \A j \in 1..nOutputs(eeprom) : j # i => StoredAt(eeprom', j) = StoredAt(eeprom, j)
        BY <1>1, <1>2, <3>3, <3>4, SwitchKeeps DEF KeptInv
      <3>6. KeptOutputs(eeprom') = Promise!Set(os, o.id, state)
        BY <1>1, <1>2, <3>2, <3>5, KeptSwitched
      <3>7. kept' = AsKinds(ts, ss, Promise!Set(os, o.id, state))
        BY <1>5, <3>5, <3>6, KeptAre
      <3>8. KeptInv'
        BY <1>1, <1>5, <1>6, <3>5, SameLinks DEF KeptInv, Counted
      <3> QED BY <2>2, <3>7, <3>8
    <2> QED BY <2>3, <2>4
  <1>8. Objects(turnouts', sensors', outputs')
        = [Objects(turnouts, sensors, outputs) EXCEPT !["output"] = Promise!Set(@, o.id, state)]
    <2> DEFINE old == Objects(turnouts, sensors, outputs)
               new == Objects(turnouts', sensors', outputs')
    <2>1. /\ old = AsKinds(TurnoutSet(turnouts), ToSet(sensors), OutputSet(outputs))
          /\ new = AsKinds(TurnoutSet(turnouts), ToSet(sensors), OutputSet(outputs'))
      BY DefsOf, DefsAfter DEF KeptInv
    <2> HIDE DEF old, new
    <2>2. old["output"] = OutputSet(outputs)
      BY <2>1, KindsAre
    <2>3. [old EXCEPT !["output"] = OutputSet(outputs')] = new
      BY <2>1, KindsAre
    <2>4. [old EXCEPT !["output"] = Promise!Set(@, o.id, state)] = new
      BY <1>3, <2>2, <2>3
    <2> QED BY <2>4 DEF old, new
  <1> QED BY <1>1, <1>3, <1>4, <1>7, <1>8 DEF Promise!Switch, Links

LEMMA SwitchStep ==
  ASSUME KeptInv, Room, TypeOK', KeptStep, ActivateOutput
  PROVE  KeptInv' /\ (Promise!Edit \/ Promise!Switch)
  <1>1. PICK o, state :
          /\ Switched(outputs, outputs', o, state)
          /\ eeprom' = IF o.num = 0 THEN eeprom ELSE Put(eeprom, o.num, <<state>>)
    BY OutputSwitched DEF KeptInv
  <1>2. UNCHANGED <<turnouts, sensors, cuts>>
    BY OutputSwitched DEF KeptInv
  <1>3. CASE o.num = 0
    BY <1>1, <1>2, <1>3, SwitchUnstored
  <1>4. CASE o.num # 0
    BY <1>1, <1>2, <1>4, SwitchStored DEF Room
  <1> QED BY <1>3, <1>4

-----------------------------------------------------------------------------
(* Each step of the store is a step of Retention: power-ups and stores.    *)

\* What load makes of a record is what comes back of it.
LEMMA BackOne ==
  ASSUME NEW image \in Image, NEW i \in 1..nOutputs(image)
  PROVE  LET o == StoredAt(image, i)
         IN WithPlace(OutputsIn(image)[i], 0)
            = [o EXCEPT !.oStatus = IF (o.iFlag \div 2) % 2 = 1 THEN (o.iFlag \div 4) % 2 ELSE @]
  <1> DEFINE a == OutputPlace(nTurnouts(image), nSensors(image), i)
             o == StoredAt(image, i)
             p == OutputsIn(image)[i]
  <1>1. /\ p.oStatus = PowerUpStatus(Cell(image, a + 3), Cell(image, a))
        /\ p.id = Cell(image, a + 1) /\ p.pin = Cell(image, a + 2)
        /\ p.iFlag = Cell(image, a + 3)
    BY OutputIn
  <1>2. o = [oStatus |-> Cell(image, a), id |-> Cell(image, a + 1), pin |-> Cell(image, a + 2),
             iFlag |-> Cell(image, a + 3), num |-> 0]
    BY DEF StoredAt
  <1> DEFINE back == IF (o.iFlag \div 2) % 2 = 1 THEN (o.iFlag \div 4) % 2 ELSE o.oStatus
  <1> HIDE DEF a, o, p
  <1>3. /\ o.oStatus = Cell(image, a) /\ o.id = Cell(image, a + 1) /\ o.pin = Cell(image, a + 2)
        /\ o.iFlag = Cell(image, a + 3) /\ o.num = 0
    BY <1>2
  <1>4. p.oStatus = back
    BY <1>1, <1>3 DEF PowerUpStatus, Flag
  <1> HIDE DEF back
  <1>5. WithPlace(p, 0) = WithStatus(o, back)
    BY <1>1, <1>3, <1>4 DEF WithPlace, WithStatus
  <1>6. [o EXCEPT !.oStatus = back] = WithStatus(o, back)
    BY <1>2, <1>3 DEF WithStatus
  <1> QED BY <1>5, <1>6 DEF back, o, p

\* The power comes back: so do the objects that the EEPROM keeps.
LEMMA PowerUpBack ==
  ASSUME NEW image \in Image, Valid(image), PowerUpFrom(image), TypeOK'
  PROVE  /\ eeprom' = image /\ LinksHold(image, outputs')
         /\ Objects(turnouts', sensors', outputs') = Promise!BackAgain(KeptIn(image))
         /\ Links(outputs') = Promise!Ids(KeptIn(image)["output"])
  <1>1. init(image) = image
    BY InitTyped
  <1>2. /\ eeprom' = image /\ turnouts' = load(image).turnouts
        /\ sensors' = load(image).sensors /\ outputs' = load(image).outputs
    BY <1>1 DEF PowerUpFrom
  <1>3. /\ ToSet(turnouts') = Latest(TurnoutsIn(image))
        /\ ToSet(sensors') = Latest(SensorsIn(image))
        /\ ToSet(outputs') = Latest(OutputsIn(image))
        /\ \A o \in ToSet(outputs') : o.num >= HeaderSize
    BY <1>2, LoadTyped
  <1> DEFINE new == Newest(OutputsIn(image))
  <1>4. ToSet(outputs') = {OutputsIn(image)[i] : i \in new}
    BY <1>3, LatestNewest
  <1>5. new \subseteq 1..nOutputs(image)
    BY RecordsIn DEF Newest
  <1>6. KeptOutputs(image) = {StoredAt(image, i) : i \in new}
    BY DEF KeptOutputs
  <1>7. LinksHold(image, outputs')
    BY <1>4 DEF LinksHold, Points
  <1>8. TurnoutSet(turnouts') = KeptTurnouts(image) /\ ToSet(sensors') = KeptSensors(image)
    BY <1>3, LatestNewest DEF TurnoutSet, KeptTurnouts, KeptSensors
  <1> DEFINE Back(o) == [o EXCEPT !.oStatus =
                           IF (o.iFlag \div 2) % 2 = 1 THEN (o.iFlag \div 4) % 2 ELSE @]
  <1>9. OutputSet(outputs') = {Back(o) : o \in KeptOutputs(image)}
    <2>1. \A i \in new : WithPlace(OutputsIn(image)[i], 0) = Back(StoredAt(image, i))
      BY <1>5, BackOne
    <2> HIDE DEF new, Back
    <2> QED BY <1>4, <1>6, <2>1 DEF OutputSet
  <1>10. Links(outputs') = Promise!Ids(KeptOutputs(image))
    <2>1. \A i \in new : OutputsIn(image)[i].id = StoredAt(image, i).id
      <3> SUFFICES ASSUME NEW i \in new PROVE OutputsIn(image)[i].id = StoredAt(image, i).id
        OBVIOUS
      <3> DEFINE a == OutputPlace(nTurnouts(image), nSensors(image), i)
      <3>1. OutputsIn(image)[i].id = Cell(image, a + 1)
        BY <1>5, OutputIn
      <3>2. StoredAt(image, i).id = Cell(image, a + 1)
        BY DEF StoredAt
      <3> QED BY <3>1, <3>2
    <2>2. \A i \in new : OutputsIn(image)[i].num # 0
      BY <1>3, <1>4 DEF HeaderSize
    <2> HIDE DEF new
    <2>3. Links(outputs') = {OutputsIn(image)[i].id : i \in new}
      BY <1>4, <2>2 DEF Links
    <2> QED BY <1>6, <2>1, <2>3 DEF Promise!Ids
  <1>11. KeptIn(image) = AsKinds(KeptTurnouts(image), KeptSensors(image), KeptOutputs(image))
    BY KeptAre
  <1>12. KeptIn(image)["output"] = KeptOutputs(image)
    BY <1>11, KindsAre
  <1>13. Objects(turnouts', sensors', outputs')
         = AsKinds(KeptTurnouts(image), KeptSensors(image), {Back(o) : o \in KeptOutputs(image)})
    BY <1>8, <1>9, DefsAfter
  <1>14. Promise!BackAgain(KeptIn(image))
         = AsKinds(KeptTurnouts(image), KeptSensors(image), {Back(o) : o \in KeptOutputs(image)})
    <2> DEFINE k == KeptIn(image)
               back == {Back(o) : o \in k["output"]}
    <2>1. Promise!BackAgain(k) = [k EXCEPT !["output"] = back]
      BY DEF Promise!BackAgain
    <2>2. back = {Back(o) : o \in KeptOutputs(image)}
      BY <1>12
    <2> HIDE DEF back
    <2>3. [k EXCEPT !["output"] = back] = AsKinds(KeptTurnouts(image), KeptSensors(image), back)
      BY <1>11, KindsAre
    <2> QED BY <2>1, <2>2, <2>3
  <1> QED BY <1>2, <1>7, <1>10, <1>12, <1>13, <1>14

LEMMA RestartStep ==
  ASSUME KeptInv, TypeOK', KeptStep, Restart
  PROVE  KeptInv' /\ Promise!PowerUp
  <1>1. PowerUpFrom(eeprom) /\ UNCHANGED cuts
    BY DEF Restart
  <1>2. eeprom \in Image /\ Valid(eeprom)
    BY TypeOKLists DEF KeptInv
  <1>3. /\ eeprom' = eeprom /\ LinksHold(eeprom, outputs')
        /\ Objects(turnouts', sensors', outputs') = Promise!BackAgain(KeptIn(eeprom))
        /\ Links(outputs') = Promise!Ids(KeptIn(eeprom)["output"])
    BY <1>1, <1>2, PowerUpBack
  <1>4. KeptInv' /\ kept' = kept
    BY <1>3, KeptStays DEF KeptStep
  <1>5. kept = KeptIn(eeprom)
    BY DEF KeptInv
  <1> QED BY <1>1, <1>3, <1>4, <1>5 DEF Promise!PowerUp, Links

\* The EEPROM after m byte writes of a store: its counts, and what it keeps of
\* the kinds whose counts were written.
LEMMA StoredInRoom ==
  ASSUME KeptInv, Room, NEW m \in Nat, NEW r \in Nat,
         r = Len(Records(turnouts, sensors, outputs)), NEW after,
         after = StoreBytes(eeprom, turnouts, sensors, outputs, m)
  PROVE  /\ after \in Image /\ Valid(after) /\ Small(after)
         /\ Counted(after, IF m >= r + 7 THEN Len(turnouts) ELSE nTurnouts(eeprom),
                           IF m >= r + 9 THEN Len(sensors) ELSE nSensors(eeprom),
                           IF m >= r + 11 THEN Len(outputs) ELSE nOutputs(eeprom))
         /\ m >= r + 7 => KeptTurnouts(after) = TurnoutSet(turnouts)
         /\ m >= r + 9 => KeptSensors(after) = ToSet(sensors)
         /\ m >= r + 11 => /\ KeptOutputs(after) = OutputSet(outputs)
                           /\ Newest(OutputsIn(after)) = 1..Len(outputs)
                           /\ \A i \in 1..Len(outputs) : OutputsIn(after)[i].id = outputs[i].id
  <1>1. /\ eeprom \in Image /\ turnouts \in List(Turnout) /\ sensors \in List(Sensor)
        /\ outputs \in List(Output) /\ Valid(eeprom) /\ Small(eeprom)
    BY TypeOKLists DEF KeptInv
  <1>2. RoomFor(turnouts, sensors, outputs)
    BY DEF Room, RoomFor
  <1>3. /\ after \in Image /\ Valid(after) /\ Small(after)
        /\ Counted(after, IF m >= r + 7 THEN Len(turnouts) ELSE nTurnouts(eeprom),
                          IF m >= r + 9 THEN Len(sensors) ELSE nSensors(eeprom),
                          IF m >= r + 11 THEN Len(outputs) ELSE nOutputs(eeprom))
    BY <1>1, <1>2, StoreCounts
  <1>4. m >= r + 7 => m >= Len(Records(turnouts, sensors, outputs))
    OBVIOUS
  <1>5. m >= r + 7 =>
          /\ KeptTurnouts(after) = {WithoutAngles(t) : t \in ToSet(turnouts)}
          /\ nSensors(after) = Len(sensors) => KeptSensors(after) = ToSet(sensors)
          /\ Counted(after, Len(turnouts), Len(sensors), Len(outputs)) =>
               /\ KeptOutputs(after) = {[o EXCEPT !.num = 0] : o \in ToSet(outputs)}
               /\ Newest(OutputsIn(after)) = 1..Len(outputs)
               /\ \A i \in 1..Len(outputs) : OutputsIn(after)[i].id = outputs[i].id
    <2> SUFFICES ASSUME m >= r + 7
                 PROVE  /\ KeptTurnouts(after) = {WithoutAngles(t) : t \in ToSet(turnouts)}
                        /\ nSensors(after) = Len(sensors) => KeptSensors(after) = ToSet(sensors)
                        /\ Counted(after, Len(turnouts), Len(sensors), Len(outputs)) =>
                             /\ KeptOutputs(after) = {[o EXCEPT !.num = 0] : o \in ToSet(outputs)}
                             /\ Newest(OutputsIn(after)) = 1..Len(outputs)
                             /\ \A i \in 1..Len(outputs) :
                                  OutputsIn(after)[i].id = outputs[i].id
      OBVIOUS
    <2>1. nTurnouts(after) = Len(turnouts)
      BY <1>3 DEF Counted
    <2> QED BY <1>1, <1>2, <1>3, <1>4, <2>1, StoreKeeps
  <1>6. m >= r + 7 => KeptTurnouts(after) = TurnoutSet(turnouts)
    BY <1>5 DEF TurnoutSet
  <1>7. m >= r + 9 => KeptSensors(after) = ToSet(sensors)
    <2>1. m >= r + 9 => m >= r + 7
      OBVIOUS
    <2>2. m >= r + 9 => nSensors(after) = Len(sensors)
      BY <1>3 DEF Counted
    <2> QED BY <1>5, <2>1, <2>2
  <1>8. {[o EXCEPT !.num = 0] : o \in ToSet(outputs)} = OutputSet(outputs)
    <2>1. Objects(turnouts, sensors, outputs)["output"] = OutputSet(outputs)
      BY DefsOf, KindsAre DEF KeptInv
    <2> QED BY <2>1, ObjectsOf
  <1>9. m >= r + 11 => /\ KeptOutputs(after) = OutputSet(outputs)
                       /\ Newest(OutputsIn(after)) = 1..Len(outputs)
                       /\ \A i \in 1..Len(outputs) : OutputsIn(after)[i].id = outputs[i].id
    <2>1. m >= r + 11 => m >= r + 7 /\ m >= r + 9
      OBVIOUS
    <2>2. m >= r + 11 => Counted(after, Len(turnouts), Len(sensors), Len(outputs))
      BY <1>3, <2>1 DEF Counted
    <2> QED BY <1>5, <1>8, <2>1, <2>2
  <1> QED BY <1>3, <1>6, <1>7, <1>9

LEMMA RecordsCounted ==
  ASSUME TypeOK PROVE Len(Records(turnouts, sensors, outputs)) \in Nat
  <1>1. turnouts \in Seq(Turnout) /\ sensors \in Seq(Sensor) /\ outputs \in Seq(Output)
    BY DEF TypeOK
  <1>2. Len(turnouts) \in Nat /\ Len(sensors) \in Nat /\ Len(outputs) \in Nat
    BY <1>1
  <1>3. Records(turnouts, sensors, outputs) \in Seq(Byte)
    BY <1>1, <1>2, RecordsBytes DEF AreRecords
  <1> QED BY <1>3

\* <E>
LEMMA StoreStep ==
  ASSUME KeptInv, Room, TypeOK', KeptStep, store
  PROVE  KeptInv' /\ Promise!Save
  <1> DEFINE r == Len(Records(turnouts, sensors, outputs))
             t == Len(turnouts)
             s == Len(sensors)
             n == Len(outputs)
             m == HeaderSize + r
  <1>1. r \in Nat
    BY RecordsCounted DEF KeptInv
  <1>2. r = Len(Records(turnouts, sensors, outputs))
    OBVIOUS
  <1>3. eeprom' = StoreBytes(eeprom, turnouts, sensors, outputs, m)
        /\ UNCHANGED <<turnouts, sensors, cuts>>
    BY DEF store, Command
  <1> HIDE DEF r
  <1>4. m \in Nat /\ m >= r + 7 /\ m >= r + 9 /\ m >= r + 11
    BY <1>1 DEF HeaderSize
  <1> HIDE DEF m
  <1>5. /\ eeprom' \in Image /\ Valid(eeprom') /\ Small(eeprom')
        /\ Counted(eeprom', t, s, n)
        /\ KeptTurnouts(eeprom') = TurnoutSet(turnouts)
        /\ KeptSensors(eeprom') = ToSet(sensors)
        /\ KeptOutputs(eeprom') = OutputSet(outputs)
        /\ Newest(OutputsIn(eeprom')) = 1..n
        /\ \A i \in 1..n : OutputsIn(eeprom')[i].id = outputs[i].id
    BY <1>1, <1>2, <1>3, <1>4, StoredInRoom
  <1>6. /\ outputs' \in List(Output) /\ Len(outputs') = n /\ outputs \in List(Output)
        /\ \A i \in 1..n : outputs'[i] = WithPlace(outputs[i], OutputPlace(t, s, i))
        /\ \A o \in ToSet(outputs') : o.num >= HeaderSize
    BY OutputsStored, TypeOKLists DEF KeptInv
  <1>7. /\ ToSet(outputs') = {outputs'[i] : i \in 1..n}
        /\ ToSet(outputs) = {outputs[i] : i \in 1..n}
    <2>1. DOMAIN outputs' = 1..n /\ DOMAIN outputs = 1..n
      BY <1>6 DEF List
    <2> QED BY <2>1 DEF ToSet
  <1>8. kept' = KeptIn(eeprom')
    BY KeptFollows
  <1>9. LinksHold(eeprom', outputs')
    <2> SUFFICES ASSUME NEW i \in 1..n PROVE Points(eeprom', outputs'[i])
      BY <1>7 DEF LinksHold
    <2>1. i \in 1..nOutputs(eeprom')
      BY <1>5 DEF Counted
    <2>2. OutputsIn(eeprom')[i].num = OutputPlace(nTurnouts(eeprom'), nSensors(eeprom'), i)
      BY <1>5, <2>1, OutputIn
    <2>3. OutputsIn(eeprom')[i].num = OutputPlace(t, s, i)
      BY <1>5, <2>2 DEF Counted
    <2>4. outputs'[i].id = outputs[i].id /\ outputs'[i].num = OutputPlace(t, s, i)
      <3>1. \A o, a : WithPlace(o, a).id = o.id /\ WithPlace(o, a).num = a
        BY DEF WithPlace
      <3>2. outputs'[i] = WithPlace(outputs[i], OutputPlace(t, s, i))
        BY <1>6
      <3> QED BY <3>1, <3>2, ZenonT(30)
    <2> QED BY <1>5, <2>3, <2>4 DEF Points
  <1>10. KeptInv'
    BY <1>5, <1>8, <1>9 DEF KeptInv
  <1>11. OutputSet(outputs') = OutputSet(outputs)
    <2>1. \A i \in 1..n : WithPlace(outputs'[i], 0) = WithPlace(outputs[i], 0)
      <3>1. \A o, a : WithPlace(WithPlace(o, a), 0) = WithPlace(o, 0)
        BY DEF WithPlace
      <3> QED BY <1>6, <3>1, Zenon
    <2> QED BY <1>7, <2>1 DEF OutputSet
  <1>12. Links(outputs') = Promise!Ids(OutputSet(outputs))
    <2>1. \A o \in ToSet(outputs') : o.num # 0
      BY <1>6 DEF HeaderSize
    <2>2. Links(outputs') = {o.id : o \in ToSet(outputs')}
      BY <2>1 DEF Links
    <2>3. \A o : WithPlace(o, 0).id = o.id
      BY DEF WithPlace
    <2>4. Promise!Ids(OutputSet(outputs')) = {o.id : o \in ToSet(outputs')}
      BY <2>3 DEF OutputSet, Promise!Ids
    <2> QED BY <1>11, <2>2, <2>4
  <1> DEFINE old == Objects(turnouts, sensors, outputs)
             new == Objects(turnouts', sensors', outputs')
  <1>13. /\ old = AsKinds(TurnoutSet(turnouts), ToSet(sensors), OutputSet(outputs))
         /\ new = AsKinds(TurnoutSet(turnouts), ToSet(sensors), OutputSet(outputs'))
    BY <1>3, DefsOf, DefsAfter DEF KeptInv
  <1>14. new = old /\ old["output"] = OutputSet(outputs)
    BY <1>11, <1>13, KindsAre
  <1>15. kept' = old
    BY <1>5, <1>8, <1>13, KeptAre
  <1> QED BY <1>3, <1>10, <1>12, <1>14, <1>15 DEF Promise!Save, Links

\* Nothing is kept of a header without counts.
LEMMA NothingKept ==
  ASSUME NEW image \in Image, Valid(image)
  PROVE  KeptIn(image) = Promise!None <=> Counted(image, 0, 0, 0)
  <1>1. KeptIn(image) = AsKinds(KeptTurnouts(image), KeptSensors(image), KeptOutputs(image))
    BY KeptAre
  <1>2. Promise!None = AsKinds({}, {}, {})
    BY DEF Promise!None, Promise!Kinds, AsKinds
  <1>3. KeptIn(image) = Promise!None
          <=> KeptTurnouts(image) = {} /\ KeptSensors(image) = {} /\ KeptOutputs(image) = {}
    <2> DEFINE p == KeptIn(image)
               none == Promise!None
    <2>1. /\ p["turnout"] = KeptTurnouts(image) /\ p["sensor"] = KeptSensors(image)
          /\ p["output"] = KeptOutputs(image)
          /\ none["turnout"] = {} /\ none["sensor"] = {} /\ none["output"] = {}
      BY <1>1, <1>2, KindsAre
    <2> HIDE DEF p, none
    <2>2. p = none => /\ KeptTurnouts(image) = {} /\ KeptSensors(image) = {}
                      /\ KeptOutputs(image) = {}
      BY <2>1
    <2> QED BY <1>1, <1>2, <2>2 DEF p, none
  <1> QED BY <1>3, NoneKept DEF Counted

\* <e>
LEMMA ClearStep ==
  ASSUME KeptInv, TypeOK', KeptStep, clear
  PROVE  KeptInv' /\ Promise!Clear
  <1>1. /\ eeprom' = Put(eeprom, 0, Header(0, 0, 0)) /\ eeprom \in Image
        /\ UNCHANGED <<turnouts, sensors, outputs, cuts>>
    BY TypeOKLists DEF KeptInv, clear, lists, Command
  <1> DEFINE h == Header(0, 0, 0)
  <1>2. h \in Seq(Byte) /\ Len(h) = 12
    <2>1. 0 \in Nat
      OBVIOUS
    <2> QED BY <2>1, HeaderBytes, Zenon
  <1> HIDE DEF h
  <1>3. /\ Put(eeprom, 0, h) \in Image
        /\ \A a \in Int : Cell(Put(eeprom, 0, h), a) =
             IF a \in 0..(Size - 1) /\ a \in 0..(0 + Len(h) - 1) THEN h[a - 0 + 1]
             ELSE Cell(eeprom, a)
    BY <1>1, <1>2, PutBytes
  <1>4. eeprom' = Put(eeprom, 0, h)
    BY <1>1 DEF h
  <1>5. \A a \in 0..11 : Cell(eeprom', a) = h[a + 1]
    <2> SUFFICES ASSUME NEW a \in 0..11 PROVE Cell(Put(eeprom, 0, h), a) = h[a + 1]
      BY <1>4
    <2>1. /\ a \in Int /\ a \in 0..(Size - 1) /\ a \in 0..(0 + Len(h) - 1) /\ a - 0 + 1 = a + 1
      BY <1>2, StoreAssumption
    <2> QED BY <1>3, <2>1
  <1>6. HeaderWritten(eeprom, eeprom', 12, 0, 0, 0)
    BY <1>5 DEF HeaderWritten, h
  <1>7. eeprom' \in Image /\ 0 \in Byte
    BY <1>3, <1>4, SmallByte
  <1>8. /\ Valid(eeprom') /\ Small(eeprom') /\ Counted(eeprom', 0, 0, 0)
    BY <1>1, <1>6, <1>7, WrittenHeader DEF KeptInv, Counted
  <1>9. kept' = KeptIn(eeprom')
    BY KeptFollows
  <1>10. KeptInv'
    BY <1>8, <1>9 DEF KeptInv, LinksHold
  <1>11. kept' = Promise!None
    BY <1>7, <1>8, <1>9, NothingKept
  <1> QED BY <1>1, <1>10, <1>11 DEF Promise!Clear

\* What a store over an empty EEPROM leaves when the power goes in it: nothing,
\* the turnouts, all but the outputs, or everything.
LEMMA CutLeaves ==
  ASSUME KeptInv, Room, Counted(eeprom, 0, 0, 0), NEW m \in Nat, NEW r \in Nat,
         r = Len(Records(turnouts, sensors, outputs)), NEW after,
         after = StoreBytes(eeprom, turnouts, sensors, outputs, m)
  PROVE  KeptIn(after) \in Promise!Prefixes
  <1> DEFINE t == KeptTurnouts(after)
             s == KeptSensors(after)
             o == KeptOutputs(after)
  <1>1. /\ after \in Image /\ Valid(after)
        /\ Counted(after, IF m >= r + 7 THEN Len(turnouts) ELSE nTurnouts(eeprom),
                          IF m >= r + 9 THEN Len(sensors) ELSE nSensors(eeprom),
                          IF m >= r + 11 THEN Len(outputs) ELSE nOutputs(eeprom))
        /\ m >= r + 7 => t = TurnoutSet(turnouts)
        /\ m >= r + 9 => s = ToSet(sensors)
        /\ m >= r + 11 => o = OutputSet(outputs)
    BY StoredInRoom
  <1>2. /\ ~(m >= r + 7) => nTurnouts(after) = 0
        /\ ~(m >= r + 9) => nSensors(after) = 0
        /\ ~(m >= r + 11) => nOutputs(after) = 0
    BY <1>1 DEF Counted
  <1>3. /\ ~(m >= r + 7) => t = {}
        /\ ~(m >= r + 9) => s = {}
        /\ ~(m >= r + 11) => o = {}
    BY <1>1, <1>2, NoneKept
  <1>4. KeptIn(after) = AsKinds(t, s, o)
    BY <1>1, KeptAre
  <1> HIDE DEF t, s, o
  <1> DEFINE defs == Objects(turnouts, sensors, outputs)
  <1>5. defs = AsKinds(TurnoutSet(turnouts), ToSet(sensors), OutputSet(outputs))
    BY DefsOf DEF KeptInv
  <1>6. Promise!None = AsKinds({}, {}, {})
    BY DEF Promise!None, Promise!Kinds, AsKinds
  <1>7. Promise!Prefixes = {Promise!None, [Promise!None EXCEPT !["turnout"] = defs["turnout"]],
                            [defs EXCEPT !["output"] = {}], defs}
    BY DEF Promise!Prefixes
  <1> HIDE DEF defs
  <1>8. /\ [Promise!None EXCEPT !["turnout"] = defs["turnout"]] = AsKinds(TurnoutSet(turnouts), {}, {})
        /\ [defs EXCEPT !["output"] = {}] = AsKinds(TurnoutSet(turnouts), ToSet(sensors), {})
    <2>1. defs["turnout"] = TurnoutSet(turnouts)
      BY <1>5, KindsAre
    <2>2. [Promise!None EXCEPT !["turnout"] = TurnoutSet(turnouts)]
          = AsKinds(TurnoutSet(turnouts), {}, {})
      BY <1>6, KindsAre
    <2>3. [defs EXCEPT !["output"] = {}] = AsKinds(TurnoutSet(turnouts), ToSet(sensors), {})
      BY <1>5, KindsAre
    <2> QED BY <2>1, <2>2, <2>3
  <1>9. CASE ~(m >= r + 7)
    <2>1. ~(m >= r + 9) /\ ~(m >= r + 11)
      BY <1>9
    <2> QED BY <1>3, <1>4, <1>6, <1>7, <1>9, <2>1
  <1>10. CASE m >= r + 7 /\ ~(m >= r + 9)
    <2>1. ~(m >= r + 11)
      BY <1>10
    <2> QED BY <1>1, <1>3, <1>4, <1>7, <1>8, <1>10, <2>1
  <1>11. CASE m >= r + 9 /\ ~(m >= r + 11)
    <2>1. m >= r + 7
      BY <1>11
    <2> QED BY <1>1, <1>3, <1>4, <1>7, <1>8, <1>11, <2>1
  <1>12. CASE m >= r + 11
    <2>1. m >= r + 7 /\ m >= r + 9
      BY <1>12
    <2> QED BY <1>1, <1>4, <1>5, <1>7, <1>12, <2>1
  <1> QED BY <1>9, <1>10, <1>11, <1>12

LEMMA CutStep ==
  ASSUME KeptInv, Room, TypeOK', KeptStep, CutStore
  PROVE  KeptInv' /\ Promise!CutSave
  <1> DEFINE r == Len(Records(turnouts, sensors, outputs))
  <1>1. cuts' = cuts + 1
    BY DEF CutStore
  <1>2. PICK m \in 1..(HeaderSize + r - 1) :
          PowerUpFrom(StoreBytes(eeprom, turnouts, sensors, outputs, m))
    BY DEF CutStore
  <1> DEFINE after == StoreBytes(eeprom, turnouts, sensors, outputs, m)
  <1>3. r \in Nat /\ r = Len(Records(turnouts, sensors, outputs)) /\ m \in Nat
    BY RecordsCounted DEF KeptInv
  <1>4. after = StoreBytes(eeprom, turnouts, sensors, outputs, m)
    OBVIOUS
  <1> HIDE DEF r, after
  <1>5. after \in Image /\ Valid(after) /\ Small(after)
    BY <1>3, <1>4, StoredInRoom
  <1>6. /\ eeprom' = after /\ LinksHold(after, outputs')
        /\ Objects(turnouts', sensors', outputs') = Promise!BackAgain(KeptIn(after))
        /\ Links(outputs') = Promise!Ids(KeptIn(after)["output"])
    BY <1>2, <1>4, <1>5, PowerUpBack
  <1>7. kept' = KeptIn(after)
    BY <1>6, KeptFollows
  <1>8. KeptInv'
    BY <1>5, <1>6, <1>7 DEF KeptInv
  <1>9. kept = Promise!None => kept' \in Promise!Prefixes
    <2> SUFFICES ASSUME kept = Promise!None PROVE kept' \in Promise!Prefixes
      OBVIOUS
    <2>1. Counted(eeprom, 0, 0, 0)
      BY NothingKept, TypeOKLists DEF KeptInv
    <2> QED BY <1>3, <1>4, <1>7, <2>1, CutLeaves
  <1> QED BY <1>1, <1>6, <1>7, <1>8, <1>9 DEF Promise!CutSave, Links

-----------------------------------------------------------------------------
(* The store implements Retention.                                         *)

LEMMA KeptInvInit ==
  ASSUME MCInit PROVE KeptInv /\ Promise!Init
  <1>1. TypeOK
    BY TypeOKInit DEF MCInit
  <1>2. /\ turnouts = <<>> /\ sensors = <<>> /\ outputs = <<>> /\ cuts = 0
        /\ eeprom = init([a \in 0..(Size - 1) |-> 255]) /\ kept = KeptIn(eeprom)
    BY DEF MCInit, Init
  <1> DEFINE blank == [a \in 0..(Size - 1) |-> 255]
             h == Header(0, 0, 0)
  <1>3. blank \in Image /\ \A a \in Int : Cell(blank, a) = 255
    <2>1. 255 \in Byte
      BY DEF Byte
    <2> QED BY <2>1 DEF Image, Cell
  <1>4. ~Valid(blank)
    <2> HIDE DEF blank, h
    <2>1. Cell(blank, 0) = 255 /\ EESTORE_ID[1] = 68 /\ 1 \in 1..6 /\ 1 - 1 = 0
      <3>1. EESTORE_ID[1] = 68
        BY DEF EESTORE_ID
      <3> QED BY <1>3, <3>1
    <2>2. SUFFICES ASSUME Valid(blank) PROVE FALSE
      OBVIOUS
    <2>3. Cell(blank, 1 - 1) = EESTORE_ID[1]
      BY <2>1, <2>2 DEF Valid
    <2> QED BY <2>1, <2>3
  <1>5. h \in Seq(Byte) /\ Len(h) = 12 /\ IsHeader(h, 0, 0, 0)
    <2>1. 0 \in Nat
      OBVIOUS
    <2>2. h \in Seq(Byte) /\ Len(h) = 12
      BY <2>1, HeaderBytes, Zenon
    <2> QED BY <2>1, <2>2, HeaderIs
  <1>6. eeprom = Put(blank, 0, h)
    BY <1>2, <1>4 DEF init, Valid
  <1> HIDE DEF blank, h
  <1>7. /\ eeprom \in Image
        /\ \A a \in 0..11 : Cell(eeprom, a) = h[a + 1]
    <2>1. /\ Put(blank, 0, h) \in Image
          /\ \A a \in Int : Cell(Put(blank, 0, h), a) =
               IF a \in 0..(Size - 1) /\ a \in 0..(0 + Len(h) - 1) THEN h[a - 0 + 1]
               ELSE Cell(blank, a)
      <3>1. 0 \in Nat /\ h \in Seq(Byte) /\ blank \in Image
        BY <1>3, <1>5
      <3> QED BY <3>1, PutBytes
    <2>2. \A a \in 0..11 : /\ a \in Int /\ a \in 0..(Size - 1) /\ a \in 0..(0 + Len(h) - 1)
                           /\ a - 0 + 1 = a + 1
      BY <1>5, StoreAssumption
    <2> QED BY <1>6, <2>1, <2>2
  <1>8. /\ h[7] = 0 /\ h[8] = 0 /\ h[9] = 0 /\ h[10] = 0 /\ h[11] = 0 /\ h[12] = 0
        /\ \A i \in 1..6 : h[i] = EESTORE_ID[i]
    <2>1. 0 \in Byte
      BY SmallByte
    <2> QED BY <2>1, SmallHeader DEF h
  <1>9. Valid(eeprom)
    <2> SUFFICES ASSUME NEW i \in 1..6 PROVE Cell(eeprom, i - 1) = EESTORE_ID[i]
      BY DEF Valid
    <2>1. i - 1 \in 0..11 /\ i - 1 + 1 = i
      OBVIOUS
    <2> QED BY <1>7, <1>8, <2>1
  <1>10. /\ Cell(eeprom, 6) = 0 /\ Cell(eeprom, 7) = 0 /\ Cell(eeprom, 8) = 0
         /\ Cell(eeprom, 9) = 0 /\ Cell(eeprom, 10) = 0 /\ Cell(eeprom, 11) = 0
    <2>1. 6 \in 0..11 /\ 7 \in 0..11 /\ 8 \in 0..11 /\ 9 \in 0..11 /\ 10 \in 0..11 /\ 11 \in 0..11
      OBVIOUS
    <2> QED BY <1>7, <1>8, <2>1
  <1>11. Small(eeprom) /\ Counted(eeprom, 0, 0, 0)
    <2>1. Small(eeprom)
      BY <1>10 DEF Small
    <2> QED BY <1>7, <1>10, <2>1, SmallCount DEF Counted
  <1>12. KeptInv
    BY <1>1, <1>2, <1>9, <1>11 DEF KeptInv, LinksHold
  <1>13. kept = Promise!None
    BY <1>2, <1>7, <1>9, <1>11, NothingKept
  <1>14. ToSet(turnouts) = {} /\ ToSet(sensors) = {} /\ ToSet(outputs) = {}
    BY <1>2 DEF ToSet
  <1>15. Objects(turnouts, sensors, outputs) = AsKinds({}, {}, {})
    <2>1. TurnoutSet(turnouts) = {} /\ OutputSet(outputs) = {}
      BY <1>14 DEF TurnoutSet, OutputSet
    <2> QED BY <1>1, <1>14, <2>1, DefsOf
  <1>16. Promise!None = AsKinds({}, {}, {})
    BY DEF Promise!None, Promise!Kinds, AsKinds
  <1>17. Links(outputs) = {}
    BY <1>14 DEF Links
  <1> QED BY <1>2, <1>12, <1>13, <1>15, <1>16, <1>17 DEF Promise!Init, Links

\* A step within the room there is.
LEMMA StoreSteps ==
  ASSUME OutputIdsFit, KeptInv, Room, [MCNext]_<<vars, kept>>
  PROVE  KeptInv' /\ [Promise!Next]_(Promise!vars)
  <1>1. CASE UNCHANGED <<vars, kept>>
    <2>1. UNCHANGED <<turnouts, sensors, outputs, eeprom, cuts, kept>>
      BY <1>1 DEF vars, lists
    <2>2. KeptInv'
      BY <2>1 DEF KeptInv, TypeOK
    <2>3. UNCHANGED Promise!vars
      BY <2>1 DEF Promise!vars
    <2> QED BY <2>2, <2>3
  <1>2. CASE MCNext
    <2>1. Next /\ KeptStep
      BY <1>2 DEF MCNext, KeptStep
    <2>2. TypeOK'
      BY <2>1, TypeOKStep DEF KeptInv
    <2>3. CASE DefineTurnout \/ RemoveTurnout \/ ActivateTurnout
      <3>1. SomeEdited(Turnout, turnouts, turnouts') /\ UNCHANGED <<sensors, outputs, eeprom, cuts>>
        BY <2>3, TurnoutsEdited DEF KeptInv
      <3>2. KeptInv' /\ kept' = kept
        BY <2>1, <2>2, <3>1, KeptStays DEF KeptStep, KeptInv
      <3>3. Promise!Edit
        BY <2>2, <3>1, <3>2, TurnoutEdit DEF KeptInv
      <3> QED BY <3>2, <3>3 DEF Promise!Next
    <2>4. CASE ThrowTurnout
      BY <2>1, <2>2, <2>4, ThrowStep DEF Promise!Next
    <2>5. CASE DefineSensor \/ RemoveSensor
      <3>1. SomeEdited(Sensor, sensors, sensors') /\ UNCHANGED <<turnouts, outputs, eeprom, cuts>>
        BY <2>5, SensorsEdited DEF KeptInv
      <3>2. KeptInv' /\ kept' = kept
        BY <2>1, <2>2, <3>1, KeptStays DEF KeptStep, KeptInv
      <3>3. Promise!Edit
        BY <2>2, <3>1, <3>2, SensorEdit DEF KeptInv
      <3> QED BY <3>2, <3>3 DEF Promise!Next
    <2>6. CASE DefineOutput
      BY <2>1, <2>2, <2>6, DefineStep DEF Promise!Next
    <2>7. CASE RemoveOutput
      BY <2>1, <2>2, <2>7, RemoveStep DEF Promise!Next
    <2>8. CASE ActivateOutput
      BY <2>1, <2>2, <2>8, SwitchStep DEF Promise!Next
    <2>9. CASE store
      BY <2>1, <2>2, <2>9, StoreStep DEF Promise!Next
    <2>10. CASE clear
      BY <2>1, <2>2, <2>10, ClearStep DEF Promise!Next
    <2>11. CASE Restart
      BY <2>1, <2>2, <2>11, RestartStep DEF Promise!Next
    <2>12. CASE CutStore
      BY <2>1, <2>2, <2>12, CutStep DEF Promise!Next
    <2> QED BY <2>1, <2>3, <2>4, <2>5, <2>6, <2>7, <2>8, <2>9, <2>10, <2>11, <2>12 DEF Next
  <1> QED BY <1>1, <1>2

\* If the ids given to outputs are below 256 (OutputIdsFit), then as long as the
\* EEPROM has room for the station (Room): editing an object disturbs no other,
\* <E> keeps the definitions as they are, a state set on a stored output reaches
\* that output's record and no other's, a power-up brings back what is kept, and
\* a power cut in the first <E> leaves whole kinds or none (EEStore.cpp,
\* Turnouts.cpp, Sensors.cpp, Outputs.cpp): whatever the ids and flags, however
\* many objects, whatever the order of the commands.
THEOREM StoreRetention == OutputIdsFit => (MCSpec /\ []Room => ImplementsRetention)
  <1> SUFFICES ASSUME OutputIdsFit PROVE MCSpec /\ []Room => ImplementsRetention
    OBVIOUS
  <1>1. MCInit => KeptInv /\ Promise!Init
    BY KeptInvInit
  <1>2. KeptInv /\ Room /\ [MCNext]_<<vars, kept>> => KeptInv' /\ [Promise!Next]_(Promise!vars)
    BY StoreSteps
  <1> QED BY <1>1, <1>2, PTL DEF MCSpec, ImplementsRetention, Promise!Spec
=============================================================================
