------------------------------ MODULE WifiProofs -------------------------------
(***************************************************************************)
(* Proofs, for every set of client ids, requests, lengths of replies and of *)
(* the buffer, of the WiFi interface: what is executed is a request of the *)
(* client it is executed for, and a reply goes to the client that asked.   *)
(***************************************************************************)
EXTENDS WifiInterface, SequenceTheorems, TLAPS

-----------------------------------------------------------------------------
(* The first inductive invariant:  the line and what was read of it.  A    *)
(* plus sign in the line begins a whole request, since neither the modem's *)
(* answers nor the data of a request have one; so when a plus sign has been *)
(* read the line goes on with the rest of that request, and the counters   *)
(* are what has been read.  After a restart loopstate may say that "+IPD"   *)
(* was read when it was not: then no comma follows.                         *)

Chars ==
  {"nl", "+", "I", "P", "D", "comma", ":", "K", ">", ".", "R", "<", "G",
   "0", "1", "2", "3", "4", "5", "6", "7", "8", "9"}

\* The line continues with the request from its k-th character on.
Coming(f, k, kind, id) ==
  \A q \in (k + 1)..Len(IPD(kind, id)) :
    q - k \in DOMAIN f /\ f[q - k] = IPD(kind, id)[q]

\* Every plus sign in the line begins a whole request.
Framed(f) ==
  \A p \in DOMAIN f : f[p] = "+" =>
    \E kind \in Kinds, id \in Clients :
      \A q \in 2..Len(IPD(kind, id)) :
        p + q - 2 \in DOMAIN f /\ f[p + q - 2] = IPD(kind, id)[q]

Kept(data, n) == SubSeq(data, 1, IF n < MAX_WIFI_BUFFER THEN n ELSE MAX_WIFI_BUFFER)

InHeader(kind, id) ==
  \/ /\ loopstate \in 1..4 /\ connectionId = 0 /\ datalength = 0
     /\ Coming(fifo, loopstate + 1, kind, id)
  \/ /\ loopstate = 5 /\ connectionId = 0 /\ datalength = 0
     /\ Coming(fifo, 6, kind, id)
  \/ /\ loopstate = 5 /\ connectionId = id /\ datalength = 0
     /\ Coming(fifo, 7, kind, id)
  \/ /\ loopstate = 6 /\ connectionId = id /\ datalength = 0
     /\ Coming(fifo, 8, kind, id)
  \/ /\ loopstate = 6 /\ connectionId = id
     /\ datalength = Len(Payload(kind, id))
     /\ Coming(fifo, 9, kind, id)

InData(kind, id) ==
  LET data == Payload(kind, id)
      had == Len(data) - datalength
  IN /\ loopstate = 7 /\ connectionId = id
     /\ datalength \in 1..Len(data) /\ buffer = Kept(data, had)
     /\ Coming(fifo, 10 + had, kind, id)

Complete(kind, id) ==
  /\ loopstate = 99 /\ connectionId = id /\ datalength = 0
  /\ buffer = Kept(Payload(kind, id), Len(Payload(kind, id)))

Listening == loopstate \in {0, 10, 11, 12} /\ datalength = 0
Strayed ==
  /\ loopstate = 4 /\ datalength = 0
  /\ fifo # <<>> => fifo[1] # "comma"

LineInv ==
  /\ fifo \in Seq(Chars) /\ Framed(fifo)
  /\ \/ Listening \/ Strayed
     \/ \E kind \in Kinds, id \in Clients :
          InHeader(kind, id) \/ InData(kind, id) \/ Complete(kind, id)
  /\ ExecutesWholeRequests

-----------------------------------------------------------------------------
(* What a request looks like.                                              *)

LEMMA DigitsReadBack ==
  \A n \in 0..9 : /\ Printed(n) \in Chars \ {"+", "comma", ":"}
                  /\ Digit(Printed(n)) = n
  <1>1. \A n \in 0..9 : Printed(n) \in Chars \ {"+", "comma", ":"}
    <2> DEFINE Numerals == {"0", "1", "2", "3", "4", "5", "6", "7", "8", "9"}
    <2>1. \A i \in 1..10 : Digits[i] \in Numerals
      BY DEF Digits
    <2>2. Numerals \subseteq Chars \ {"+", "comma", ":"}
      BY DEF Chars
    <2> HIDE DEF Numerals
    <2>3. \A n \in 0..9 : n + 1 \in 1..10
      OBVIOUS
    <2> QED
      BY <2>1, <2>2, <2>3 DEF Printed
  <1>2. \A m, n \in 0..9 : Printed(m) = Printed(n) => m = n
    BY DEF Printed, Digits
  <1> QED
    BY <1>1, <1>2 DEF Digit

LEMMA PayloadShape ==
  ASSUME NEW kind \in Kinds, NEW id \in Clients
  PROVE  LET data == Payload(kind, id)
         IN /\ data \in Seq(Chars) /\ Len(data) \in {1, 3, 4}
            /\ \A j \in 1..Len(data) : data[j] # "+"
  <1>1. id \in 0..9 /\ kind \in {"jmri", "withrottle", "http"}
    BY WifiAssumption
  <1>2. Printed(id) \in Chars \ {"+"}
    BY <1>1, DigitsReadBack
  <1>3. {"<", ">", "G", "."} \subseteq Chars \ {"+"}
    BY DEF Chars
  <1>4. CASE kind = "jmri"
    BY <1>2, <1>3, <1>4 DEF Payload
  <1>5. CASE kind = "withrottle"
    BY <1>2, <1>3, <1>5 DEF Payload
  <1>6. CASE kind = "http"
    BY <1>2, <1>3, <1>6 DEF Payload
  <1> QED
    BY <1>1, <1>4, <1>5, <1>6

LEMMA TenLong ==
  ASSUME NEW S, NEW a \in S, NEW b \in S, NEW c \in S, NEW d \in S, NEW e \in S,
         NEW f \in S, NEW g \in S, NEW h \in S, NEW i \in S, NEW j \in S
  PROVE  <<a, b, c, d, e, f, g, h, i, j>> \in Seq(S)
  OBVIOUS

LEMMA RequestShape ==
  ASSUME NEW kind \in Kinds, NEW id \in Clients
  PROVE  LET data == Payload(kind, id)
             ipd == IPD(kind, id)
         IN /\ ipd \in Seq(Chars) /\ Len(ipd) = 10 + Len(data)
            /\ ipd[1] = "nl" /\ ipd[2] = "+" /\ ipd[3] = "I" /\ ipd[4] = "P"
            /\ ipd[5] = "D" /\ ipd[6] = "comma" /\ ipd[7] = Printed(id) /\ ipd[8] = "comma"
            /\ ipd[9] = Printed(Len(data)) /\ ipd[10] = ":"
            /\ \A j \in 1..Len(data) : ipd[10 + j] = data[j]
            /\ \A q \in 3..Len(ipd) : ipd[q] # "+"
  <1> DEFINE data == Payload(kind, id)
             name == Printed(id)
             length == Printed(Len(data))
             head == <<"nl", "+", "I", "P", "D", "comma", name, "comma", length, ":">>
  <1>1. /\ data \in Seq(Chars) /\ Len(data) \in {1, 3, 4}
        /\ \A j \in 1..Len(data) : data[j] # "+"
    BY PayloadShape
  <1>2. IPD(kind, id) = head \o data
    BY DEF IPD
  <1> HIDE DEF data
  <1>3. name \in Chars \ {"+"} /\ length \in Chars \ {"+"}
    <2>1. id \in 0..9 /\ Len(data) \in 0..9
      BY <1>1, WifiAssumption
    <2> QED
      BY <2>1, DigitsReadBack
  <1> HIDE DEF name, length
  <1>4. head \in Seq(Chars) /\ Len(head) = 10
    <2>1. \A c \in {"nl", "+", "I", "P", "D", "comma", ":"} : c \in Chars
      BY DEF Chars
    <2>2. /\ "nl" \in Chars /\ "+" \in Chars /\ "I" \in Chars /\ "P" \in Chars
          /\ "D" \in Chars /\ "comma" \in Chars /\ ":" \in Chars
      BY <2>1
    <2>3. Len(head) = 10
      OBVIOUS
    <2>4. head \in Seq(Chars)
      BY <1>3, <2>2, TenLong
    <2> QED
      BY <2>3, <2>4
  <1>5. /\ head[1] = "nl" /\ head[2] = "+" /\ head[3] = "I" /\ head[4] = "P"
        /\ head[5] = "D" /\ head[6] = "comma" /\ head[7] = name /\ head[8] = "comma"
        /\ head[9] = length /\ head[10] = ":"
    OBVIOUS
  <1> HIDE DEF head
  <1>6. /\ head \o data \in Seq(Chars) /\ Len(head \o data) = 10 + Len(data)
        /\ \A q \in 1..(10 + Len(data)) : (head \o data)[q] =
             IF q <= 10 THEN head[q] ELSE data[q - 10]
    <2>1. /\ head \o data \in Seq(Chars) /\ Len(head \o data) = Len(head) + Len(data)
          /\ \A q \in 1..(Len(head) + Len(data)) : (head \o data)[q] =
               IF q <= Len(head) THEN head[q] ELSE data[q - Len(head)]
      BY <1>1, <1>4, ConcatProperties
    <2> QED
      BY <1>4, <2>1
  <1>7. \A q \in 1..10 : (head \o data)[q] = head[q]
    BY <1>1, <1>6
  <1>8. \A j \in 1..Len(data) : (head \o data)[10 + j] = data[j]
    BY <1>1, <1>6
  <1>9. \A q \in 3..(10 + Len(data)) : (head \o data)[q] # "+"
    <2>1. ASSUME NEW q \in 3..10 PROVE head[q] # "+"
      <3>1. q \in {3, 4, 5, 6, 7, 8, 9, 10}
        OBVIOUS
      <3> QED
        BY <1>3, <1>5, <3>1
    <2> QED
      BY SMTT(20), <1>1, <1>6, <2>1
  <1>10. /\ IPD(kind, id) \in Seq(Chars) /\ Len(IPD(kind, id)) = 10 + Len(data)
         /\ \A q \in 1..10 : IPD(kind, id)[q] = head[q]
         /\ \A j \in 1..Len(data) : IPD(kind, id)[10 + j] = data[j]
         /\ \A q \in 3..Len(IPD(kind, id)) : IPD(kind, id)[q] # "+"
    BY <1>2, <1>6, <1>7, <1>8, <1>9
  <1>11. \A q \in {1, 2, 3, 4, 5, 6, 7, 8, 9, 10} : IPD(kind, id)[q] = head[q]
    BY <1>10
  <1>12. LET ipd == IPD(kind, id)
         IN /\ ipd[1] = "nl" /\ ipd[2] = "+" /\ ipd[3] = "I" /\ ipd[4] = "P"
            /\ ipd[5] = "D" /\ ipd[6] = "comma" /\ ipd[7] = name /\ ipd[8] = "comma"
            /\ ipd[9] = length /\ ipd[10] = ":"
    BY <1>5, <1>11
  <1> QED
    BY <1>10, <1>12, Zenon DEF data, name, length

LEMMA RequestLength ==
  ASSUME NEW kind \in Kinds, NEW id \in Clients
  PROVE  Len(IPD(kind, id)) \in {11, 13, 14}
  <1>1. Len(Payload(kind, id)) \in {1, 3, 4}
    BY PayloadShape
  <1>2. Len(IPD(kind, id)) = 10 + Len(Payload(kind, id))
    BY RequestShape
  <1>3. \A n \in {1, 3, 4} : 10 + n \in {11, 13, 14}
    OBVIOUS
  <1> QED
    BY <1>1, <1>2, <1>3

-----------------------------------------------------------------------------
(* Reading from the line, and writing to it.                               *)

\* A character is read.
LEMMA ReadOne ==
  ASSUME fifo \in Seq(Chars), fifo # <<>>, Framed(fifo)
  PROVE  /\ ch \in Chars /\ ch = fifo[1] /\ rest \in Seq(Chars) /\ Framed(rest)
         /\ ch = "+" => \E kind \in Kinds, id \in Clients : Coming(rest, 2, kind, id)
         /\ \A k \in 1..13, kind \in Kinds, id \in Clients :
              Coming(fifo, k, kind, id) /\ k < Len(IPD(kind, id)) =>
                ch = IPD(kind, id)[k + 1] /\ Coming(rest, k + 1, kind, id)
  <1>1. /\ Len(fifo) \in Nat \ {0} /\ DOMAIN fifo = 1..Len(fifo)
        /\ ch = fifo[1] /\ ch \in Chars /\ rest \in Seq(Chars)
        /\ DOMAIN rest = 1..(Len(fifo) - 1)
        /\ \A i \in 1..(Len(fifo) - 1) : rest[i] = fifo[i + 1]
    BY HeadTailProperties DEF ch, rest
  <1>2. ASSUME NEW kind \in Kinds, NEW id \in Clients
        PROVE  Len(IPD(kind, id)) \in {11, 13, 14}
    BY RequestLength
  <1>3. Framed(rest)
    <2> SUFFICES ASSUME NEW p \in DOMAIN rest, rest[p] = "+"
                 PROVE  \E kind \in Kinds, id \in Clients :
                          \A q \in 2..Len(IPD(kind, id)) :
                            /\ p + q - 2 \in DOMAIN rest
                            /\ rest[p + q - 2] = IPD(kind, id)[q]
      BY DEF Framed
    <2>1. p + 1 \in DOMAIN fifo /\ fifo[p + 1] = "+"
      BY <1>1
    <2>2. PICK kind \in Kinds, id \in Clients :
            \A q \in 2..Len(IPD(kind, id)) :
              (p + 1) + q - 2 \in DOMAIN fifo /\ fifo[(p + 1) + q - 2] = IPD(kind, id)[q]
      BY <2>1 DEF Framed
    <2>3. ASSUME NEW q \in 2..Len(IPD(kind, id))
          PROVE  p + q - 2 \in DOMAIN rest /\ rest[p + q - 2] = IPD(kind, id)[q]
      BY <1>1, <1>2, <2>2
    <2> QED
      BY <2>3
  <1>4. ASSUME ch = "+"
        PROVE  \E kind \in Kinds, id \in Clients : Coming(rest, 2, kind, id)
    <2>1. PICK kind \in Kinds, id \in Clients :
            \A q \in 2..Len(IPD(kind, id)) :
              1 + q - 2 \in DOMAIN fifo /\ fifo[1 + q - 2] = IPD(kind, id)[q]
      <3>1. 1 \in DOMAIN fifo /\ fifo[1] = "+"
        BY <1>1, <1>4
      <3> QED
        BY <3>1 DEF Framed
    <2>2. ASSUME NEW q \in 3..Len(IPD(kind, id))
          PROVE  q - 2 \in DOMAIN rest /\ rest[q - 2] = IPD(kind, id)[q]
      BY <1>1, <1>2, <2>1
    <2> QED
      BY <2>2 DEF Coming
  <1>5. ASSUME NEW k \in 1..13, NEW kind \in Kinds, NEW id \in Clients,
               Coming(fifo, k, kind, id), k < Len(IPD(kind, id))
        PROVE  ch = IPD(kind, id)[k + 1] /\ Coming(rest, k + 1, kind, id)
    <2>1. ch = IPD(kind, id)[k + 1]
      BY <1>1, <1>2, <1>5 DEF Coming
    <2>2. ASSUME NEW q \in (k + 2)..Len(IPD(kind, id))
          PROVE  q - (k + 1) \in DOMAIN rest /\ rest[q - (k + 1)] = IPD(kind, id)[q]
      <3>1. q - k \in DOMAIN fifo /\ fifo[q - k] = IPD(kind, id)[q]
        BY <1>2, <1>5, <2>2 DEF Coming
      <3>2. q \in Int /\ k \in Int /\ q - k >= 2
        BY <1>2, <2>2
      <3>3. q - (k + 1) = (q - k) - 1 /\ q - k \in 1..Len(fifo)
        BY <1>1, <3>1, <3>2
      <3>4. q - (k + 1) \in 1..(Len(fifo) - 1)
        BY <1>1, <3>2, <3>3
      <3>5. rest[q - (k + 1)] = fifo[(q - (k + 1)) + 1]
        BY <1>1, <3>4
      <3>6. (q - (k + 1)) + 1 = q - k
        BY <3>2
      <3> QED
        BY <1>1, <3>1, <3>4, <3>5, <3>6
    <2> QED
      BY <2>1, <2>2 DEF Coming
  <1> QED
    BY <1>1, <1>3, <1>4, <1>5

\* Something is written behind what is there.
LEMMA Written ==
  ASSUME NEW f \in Seq(Chars), NEW e \in Seq(Chars), Framed(f), Framed(e)
  PROVE  /\ f \o e \in Seq(Chars) /\ Framed(f \o e)
         /\ \A k \in Int, kind \in Kinds, id \in Clients :
              Coming(f, k, kind, id) => Coming(f \o e, k, kind, id)
         /\ (f # <<>> => f[1] # "comma") /\ (e # <<>> => e[1] # "comma") =>
              (f \o e # <<>> => (f \o e)[1] # "comma")
  <1>1. /\ Len(f) \in Nat /\ DOMAIN f = 1..Len(f)
        /\ Len(e) \in Nat /\ DOMAIN e = 1..Len(e)
    OBVIOUS
  <1>2. /\ f \o e \in Seq(Chars) /\ Len(f \o e) = Len(f) + Len(e)
        /\ \A i \in 1..(Len(f) + Len(e)) : (f \o e)[i] =
             IF i <= Len(f) THEN f[i] ELSE e[i - Len(f)]
    BY ConcatProperties
  <1> DEFINE g == f \o e
  <1> HIDE DEF g
  <1>3. /\ g \in Seq(Chars) /\ DOMAIN g = 1..(Len(f) + Len(e))
        /\ \A i \in 1..Len(f) : g[i] = f[i]
        /\ \A i \in 1..Len(e) : g[Len(f) + i] = e[i]
        /\ \A i \in (Len(f) + 1)..(Len(f) + Len(e)) : g[i] = e[i - Len(f)]
    BY <1>1, <1>2 DEF g
  <1>4. \A i \in DOMAIN f : i \in DOMAIN g /\ g[i] = f[i]
    BY <1>1, <1>3
  <1>5. Framed(g)
    <2> SUFFICES ASSUME NEW p \in DOMAIN g, g[p] = "+"
                 PROVE  \E kind \in Kinds, id \in Clients :
                          \A q \in 2..Len(IPD(kind, id)) :
                            p + q - 2 \in DOMAIN g /\ g[p + q - 2] = IPD(kind, id)[q]
      BY DEF Framed
    <2>1. CASE p \in DOMAIN f
      <3>1. f[p] = "+"
        BY <1>4, <2>1
      <3> QED
        BY <1>4, <2>1, <3>1 DEF Framed
    <2>2. CASE p \notin DOMAIN f
      <3>1. p - Len(f) \in DOMAIN e /\ e[p - Len(f)] = "+"
        BY <1>1, <1>3, <2>2
      <3>2. PICK kind \in Kinds, id \in Clients :
              \A q \in 2..Len(IPD(kind, id)) :
                /\ (p - Len(f)) + q - 2 \in DOMAIN e
                /\ e[(p - Len(f)) + q - 2] = IPD(kind, id)[q]
        BY <3>1 DEF Framed
      <3>3. ASSUME NEW q \in 2..Len(IPD(kind, id))
            PROVE  p + q - 2 \in DOMAIN g /\ g[p + q - 2] = IPD(kind, id)[q]
        <4>1. q \in Int /\ p \in Int
          BY <1>3
        <4>2. Len(f) + ((p - Len(f)) + q - 2) = p + q - 2
          BY <1>1, <4>1
        <4> QED
          BY <1>1, <1>3, <3>2, <4>1, <4>2
      <3> QED
        BY <3>3
    <2> QED
      BY <2>1, <2>2
  <1>6. ASSUME NEW k \in Int, NEW kind \in Kinds, NEW id \in Clients,
               Coming(f, k, kind, id)
        PROVE  Coming(g, k, kind, id)
    BY <1>4, <1>6 DEF Coming
  <1>7. ASSUME f # <<>> => f[1] # "comma", e # <<>> => e[1] # "comma", g # <<>>
        PROVE  g[1] # "comma"
    <2>1. CASE f # <<>>
      <3>1. 1 \in DOMAIN f
        BY <1>1, <2>1, EmptySeq
      <3> QED
        BY <1>4, <1>7, <2>1, <3>1
    <2>2. CASE f = <<>>
      <3>1. g = e
        BY <2>2, ConcatEmptySeq DEF g
      <3> QED
        BY <1>7, <3>1
    <2> QED
      BY <2>1, <2>2
  <1> QED
    BY <1>3, <1>5, <1>6, <1>7 DEF g

\* What the modem says by itself is no part of a request.
Answers == {<<>>, <<"K">>, <<"R">>, <<".">>, <<"K", ">">>}

LEMMA AnswersArePlain ==
  ASSUME NEW e \in Answers
  PROVE  e \in Seq(Chars) /\ Framed(e) /\ (e # <<>> => e[1] # "comma")
  <1>1. "K" \in Chars /\ "R" \in Chars /\ "." \in Chars /\ ">" \in Chars
    BY DEF Chars
  <1>2. /\ e \in Seq(Chars) /\ \A i \in DOMAIN e : e[i] # "+"
        /\ e # <<>> => e[1] # "comma"
    <2>1. CASE e = <<>>
      BY <2>1
    <2>2. CASE e = <<"K">>
      BY <1>1, <2>2
    <2>3. CASE e = <<"R">>
      BY <1>1, <2>3
    <2>4. CASE e = <<".">>
      BY <1>1, <2>4
    <2>5. CASE e = <<"K", ">">>
      BY <1>1, <2>5
    <2> QED
      BY <2>1, <2>2, <2>3, <2>4, <2>5 DEF Answers
  <1> QED
    BY <1>2 DEF Framed

LEMMA RequestsAreFramed ==
  ASSUME NEW kind \in Kinds, NEW id \in Clients
  PROVE  /\ IPD(kind, id) \in Seq(Chars) /\ Framed(IPD(kind, id))
         /\ IPD(kind, id)[1] # "comma"
  <1> DEFINE ipd == IPD(kind, id)
  <1>1. /\ ipd \in Seq(Chars) /\ ipd[1] = "nl"
        /\ \A q \in 3..Len(ipd) : ipd[q] # "+"
    BY RequestShape
  <1> HIDE DEF ipd
  <1>2. DOMAIN ipd = 1..Len(ipd) /\ Len(ipd) \in Nat
    BY <1>1
  <1>3. ASSUME NEW p \in DOMAIN ipd, ipd[p] = "+" PROVE p = 2
    BY <1>1, <1>2, <1>3
  <1>4. \A q \in 2..Len(ipd) : 2 + q - 2 = q /\ q \in DOMAIN ipd
    BY <1>2
  <1>5. Framed(ipd)
    BY <1>3, <1>4 DEF Framed, ipd
  <1> QED
    BY <1>1, <1>5 DEF ipd

\* What the station says leaves the line as it was read, with an answer.
LEMMA Spoken ==
  ASSUME NEW id, NEW left, left \in Seq(Chars),
         \/ \E n : CIPSEND(id, n, left)
         \/ CIPCLOSE(id, left) \/ Send(left) \/ Silent(left)
  PROVE  \E e \in Answers : fifo' = left \o e
  <1>1. fifo' \in {left, left \o <<"K">>, left \o <<"R">>, left \o <<".">>,
                   left \o <<"K", ">">>}
    BY DEF CIPSEND, CIPCLOSE, Send, Silent
  <1>2. left = left \o <<>>
    BY ConcatEmptySeq
  <1> QED
    BY <1>1, <1>2 DEF Answers

-----------------------------------------------------------------------------
(* The steps.                                                              *)

\* Outside a request anything may be read and answered.
LEMMA Listens ==
  ASSUME NEW left \in Seq(Chars), Framed(left), NEW e \in Answers,
         fifo' = left \o e, loopstate' \in {0, 10, 11, 12}, datalength' = 0,
         ExecutesWholeRequests'
  PROVE  LineInv'
  <1>1. fifo' \in Seq(Chars) /\ Framed(fifo')
    BY AnswersArePlain, Written
  <1> QED
    BY <1>1 DEF LineInv, Listening

LEMMA Begins ==
  ASSUME LineInv, fifo # <<>>, ch = "+", GoTo(1), connectionId' = 0,
         datalength' = 0, executed' = executed
  PROVE  LineInv'
  <1>1. fifo' = rest /\ loopstate' = 1
    BY DEF GoTo, Silent
  <1>2. rest \in Seq(Chars) /\ Framed(rest)
    BY ReadOne DEF LineInv
  <1>3. PICK kind \in Kinds, id \in Clients : Coming(rest, 2, kind, id)
    BY ReadOne DEF LineInv
  <1>4. loopstate' \in 1..4 /\ loopstate' + 1 = 2
    BY <1>1
  <1>5. InHeader(kind, id)'
    BY <1>1, <1>3, <1>4 DEF InHeader
  <1>6. ExecutesWholeRequests'
    BY DEF LineInv, ExecutesWholeRequests
  <1> QED
    BY <1>1, <1>2, <1>5, <1>6 DEF LineInv

\* What follows a plus sign is read as it was sent.
LEMMA HeaderKeeps ==
  ASSUME LineInv, fifo # <<>>, Header, executed' = executed
  PROVE  LineInv'
  <1> DEFINE text == <<"I", "P", "D", "comma">>
  <1>0. text[1] = "I" /\ text[2] = "P" /\ text[3] = "D" /\ text[4] = "comma"
    OBVIOUS
  <1>7. ASSUME loopstate \in 1..4
        PROVE  GoTo(IF ch = text[loopstate] THEN loopstate + 1 ELSE 0)
               /\ UNCHANGED connectionId
    BY <1>7 DEF Header
  <1> HIDE DEF text
  <1>1. /\ ch \in Chars /\ ch = fifo[1] /\ rest \in Seq(Chars) /\ Framed(rest)
        /\ \A k \in 1..13, kind \in Kinds, id \in Clients :
              Coming(fifo, k, kind, id) /\ k < Len(IPD(kind, id)) =>
                ch = IPD(kind, id)[k + 1] /\ Coming(rest, k + 1, kind, id)
    BY ReadOne DEF LineInv
  <1>2. ExecutesWholeRequests'
    BY DEF LineInv, ExecutesWholeRequests
  <1>3. datalength' = datalength
    BY DEF Header
  <1>4. CASE loopstate = 0
    <2>1. datalength = 0
      BY <1>4 DEF LineInv, Listening, Strayed, InHeader, InData, Complete
    <2>2. CASE ch = "+"
      BY <1>3, <1>4, <2>1, <2>2, Begins DEF Header
    <2>3. CASE ch # "+"
      <3>1. loopstate' = 0 /\ Silent(rest)
        BY <1>4, <2>3 DEF Header, GoTo
      <3> QED
        BY <1>1, <1>2, <1>3, <2>1, <3>1, Spoken, Listens
    <2> QED
      BY <2>2, <2>3
  <1>5. CASE loopstate \in 1..4 /\ Strayed
    <2>1. loopstate = 4 /\ ch # "comma"
      BY <1>1, <1>5 DEF Strayed
    <2>2. loopstate' = 0 /\ Silent(rest)
      BY <1>0, <1>7, <2>1 DEF GoTo
    <2> QED
      BY <1>1, <1>2, <1>3, <1>5, <2>2, Spoken, Listens DEF Strayed
  <1>6. CASE loopstate \in 1..4 /\ ~Strayed
    <2>1. PICK kind \in Kinds, id \in Clients :
            connectionId = 0 /\ datalength = 0 /\ Coming(fifo, loopstate + 1, kind, id)
      <3>1. PICK kind \in Kinds, id \in Clients :
              InHeader(kind, id) \/ InData(kind, id) \/ Complete(kind, id)
        BY <1>6 DEF LineInv, Listening
      <3> QED
        BY <1>6, <3>1 DEF InHeader, InData, Complete
    <2> DEFINE ipd == IPD(kind, id)
    <2>2. /\ Len(ipd) \in {11, 13, 14} /\ ipd[3] = "I" /\ ipd[4] = "P"
          /\ ipd[5] = "D" /\ ipd[6] = "comma"
      BY RequestShape, RequestLength
    <2>3. ch = ipd[loopstate + 2] /\ Coming(rest, loopstate + 2, kind, id)
      <3>1. loopstate + 1 \in 1..13 /\ loopstate + 1 < Len(ipd)
            /\ (loopstate + 1) + 1 = loopstate + 2
        <4> HIDE DEF ipd
        <4> QED
          BY <1>6, <2>2
      <3> QED
        BY <1>1, <2>1, <3>1
    <2> HIDE DEF ipd
    <2>4. ch = text[loopstate]
      <3>1. CASE loopstate = 1
        BY <1>0, <2>2, <2>3, <3>1
      <3>2. CASE loopstate = 2
        BY <1>0, <2>2, <2>3, <3>2
      <3>3. CASE loopstate = 3
        BY <1>0, <2>2, <2>3, <3>3
      <3>4. CASE loopstate = 4
        BY <1>0, <2>2, <2>3, <3>4
      <3> QED
        BY <1>6, <3>1, <3>2, <3>3, <3>4
    <2>5. loopstate' = loopstate + 1 /\ fifo' = rest /\ connectionId' = 0
      BY <1>6, <1>7, <2>1, <2>4 DEF GoTo, Silent
    <2>6. InHeader(kind, id)'
      <3>1. CASE loopstate = 4
        BY <1>3, <2>1, <2>3, <2>5, <3>1 DEF InHeader
      <3>2. CASE loopstate # 4
        <4>1. loopstate' \in 1..4 /\ loopstate' + 1 = loopstate + 2
          BY <1>6, <2>5, <3>2
        <4> QED
          BY <1>3, <2>1, <2>3, <2>5, <4>1 DEF InHeader
      <3> QED
        BY <3>1, <3>2
    <2> QED
      BY <1>1, <1>2, <2>5, <2>6 DEF LineInv
  <1> QED
    BY <1>4, <1>5, <1>6 DEF Header

\* The id and the length are read as they were printed.
LEMMA NumbersKeep ==
  ASSUME LineInv, fifo # <<>>, Numbers, executed' = executed
  PROVE  LineInv'
  <1>1. /\ rest \in Seq(Chars) /\ Framed(rest)
        /\ \A k \in 1..13, kind \in Kinds, id \in Clients :
              Coming(fifo, k, kind, id) /\ k < Len(IPD(kind, id)) =>
                ch = IPD(kind, id)[k + 1] /\ Coming(rest, k + 1, kind, id)
    BY ReadOne DEF LineInv
  <1>2. ExecutesWholeRequests'
    BY DEF LineInv, ExecutesWholeRequests
  <1>3. loopstate \in {5, 6} /\ fifo' = rest
    BY DEF Numbers, GoTo, Silent
  <1>4. PICK kind \in Kinds, id \in Clients : InHeader(kind, id)
    BY <1>3 DEF LineInv, Listening, Strayed, InData, Complete
  <1> DEFINE ipd == IPD(kind, id)
             length == Len(Payload(kind, id))
  <1>5. /\ ipd[7] = Printed(id) /\ ipd[8] = "comma" /\ ipd[9] = Printed(length)
        /\ ipd[10] = ":"
    BY RequestShape
  <1>6. Len(ipd) \in {11, 13, 14} /\ length \in {1, 3, 4}
    BY RequestLength, PayloadShape
  <1>7. id \in 0..9
    BY WifiAssumption
  <1> HIDE DEF ipd, length
  <1>8. \A k \in {6, 7, 8, 9} : k \in 1..13 /\ k < Len(ipd)
    <2>1. \A n \in {11, 13, 14}, k \in {6, 7, 8, 9} : k \in 1..13 /\ k < n
      OBVIOUS
    <2> QED
      BY <1>6, <2>1
  <1>9. \A k \in {6, 7, 8, 9} :
          Coming(fifo, k, kind, id) => ch = ipd[k + 1] /\ Coming(rest, k + 1, kind, id)
    BY <1>1, <1>8 DEF ipd
  <1>10. \A n \in 0..9 : Printed(n) \notin {"comma", ":"} /\ Digit(Printed(n)) = n
    BY DigitsReadBack
  <1>11. \A n \in 0..9 : 10 * 0 + n = n
    OBVIOUS
  <1>12. CASE loopstate = 5 /\ connectionId = 0 /\ datalength = 0 /\ Coming(fifo, 6, kind, id)
    <2>1. ch = Printed(id) /\ Coming(rest, 7, kind, id)
      BY <1>5, <1>9, <1>12
    <2>2. ch # "comma" /\ Digit(ch) = id
      BY <1>7, <1>10, <2>1
    <2>3. loopstate' = 5 /\ connectionId' = 10 * connectionId + Digit(ch)
          /\ datalength' = datalength
      BY <1>12, <2>2 DEF Numbers, GoTo
    <2>4. connectionId' = id
      BY <1>7, <1>11, <1>12, <2>2, <2>3
    <2>5. InHeader(kind, id)'
      BY <1>3, <1>12, <2>1, <2>3, <2>4 DEF InHeader
    <2> QED
      BY <1>1, <1>2, <1>3, <2>5 DEF LineInv
  <1>13. CASE loopstate = 5 /\ connectionId = id /\ datalength = 0 /\ Coming(fifo, 7, kind, id)
    <2>1. ch = "comma" /\ Coming(rest, 8, kind, id)
      BY <1>5, <1>9, <1>13
    <2>2. loopstate' = 6 /\ connectionId' = connectionId /\ datalength' = datalength
      BY <1>13, <2>1 DEF Numbers, GoTo
    <2>3. InHeader(kind, id)'
      BY <1>3, <1>13, <2>1, <2>2 DEF InHeader
    <2> QED
      BY <1>1, <1>2, <1>3, <2>3 DEF LineInv
  <1>14. CASE loopstate = 6 /\ connectionId = id /\ datalength = 0 /\ Coming(fifo, 8, kind, id)
    <2>1. ch = Printed(length) /\ Coming(rest, 9, kind, id)
      BY <1>5, <1>9, <1>14
    <2>2. ch # ":" /\ Digit(ch) = length /\ length \in 0..9
      BY <1>6, <1>10, <2>1
    <2>3. loopstate' = 6 /\ connectionId' = connectionId
          /\ datalength' = 10 * datalength + Digit(ch)
      BY <1>14, <2>2 DEF Numbers, GoTo
    <2>4. datalength' = length
      BY <1>11, <1>14, <2>2, <2>3
    <2>5. InHeader(kind, id)'
      BY <1>3, <1>14, <2>1, <2>3, <2>4 DEF InHeader, length
    <2> QED
      BY <1>1, <1>2, <1>3, <2>5 DEF LineInv
  <1>15. CASE loopstate = 6 /\ connectionId = id /\ datalength = length
              /\ Coming(fifo, 9, kind, id)
    <2>1. ch = ":" /\ Coming(rest, 10, kind, id)
      BY <1>5, <1>9, <1>15
    <2>2. loopstate' = 7 /\ connectionId' = id /\ datalength' = length /\ buffer' = <<>>
      BY <1>6, <1>15, <2>1 DEF Numbers, GoTo
    <2>3. Kept(Payload(kind, id), 0) = <<>>
      <3>1. MAX_WIFI_BUFFER \in Nat /\ MAX_WIFI_BUFFER > 0
        BY WifiAssumption
      <3> QED
        BY <3>1, SubSeqEmpty DEF Kept
    <2>4. length - length = 0 /\ 10 + 0 = 10 /\ length \in 1..length
      BY <1>6
    <2>5. InData(kind, id)'
      <3> HIDE DEF Payload
      <3> SUFFICES /\ loopstate' = 7 /\ connectionId' = id
                   /\ datalength' \in 1..length
                   /\ buffer' = Kept(Payload(kind, id), length - datalength')
                   /\ Coming(fifo', 10 + (length - datalength'), kind, id)
        BY DEF InData, length
      <3> QED
        BY <1>3, <2>1, <2>2, <2>3, <2>4
    <2> QED
      BY <1>1, <1>2, <1>3, <2>5 DEF LineInv
  <1> QED
    BY <1>3, <1>4, <1>12, <1>13, <1>14, <1>15 DEF InHeader, length

\* One more character of the data is kept, if there is room.
LEMMA KeptMore ==
  ASSUME NEW data \in Seq(Chars), NEW n \in 0..(Len(data) - 1)
  PROVE  Kept(data, n + 1) =
           IF Len(Kept(data, n)) < MAX_WIFI_BUFFER THEN Append(Kept(data, n), data[n + 1])
                                                 ELSE Kept(data, n)
  <1> DEFINE max == MAX_WIFI_BUFFER
  <1>1. max \in Nat /\ max > 0 /\ Len(data) \in Nat /\ n \in Nat /\ n + 1 \in 1..Len(data)
    BY WifiAssumption
  <1> HIDE DEF max
  <1>2. CASE n < max
    <2>1. Kept(data, n) = SubSeq(data, 1, n)
      BY <1>2 DEF Kept, max
    <2>2. Len(SubSeq(data, 1, n)) = n
      BY <1>1, SubSeqProperties
    <2>3. Kept(data, n + 1) = SubSeq(data, 1, n + 1)
      <3>1. n + 1 <= max
        BY <1>1, <1>2
      <3> QED
        BY <1>1, <3>1 DEF Kept, max
    <2>4. SubSeq(data, 1, n + 1) = Append(SubSeq(data, 1, n), data[n + 1])
      <3> DEFINE short == SubSeq(data, 1, n)
                 long == SubSeq(data, 1, n + 1)
      <3>1. /\ short \in Seq(Chars) /\ Len(short) = n
            /\ \A i \in 1..n : short[i] = data[i]
        BY <1>1, SubSeqProperties
      <3>2. /\ long \in Seq(Chars) /\ Len(long) = n + 1
            /\ \A i \in 1..(n + 1) : long[i] = data[i]
        BY <1>1, SubSeqProperties
      <3>3. data[n + 1] \in Chars
        BY <1>1
      <3> HIDE DEF short, long
      <3>4. /\ Append(short, data[n + 1]) \in Seq(Chars)
            /\ Len(Append(short, data[n + 1])) = n + 1
            /\ \A i \in 1..n : Append(short, data[n + 1])[i] = data[i]
            /\ Append(short, data[n + 1])[n + 1] = data[n + 1]
        BY <3>1, <3>3, AppendProperties
      <3>5. \A i \in 1..(n + 1) : Append(short, data[n + 1])[i] = long[i]
        BY <1>1, <3>2, <3>4
      <3>6. long = Append(short, data[n + 1])
        BY <3>2, <3>4, <3>5
      <3> QED
        BY <3>6 DEF short, long
    <2> QED
      BY <1>2, <2>1, <2>2, <2>3, <2>4 DEF max
  <1>3. CASE n >= max
    <2>1. Kept(data, n) = SubSeq(data, 1, max) /\ Kept(data, n + 1) = SubSeq(data, 1, max)
      <3>1. ~(n < max) /\ ~(n + 1 < max)
        BY <1>1, <1>3
      <3> QED
        BY <3>1 DEF Kept, max
    <2>2. Len(SubSeq(data, 1, max)) = max
      BY <1>1, <1>3, SubSeqProperties
    <2>3. ~(max < max)
      BY <1>1
    <2> QED
      BY <2>1, <2>2, <2>3 DEF max
  <1> QED
    BY <1>1, <1>2, <1>3

LEMMA DataKeeps ==
  ASSUME LineInv, fifo # <<>>, Data, executed' = executed
  PROVE  LineInv'
  <1>1. /\ rest \in Seq(Chars) /\ Framed(rest)
        /\ \A k \in 1..13, kind \in Kinds, id \in Clients :
              Coming(fifo, k, kind, id) /\ k < Len(IPD(kind, id)) =>
                ch = IPD(kind, id)[k + 1] /\ Coming(rest, k + 1, kind, id)
    BY ReadOne DEF LineInv
  <1>2. ExecutesWholeRequests'
    BY DEF LineInv, ExecutesWholeRequests
  <1>3. PICK kind \in Kinds, id \in Clients : InData(kind, id)
    BY DEF Data, LineInv, Listening, Strayed, InHeader, Complete
  <1> DEFINE data == Payload(kind, id)
             ipd == IPD(kind, id)
             had == Len(data) - datalength
  <1>4. /\ data \in Seq(Chars) /\ Len(data) \in {1, 3, 4} /\ Len(ipd) = 10 + Len(data)
        /\ \A j \in 1..Len(data) : ipd[10 + j] = data[j]
    BY PayloadShape, RequestShape
  <1>5. /\ connectionId = id /\ datalength \in 1..Len(data)
        /\ buffer = Kept(data, had) /\ Coming(fifo, 10 + had, kind, id)
    BY <1>3 DEF InData
  <1> HIDE DEF data, ipd
  <1> DEFINE length == Len(data)
             total == Len(ipd)
  <1>6. /\ had \in 0..(length - 1) /\ length \in Nat /\ 10 + had \in 1..13
        /\ 10 + had < total /\ (10 + had) + 1 = 10 + (had + 1)
        /\ had + 1 = length - (datalength - 1) /\ had + 1 \in 1..length
    <2>1. length \in {1, 3, 4} /\ datalength \in 1..length /\ total = 10 + length
          /\ had = length - datalength
      BY <1>4, <1>5
    <2> HIDE DEF length, total, had
    <2> QED
      BY <2>1
  <1> HIDE DEF had
  <1>7. ch = data[had + 1] /\ Coming(rest, 10 + (had + 1), kind, id)
    <2>1. ch = ipd[(10 + had) + 1] /\ Coming(rest, (10 + had) + 1, kind, id)
      BY <1>1, <1>5, <1>6 DEF ipd
    <2> QED
      BY <1>4, <1>6, <2>1
  <1>8. buffer' = Kept(data, had + 1)
    <2>1. buffer' = IF Len(buffer) < MAX_WIFI_BUFFER THEN Append(buffer, ch) ELSE buffer
      BY DEF Data
    <2> QED
      BY <1>4, <1>5, <1>6, <1>7, <2>1, KeptMore
  <1>9. /\ datalength' = datalength - 1 /\ connectionId' = id /\ fifo' = rest
        /\ loopstate' = IF datalength = 1 THEN 99 ELSE 7
    BY <1>5 DEF Data, GoTo, Silent
  <1>10. CASE datalength = 1
    <2>1. had + 1 = Len(data) /\ datalength' = 0 /\ loopstate' = 99
      BY <1>6, <1>9, <1>10
    <2>2. Complete(kind, id)'
      BY <1>8, <1>9, <2>1 DEF Complete, data
    <2> QED
      BY <1>1, <1>2, <1>9, <2>2 DEF LineInv
  <1>11. CASE datalength # 1
    <2>1. /\ datalength' \in 1..Len(data) /\ loopstate' = 7
          /\ Len(data) - datalength' = had + 1
      <3>1. length \in Nat /\ datalength \in 1..length
            /\ had + 1 = length - (datalength - 1)
        BY <1>5, <1>6
      <3>2. datalength' = datalength - 1 /\ loopstate' = 7
        BY <1>9, <1>11
      <3> HIDE DEF length
      <3>3. datalength' \in 1..length /\ length - datalength' = had + 1
        BY <1>11, <3>1, <3>2
      <3> QED
        BY <3>2, <3>3 DEF length
    <2>2. InData(kind, id)'
      <3> SUFFICES /\ loopstate' = 7 /\ connectionId' = id
                   /\ datalength' \in 1..Len(data)
                   /\ buffer' = Kept(data, Len(data) - datalength')
                   /\ Coming(fifo', 10 + (Len(data) - datalength'), kind, id)
        BY DEF InData, data
      <3> QED
        BY <1>7, <1>8, <1>9, <2>1
    <2> QED
      BY <1>1, <1>2, <1>9, <2>2 DEF LineInv
  <1> QED
    BY <1>10, <1>11

\* The reply: nothing of it reads or writes a request.
LEMMA ReplyingKeeps ==
  ASSUME LineInv, fifo # <<>>, AwaitPrompt \/ AwaitSent \/ Retry, executed' = executed
  PROVE  LineInv'
  <1>1. rest \in Seq(Chars) /\ Framed(rest)
    BY ReadOne DEF LineInv
  <1>2. ExecutesWholeRequests'
    BY DEF LineInv, ExecutesWholeRequests
  <1>3. loopstate \in {10, 11, 12} /\ datalength' = datalength
    BY DEF AwaitPrompt, AwaitSent, Retry
  <1>4. datalength = 0
    BY <1>3 DEF LineInv, Listening, Strayed, InHeader, InData, Complete
  <1>5. CASE ch = "+" /\ connectionId' = 0 /\ GoTo(1)
    BY <1>3, <1>4, <1>5, Begins
  <1>6. CASE /\ loopstate' \in {0, 10, 11, 12}
             /\ \/ CIPSEND(connectionId, Len(buffer), rest)
                \/ CIPCLOSE(connectionId, rest) \/ Send(rest) \/ Silent(rest)
    <2>1. PICK e \in Answers : fifo' = rest \o e
      BY <1>1, <1>6, Spoken
    <2> QED
      BY <1>1, <1>2, <1>3, <1>4, <1>6, <2>1, Listens
  <1> QED
    BY <1>5, <1>6 DEF AwaitPrompt, AwaitSent, Retry, GoTo

LEMMA TimeOutKeeps ==
  ASSUME LineInv, TimeOut
  PROVE  LineInv'
  <1>1. /\ fifo # <<>> /\ loopstate \in {10, 11} /\ loopstate' = 0 /\ Silent(rest)
        /\ datalength' = datalength /\ executed' = executed
    BY DEF TimeOut, GoTo
  <1>2. rest \in Seq(Chars) /\ Framed(rest)
    BY <1>1, ReadOne DEF LineInv
  <1>3. ExecutesWholeRequests'
    BY <1>1 DEF LineInv, ExecutesWholeRequests
  <1>4. datalength = 0
    BY <1>1 DEF LineInv, Listening, Strayed, InHeader, InData, Complete
  <1>5. PICK e \in Answers : fifo' = rest \o e
    BY <1>1, <1>2, Spoken
  <1> QED
    BY <1>1, <1>2, <1>3, <1>4, <1>5, Listens

LEMMA ProcessKeeps ==
  ASSUME LineInv, Process
  PROVE  LineInv'
  <1>1. /\ loopstate = 99 /\ executed' = [client |-> connectionId, data |-> buffer]
        /\ loopstate' \in {0, 10} /\ datalength' = datalength
    BY DEF Process
  <1>2. \/ \E n : CIPSEND(connectionId, n, fifo)
        \/ CIPCLOSE(connectionId, fifo) \/ Silent(fifo)
    BY DEF Process
  <1>3. PICK kind \in Kinds, id \in Clients : Complete(kind, id)
    BY <1>1 DEF LineInv, Listening, Strayed, InHeader, InData
  <1>4. fifo \in Seq(Chars) /\ Framed(fifo)
    BY DEF LineInv
  <1>5. ExecutesWholeRequests'
    BY <1>1, <1>3 DEF Complete, Kept, FirstOf, ExecutesWholeRequests
  <1>6. PICK e \in Answers : fifo' = fifo \o e
    BY <1>2, <1>4, Spoken
  <1> QED
    BY <1>1, <1>3, <1>4, <1>5, <1>6, Listens DEF Complete

\* What comes behind the line changes nothing of what is being read.
LEMMA GrowsKeep ==
  ASSUME LineInv, NEW e \in Seq(Chars), Framed(e), e # <<>> => e[1] # "comma",
         fifo' = fifo \o e, UNCHANGED station
  PROVE  LineInv'
  <1>1. /\ loopstate' = loopstate /\ connectionId' = connectionId
        /\ datalength' = datalength /\ buffer' = buffer /\ executed' = executed
    BY DEF station
  <1>2. fifo \in Seq(Chars) /\ Framed(fifo)
    BY DEF LineInv
  <1>3. /\ fifo' \in Seq(Chars) /\ Framed(fifo')
        /\ \A k \in Int, kind \in Kinds, id \in Clients :
             Coming(fifo, k, kind, id) => Coming(fifo', k, kind, id)
        /\ (fifo # <<>> => fifo[1] # "comma") => (fifo' # <<>> => fifo'[1] # "comma")
    BY <1>2, Written
  <1>4. Listening => Listening'
    BY <1>1 DEF Listening
  <1>5. Strayed => Strayed'
    BY <1>1, <1>3 DEF Strayed
  <1>6. ASSUME NEW kind \in Kinds, NEW id \in Clients
        PROVE  /\ InHeader(kind, id) => InHeader(kind, id)'
               /\ InData(kind, id) => InData(kind, id)'
               /\ Complete(kind, id) => Complete(kind, id)'
    <2>1. \A n \in 1..4 : n + 1 \in Int
      OBVIOUS
    <2>2. InHeader(kind, id) => InHeader(kind, id)'
      BY <1>1, <1>3, <2>1 DEF InHeader
    <2>3. InData(kind, id) => InData(kind, id)'
      <3> DEFINE length == Len(Payload(kind, id))
      <3>1. length \in {1, 3, 4}
        BY PayloadShape
      <3> HIDE DEF length
      <3>2. \A d \in 1..length : 10 + (length - d) \in Int
        BY <3>1
      <3> QED
        BY <1>1, <1>3, <3>2 DEF InData, length
    <2>4. Complete(kind, id) => Complete(kind, id)'
      BY <1>1 DEF Complete
    <2> QED
      BY <2>2, <2>3, <2>4
  <1>7. ExecutesWholeRequests'
    BY <1>1 DEF LineInv, ExecutesWholeRequests
  <1> QED
    BY <1>3, <1>4, <1>5, <1>6, <1>7 DEF LineInv

\* Only clients send.
OpenInv == open \subseteq Clients

LEMMA OpenKeeps ==
  ASSUME OpenInv, [Next]_vars
  PROVE  OpenInv'
  <1>1. CASE Read
    <2>1. \/ UNCHANGED open \/ \E id, n, left : CIPSEND(id, n, left) \/ CIPCLOSE(id, left)
      BY <1>1 DEF Read, Header, Numbers, Data, AwaitPrompt, AwaitSent, Retry, GoTo,
         Silent, Send
    <2> QED
      BY <2>1 DEF OpenInv, CIPSEND, CIPCLOSE
  <1>2. CASE Process
    <2>1. \/ UNCHANGED open \/ \E id, n, left : CIPSEND(id, n, left) \/ CIPCLOSE(id, left)
      BY <1>2 DEF Process, Silent
    <2> QED
      BY <2>1 DEF OpenInv, CIPSEND, CIPCLOSE
  <1>3. CASE ConnectOrLeave
    BY <1>3 DEF ConnectOrLeave, OpenInv
  <1>4. CASE TimeOut \/ setup \/ SendOK \/ Request \/ Elapse \/ UNCHANGED vars
    BY <1>4 DEF TimeOut, GoTo, Silent, setup, SendOK, Request, Elapse, vars, link, OpenInv
  <1> QED
    BY <1>1, <1>2, <1>3, <1>4 DEF Next

LEMMA LineKeeps ==
  ASSUME OpenInv, LineInv, [Next]_vars
  PROVE  LineInv'
  <1>1. CASE Read
    BY <1>1, HeaderKeeps, NumbersKeep, DataKeeps, ReplyingKeeps DEF Read
  <1>2. CASE TimeOut
    BY <1>2, TimeOutKeeps
  <1>3. CASE Process
    BY <1>3, ProcessKeeps
  <1>4. CASE setup
    <2>1. /\ fifo' = <<>> /\ loopstate' \in {0, 4} /\ datalength' = 0
          /\ executed' = executed
      BY <1>4 DEF setup
    <2>2. fifo' \in Seq(Chars) /\ DOMAIN fifo' = {}
      BY <2>1
    <2>3. ExecutesWholeRequests'
      BY <2>1 DEF LineInv, ExecutesWholeRequests
    <2> QED
      BY <2>1, <2>2, <2>3 DEF LineInv, Framed, Listening, Strayed
  <1>5. CASE SendOK
    <2>1. <<"K">> \in Answers /\ fifo' = fifo \o <<"K">> /\ UNCHANGED station
      BY <1>5 DEF SendOK, Answers
    <2> QED
      BY <2>1, AnswersArePlain, GrowsKeep
  <1>6. CASE Request
    <2>1. PICK id \in open, kind \in Kinds : fifo' = fifo \o IPD(kind, id)
      BY <1>6 DEF Request
    <2>2. id \in Clients /\ UNCHANGED station
      BY <1>6 DEF Request, OpenInv
    <2> QED
      BY <2>1, <2>2, RequestsAreFramed, GrowsKeep
  <1>7. CASE ConnectOrLeave \/ Elapse \/ UNCHANGED vars
    <2>1. fifo' = fifo /\ UNCHANGED station
      BY <1>7 DEF ConnectOrLeave, Elapse, vars, link
    <2>2. /\ loopstate' = loopstate /\ connectionId' = connectionId
          /\ datalength' = datalength /\ buffer' = buffer /\ executed' = executed
      BY <2>1 DEF station
    <2> QED
      BY <2>1, <2>2 DEF LineInv, Listening, Strayed, InHeader, InData, Complete,
         ExecutesWholeRequests
  <1> QED
    BY <1>1, <1>2, <1>3, <1>4, <1>5, <1>6, <1>7 DEF Next

LEMMA LineInit ==
  ASSUME Init
  PROVE  OpenInv /\ LineInv
  <1>1. fifo \in Seq(Chars) /\ DOMAIN fifo = {}
    BY DEF Init
  <1>2. OpenInv /\ ExecutesWholeRequests
    BY DEF Init, None, OpenInv, ExecutesWholeRequests
  <1> QED
    BY <1>1, <1>2 DEF Init, LineInv, Framed, Listening

-----------------------------------------------------------------------------
\* What is executed for a client is a request of that client, whole or as much
\* of it as the buffer holds: whatever the modem said in between, whatever was
\* lost to a timeout or a clash, and whenever the station restarted.
THEOREM RequestsAreWhole == Spec => []ExecutesWholeRequests
  <1>1. Init => OpenInv /\ LineInv
    BY LineInit
  <1>2. OpenInv /\ LineInv /\ [Next]_vars => OpenInv' /\ LineInv'
    BY OpenKeeps, LineKeeps
  <1>3. LineInv => ExecutesWholeRequests
    BY DEF LineInv
  <1> QED
    BY <1>1, <1>2, <1>3, PTL DEF Spec

-----------------------------------------------------------------------------
(* The second inductive invariant.  While the station waits for the prompt, *)
(* or for a busy modem, its buffer is a reply to connectionId; and a modem  *)
(* that wants data, and has none of it yet, from a station that waits for  *)
(* the prompt wants that reply.  A modem may want data from a station that *)
(* does something else: the first it gets is then the text of a command.   *)

Pieces == {"AT"} \cup {Printed(id) : id \in Clients}

ModemInv ==
  \/ modem = Idle \/ modem = Sending
  \/ /\ modem \in [state : {"want"}, client : Clients, length : Nat \ {0},
                   taken : Seq(Pieces)]
     /\ Len(modem.taken) < modem.length
     /\ modem.taken # <<>> => modem.taken[1] = "AT"

Held ==
  loopstate \in {10, 12} =>
    connectionId \in Clients /\ \E n \in ReplyLengths : buffer = Reply(connectionId, n)

Prompted ==
  (loopstate = 10 /\ modem.state = "want" /\ modem.taken = <<>>) =>
    modem.client = connectionId /\ modem.length = Len(buffer)

ReplyInv == ModemInv /\ Held /\ Prompted /\ RepliesGoToTheAsker

-----------------------------------------------------------------------------
LEMMA FirstOfIs ==
  ASSUME NEW S, NEW s \in Seq(S), NEW n \in Nat
  PROVE  /\ FirstOf(s, n) \in Seq(S)
         /\ Len(FirstOf(s, n)) = IF Len(s) < n THEN Len(s) ELSE n
         /\ \A i \in 1..Len(FirstOf(s, n)) : FirstOf(s, n)[i] = s[i]
  <1> DEFINE m == IF Len(s) < n THEN Len(s) ELSE n
  <1>1. m \in 0..Len(s)
    OBVIOUS
  <1> HIDE DEF m
  <1>2. /\ SubSeq(s, 1, m) \in Seq(S) /\ Len(SubSeq(s, 1, m)) = m
        /\ \A i \in 1..m : SubSeq(s, 1, m)[i] = s[i]
    BY <1>1, SubSeqProperties
  <1> QED
    BY <1>2 DEF FirstOf, m

LEMMA RepliesAreText ==
  ASSUME NEW id \in Clients, NEW n \in Nat
  PROVE  Reply(id, n) \in Seq(Pieces) /\ Len(Reply(id, n)) = n
  BY DEF Reply, Pieces

LEMMA CommandsAreText ==
  ASSUME NEW n \in Nat
  PROVE  /\ Commands(n) \in Seq(Pieces) /\ Len(Commands(n)) = n
         /\ n > 0 => Commands(n)[1] = "AT"
  BY DEF Commands, Pieces

\* What a modem that wants data makes of a text.
LEMMA Taken ==
  ASSUME ModemInv, modem.state = "want", NEW data \in Seq(Pieces)
  PROVE  LET all == modem.taken \o data
             taken == FirstOf(all, modem.length)
         IN /\ all \in Seq(Pieces) /\ Len(all) = Len(modem.taken) + Len(data)
            /\ modem.taken = <<>> => all = data
            /\ modem.taken # <<>> => all[1] = "AT"
            /\ taken \in Seq(Pieces) /\ Len(taken) <= modem.length
            /\ Len(taken) = IF Len(all) < modem.length THEN Len(all) ELSE modem.length
            /\ taken # <<>> => taken[1] = all[1]
  <1> DEFINE all == modem.taken \o data
             taken == FirstOf(all, modem.length)
  <1>1. /\ modem.taken \in Seq(Pieces) /\ modem.length \in Nat \ {0}
        /\ modem.taken # <<>> => modem.taken[1] = "AT"
    BY DEF ModemInv, Idle, Sending
  <1>2. /\ all \in Seq(Pieces) /\ Len(all) = Len(modem.taken) + Len(data)
        /\ \A i \in 1..(Len(modem.taken) + Len(data)) : all[i] =
             IF i <= Len(modem.taken) THEN modem.taken[i] ELSE data[i - Len(modem.taken)]
    BY <1>1, ConcatProperties
  <1>3. modem.taken = <<>> => all = data
    BY ConcatEmptySeq
  <1>4. ASSUME modem.taken # <<>> PROVE all[1] = "AT"
    <2>1. Len(modem.taken) \in Nat /\ Len(modem.taken) > 0 /\ Len(data) \in Nat
      BY <1>1, <1>4, EmptySeq
    <2>2. 1 \in 1..(Len(modem.taken) + Len(data)) /\ 1 <= Len(modem.taken)
      BY <2>1
    <2> QED
      BY <1>1, <1>2, <1>4, <2>2
  <1> HIDE DEF all
  <1>5. /\ taken \in Seq(Pieces)
        /\ Len(taken) = IF Len(all) < modem.length THEN Len(all) ELSE modem.length
        /\ \A i \in 1..Len(taken) : taken[i] = all[i]
    BY <1>1, <1>2, FirstOfIs
  <1> HIDE DEF taken
  <1>6. Len(taken) <= modem.length
    BY <1>1, <1>2, <1>5
  <1>7. taken # <<>> => 1 \in 1..Len(taken)
    BY <1>5, EmptySeq
  <1> QED
    BY <1>2, <1>3, <1>4, <1>5, <1>6, <1>7 DEF all, taken

\* The text of commands: what it fills begins with such a text, and one command
\* is enough that the modem no longer waits for the beginning.
LEMMA CommandsTaken ==
  ASSUME ModemInv, RepliesGoToTheAsker, modem.state = "want",
         NEW n \in Nat, Take(Commands(n))
  PROVE  /\ ModemInv' /\ RepliesGoToTheAsker'
         /\ n > 0 => ~(modem'.state = "want" /\ modem'.taken = <<>>)
  <1> DEFINE all == modem.taken \o Commands(n)
             taken == FirstOf(all, modem.length)
  <1>1. /\ modem \in [state : {"want"}, client : Clients, length : Nat \ {0},
                     taken : Seq(Pieces)]
        /\ Len(modem.taken) < modem.length
        /\ modem.taken # <<>> => modem.taken[1] = "AT"
    BY DEF ModemInv, Idle, Sending
  <1>2. /\ all \in Seq(Pieces) /\ Len(all) = Len(modem.taken) + n
        /\ modem.taken = <<>> => all = Commands(n)
        /\ modem.taken # <<>> => all[1] = "AT"
        /\ taken \in Seq(Pieces) /\ Len(taken) <= modem.length
        /\ Len(taken) = IF Len(all) < modem.length THEN Len(all) ELSE modem.length
        /\ taken # <<>> => taken[1] = all[1]
    BY CommandsAreText, Taken
  <1>3. /\ delivered' = IF Len(taken) = modem.length
                        THEN [client |-> modem.client, data |-> taken] ELSE delivered
        /\ modem' = IF Len(taken) = modem.length THEN Sending
                    ELSE [modem EXCEPT !.taken = taken]
    BY DEF Take
  <1> HIDE DEF all, taken
  <1>4. /\ Len(modem.taken) \in Nat /\ modem.length \in Nat \ {0}
        /\ Len(taken) \in Nat /\ Len(all) \in Nat
    BY <1>1, <1>2
  <1>5. taken # <<>> => taken[1] = "AT"
    <2>1. ASSUME taken # <<>>, modem.taken = <<>> PROVE n > 0
      <3>1. Len(taken) # 0 /\ Len(modem.taken) = 0
        BY <1>2, <2>1, EmptySeq
      <3> QED
        BY <1>2, <1>4, <3>1
    <2> QED
      BY <1>2, <2>1, CommandsAreText
  <1>6. n > 0 => taken # <<>>
    <2>1. n > 0 => Len(taken) # 0
      BY <1>2, <1>4
    <2> QED
      BY <2>1
  <1>7. CASE Len(taken) = modem.length
    <2>1. taken # <<>>
      <3>1. Len(taken) # 0
        BY <1>4, <1>7
      <3> QED
        BY <3>1
    <2>2. modem' = Sending /\ delivered' = [client |-> modem.client, data |-> taken]
      BY <1>3, <1>7
    <2> QED
      BY <1>5, <2>1, <2>2 DEF ModemInv, RepliesGoToTheAsker, Sending, Idle
  <1>8. CASE Len(taken) # modem.length
    <2>1. modem' = [modem EXCEPT !.taken = taken] /\ delivered' = delivered
      BY <1>3, <1>8
    <2>2. Len(taken) < modem.length
      BY <1>2, <1>4, <1>8
    <2>3. /\ modem' \in [state : {"want"}, client : Clients, length : Nat \ {0},
                        taken : Seq(Pieces)]
          /\ modem'.taken = taken /\ modem'.length = modem.length
      BY <1>1, <1>2, <2>1
    <2> QED
      BY <1>5, <1>6, <2>1, <2>2, <2>3 DEF ModemInv, RepliesGoToTheAsker
  <1> QED
    BY <1>7, <1>8

\* A reply that a modem takes which has nothing yet is the whole of what it
\* wants; of one that has something what it fills begins with a command's text.
LEMMA ReplyTaken ==
  ASSUME ModemInv, RepliesGoToTheAsker, modem.state = "want",
         NEW id \in Clients, NEW n \in Nat \ {0}, buffer = Reply(id, n),
         modem.taken = <<>> => modem.client = id /\ modem.length = Len(buffer),
         Take(buffer)
  PROVE  ModemInv' /\ RepliesGoToTheAsker'
  <1> DEFINE all == modem.taken \o buffer
             taken == FirstOf(all, modem.length)
  <1>1. /\ modem \in [state : {"want"}, client : Clients, length : Nat \ {0},
                     taken : Seq(Pieces)]
        /\ Len(modem.taken) < modem.length
        /\ modem.taken # <<>> => modem.taken[1] = "AT"
    BY DEF ModemInv, Idle, Sending
  <1>2. buffer \in Seq(Pieces) /\ Len(buffer) = n
    BY RepliesAreText
  <1>3. /\ all \in Seq(Pieces) /\ Len(all) = Len(modem.taken) + n
        /\ modem.taken = <<>> => all = buffer
        /\ modem.taken # <<>> => all[1] = "AT"
        /\ taken \in Seq(Pieces) /\ Len(taken) <= modem.length
        /\ Len(taken) = IF Len(all) < modem.length THEN Len(all) ELSE modem.length
        /\ taken # <<>> => taken[1] = all[1]
    BY <1>2, Taken
  <1>4. /\ delivered' = IF Len(taken) = modem.length
                        THEN [client |-> modem.client, data |-> taken] ELSE delivered
        /\ modem' = IF Len(taken) = modem.length THEN Sending
                    ELSE [modem EXCEPT !.taken = taken]
    BY DEF Take
  <1>5. modem.taken = <<>> => taken = buffer
    <2> SUFFICES ASSUME modem.taken = <<>> PROVE taken = buffer
      OBVIOUS
    <2>1. all = buffer /\ modem.length = n
      BY <1>2, <1>3
    <2>2. FirstOf(buffer, n) = SubSeq(buffer, 1, n)
      BY <1>2 DEF FirstOf
    <2>3. SubSeq(buffer, 1, Len(buffer)) = buffer
      BY <1>2, SubSeqFull
    <2> QED
      BY <1>2, <2>1, <2>2, <2>3
  <1> HIDE DEF all, taken
  <1>6. /\ Len(modem.taken) \in Nat /\ modem.length \in Nat \ {0}
        /\ Len(taken) \in Nat /\ Len(all) \in Nat
    BY <1>1, <1>3
  <1>7. CASE modem.taken = <<>>
    <2>1. Len(taken) = modem.length /\ modem.client = id /\ taken = Reply(id, n)
      BY <1>2, <1>5, <1>7
    <2>2. modem' = Sending /\ delivered' = [client |-> id, data |-> Reply(id, n)]
      BY <1>4, <2>1
    <2>3. Len(Reply(id, n)) = n
      BY <1>2
    <2> QED
      BY <2>2, <2>3 DEF ModemInv, RepliesGoToTheAsker
  <1>8. CASE modem.taken # <<>>
    <2>1. taken # <<>> /\ taken[1] = "AT"
      <3>1. Len(taken) # 0
        BY <1>3, <1>6
      <3>2. taken # <<>>
        BY <3>1
      <3> QED
        BY <1>3, <1>8, <3>2
    <2>2. CASE Len(taken) = modem.length
      <3>1. modem' = Sending /\ delivered' = [client |-> modem.client, data |-> taken]
        BY <1>4, <2>2
      <3> QED
        BY <2>1, <3>1 DEF ModemInv, RepliesGoToTheAsker
    <2>3. CASE Len(taken) # modem.length
      <3>1. modem' = [modem EXCEPT !.taken = taken] /\ delivered' = delivered
        BY <1>4, <2>3
      <3>2. Len(taken) < modem.length
        BY <1>3, <1>6, <2>3
      <3>3. /\ modem' \in [state : {"want"}, client : Clients, length : Nat \ {0},
                          taken : Seq(Pieces)]
            /\ modem'.taken = taken /\ modem'.length = modem.length
        BY <1>1, <1>3, <3>1
      <3> QED
        BY <2>1, <3>1, <3>2, <3>3 DEF ModemInv, RepliesGoToTheAsker
    <2> QED
      BY <2>2, <2>3
  <1> QED
    BY <1>7, <1>8

-----------------------------------------------------------------------------
(* The steps of the second invariant.                                      *)

\* Whatever the modem answers to AT+CIPSEND, it wants this reply from its
\* beginning, or it has taken something of another, or it wants nothing.
LEMMA Asked ==
  ASSUME OpenInv, ModemInv, RepliesGoToTheAsker,
         NEW id, NEW n \in Nat \ {0}, NEW left, CIPSEND(id, n, left)
  PROVE  /\ ModemInv' /\ RepliesGoToTheAsker'
         /\ modem'.state = "want" /\ modem'.taken = <<>> =>
              modem'.client = id /\ modem'.length = n
  <1>1. CASE modem.state = "want" /\ Take(Commands(1))
    BY <1>1, CommandsTaken
  <1>2. CASE modem.state = "idle" /\ id \in open /\ modem' = Wants(id, n)
             /\ delivered' = delivered
    <2>1. id \in Clients /\ <<>> \in Seq(Pieces) /\ Len(<<>>) < n
      BY <1>2 DEF OpenInv
    <2> QED
      BY <1>2, <2>1 DEF ModemInv, Wants, RepliesGoToTheAsker
  <1>3. CASE modem.state # "want" /\ modem' = modem /\ delivered' = delivered
    BY <1>3 DEF ModemInv, RepliesGoToTheAsker
  <1> QED
    BY <1>1, <1>2, <1>3 DEF CIPSEND

LEMMA Closed ==
  ASSUME ModemInv, RepliesGoToTheAsker, NEW id, NEW left, CIPCLOSE(id, left)
  PROVE  ModemInv' /\ RepliesGoToTheAsker'
  <1>1. CASE modem.state = "want" /\ Take(Commands(1))
    BY <1>1, CommandsTaken
  <1>2. CASE modem' = modem /\ delivered' = delivered
    BY <1>2 DEF ModemInv, RepliesGoToTheAsker
  <1> QED
    BY <1>1, <1>2 DEF CIPCLOSE

LEMMA Quiet ==
  ASSUME ModemInv, RepliesGoToTheAsker, NEW left, Silent(left)
  PROVE  ModemInv' /\ RepliesGoToTheAsker' /\ modem' = modem
  BY DEF ModemInv, RepliesGoToTheAsker, Silent

LEMMA ReplyKeeps ==
  ASSUME OpenInv, LineInv, ReplyInv, [Next]_vars
  PROVE  ReplyInv'
  <1> USE DEF ReplyInv
  <1>0. ASSUME NEW id, NEW n \in ReplyLengths
        PROVE  n \in Nat \ {0} /\ Len(Reply(id, n)) = n
    BY WifiAssumption DEF Reply
  <1>1. CASE Header
    <2> DEFINE expected == ch = <<"I", "P", "D", "comma">>[loopstate]
    <2>1. \/ GoTo(IF ch = "+" THEN 1 ELSE 0)
          \/ loopstate \in 1..4 /\ GoTo(IF expected THEN loopstate + 1 ELSE 0)
      BY <1>1 DEF Header
    <2> HIDE DEF expected
    <2>2. loopstate' \notin {10, 12} /\ Silent(rest)
      BY <2>1 DEF GoTo
    <2> QED
      BY <2>2, Quiet DEF Held, Prompted
  <1>2. CASE Numbers
    <2>1. loopstate' \in {5, 6, 7, 99} /\ Silent(rest)
      BY <1>2 DEF Numbers, GoTo
    <2> QED
      BY <2>1, Quiet DEF Held, Prompted
  <1>3. CASE Data
    <2>1. loopstate' \in {7, 99} /\ Silent(rest)
      BY <1>3 DEF Data, GoTo
    <2> QED
      BY <2>1, Quiet DEF Held, Prompted
  <1>4. CASE AwaitPrompt
    <2>1. CASE ch = ">" /\ Send(rest) /\ loopstate' \in {11, 0}
      <3>1. CASE modem.state = "want" /\ Take(buffer)
        <4>1. PICK n \in ReplyLengths :
                connectionId \in Clients /\ buffer = Reply(connectionId, n)
          BY <1>4 DEF AwaitPrompt, Held
        <4>2. modem.taken = <<>> =>
                modem.client = connectionId /\ modem.length = Len(buffer)
          BY <1>4, <3>1 DEF AwaitPrompt, Prompted
        <4>3. ModemInv' /\ RepliesGoToTheAsker'
          BY <1>0, <3>1, <4>1, <4>2, ReplyTaken
        <4> QED
          BY <2>1, <4>3 DEF Held, Prompted
      <3>2. CASE modem' = modem /\ delivered' = delivered
        <4>1. ModemInv' /\ RepliesGoToTheAsker'
          BY <3>2 DEF ModemInv, RepliesGoToTheAsker
        <4> QED
          BY <2>1, <4>1 DEF Held, Prompted
      <3> QED
        BY <2>1, <3>1, <3>2 DEF Send
    <2>2. CASE GoTo(12) \/ GoTo(10)
      <3>1. /\ loopstate' \in {10, 12} /\ Silent(rest) /\ loopstate = 10
            /\ connectionId' = connectionId /\ buffer' = buffer
        BY <1>4, <2>2 DEF AwaitPrompt, GoTo
      <3> QED
        BY <3>1, Quiet DEF Held, Prompted
    <2> QED
      BY <1>4, <2>1, <2>2 DEF AwaitPrompt
  <1>5. CASE AwaitSent
    BY <1>5, Quiet, Closed DEF AwaitSent, GoTo, Held, Prompted
  <1>6. CASE Retry
    <2>1. CASE ch = "+" /\ GoTo(1)
      BY <2>1, Quiet DEF GoTo, Held, Prompted
    <2>2. CASE CIPSEND(connectionId, Len(buffer), rest) /\ loopstate' = 10
               /\ UNCHANGED connectionId
      <3>1. PICK n \in ReplyLengths :
              connectionId \in Clients /\ buffer = Reply(connectionId, n)
        BY <1>6 DEF Retry, Held
      <3>2. Len(buffer) = n /\ n \in Nat \ {0} /\ buffer' = buffer
        BY <1>0, <1>6, <3>1 DEF Retry
      <3>3. /\ ModemInv' /\ RepliesGoToTheAsker'
            /\ modem'.state = "want" /\ modem'.taken = <<>> =>
                 modem'.client = connectionId /\ modem'.length = Len(buffer)
        BY <2>2, <3>2, Asked
      <3> QED
        BY <2>2, <3>1, <3>2, <3>3 DEF Held, Prompted
    <2>3. CASE GoTo(12) /\ UNCHANGED connectionId
      <3>1. /\ loopstate' = 12 /\ Silent(rest) /\ loopstate = 12
            /\ connectionId' = connectionId /\ buffer' = buffer
        BY <1>6, <2>3 DEF Retry, GoTo
      <3> QED
        BY <3>1, Quiet DEF Held, Prompted
    <2> QED
      BY <1>6, <2>1, <2>2, <2>3 DEF Retry
  <1>7. CASE TimeOut
    BY <1>7, Quiet DEF TimeOut, GoTo, Held, Prompted
  <1>8. CASE Process
    <2>1. connectionId \in Clients /\ connectionId' = connectionId
      BY <1>8 DEF Process, LineInv, Listening, Strayed, InHeader, InData, Complete
    <2>2. ASSUME NEW n \in ReplyLengths, buffer' = Reply(connectionId, n),
                 CIPSEND(connectionId, n, fifo), loopstate' = 10
          PROVE  ReplyInv'
      <3>1. n \in Nat \ {0} /\ Len(buffer') = n
        BY <1>0, <2>2
      <3>2. /\ ModemInv' /\ RepliesGoToTheAsker'
            /\ modem'.state = "want" /\ modem'.taken = <<>> =>
                 modem'.client = connectionId /\ modem'.length = n
        BY <2>2, <3>1, Asked
      <3> QED
        BY <2>1, <2>2, <3>1, <3>2 DEF Held, Prompted
    <2>3. CASE loopstate' = 0 /\ (CIPCLOSE(connectionId, fifo) \/ Silent(fifo))
      BY <2>3, Closed, Quiet DEF Held, Prompted
    <2> QED
      BY <1>8, <2>2, <2>3 DEF Process
  <1>9. CASE setup
    <2>1. loopstate' \in {0, 4} /\ \E n \in Nat : Told(n)
      <3>1. modem.length \in Nat
        BY DEF ModemInv, Idle, Sending
      <3> QED
        BY <1>9, <3>1 DEF setup
    <2>2. PICK n \in Nat : Told(n)
      BY <2>1
    <2>3. ModemInv' /\ RepliesGoToTheAsker'
      <3>1. CASE modem.state = "want" /\ Take(Commands(n))
        BY <3>1, CommandsTaken
      <3>2. CASE modem' = Idle /\ delivered' = None
        BY <3>2 DEF ModemInv, RepliesGoToTheAsker, None
      <3> QED
        BY <2>2, <3>1, <3>2 DEF Told
    <2> QED
      BY <2>1, <2>3 DEF Held, Prompted
  <1>10. CASE SendOK
    <2>1. /\ modem' = Idle /\ delivered' = None /\ loopstate' = loopstate
          /\ buffer' = buffer /\ connectionId' = connectionId
      BY <1>10 DEF SendOK, station
    <2> QED
      BY <2>1 DEF ModemInv, RepliesGoToTheAsker, None, Idle, Held, Prompted
  <1>11. CASE Request \/ ConnectOrLeave \/ Elapse \/ UNCHANGED vars
    <2>1. /\ loopstate' = loopstate /\ buffer' = buffer /\ modem' = modem
          /\ connectionId' = connectionId /\ delivered' = delivered
      BY <1>11 DEF Request, ConnectOrLeave, Elapse, vars, station, link
    <2> QED
      BY <2>1 DEF ModemInv, Held, Prompted, RepliesGoToTheAsker
  <1> QED
    BY <1>1, <1>2, <1>3, <1>4, <1>5, <1>6, <1>7, <1>8, <1>9, <1>10, <1>11
    DEF Next, Read

-----------------------------------------------------------------------------
\* Through busy modems, clashing requests, timeouts and restarts a reply is
\* sent, whole, to the client that asked, or not at all; other data than that
\* begins with the text of a command (WifiInterface::loop).
THEOREM NoReplyAstray == Spec => []RepliesGoToTheAsker
  <1>1. Init => OpenInv /\ LineInv /\ ReplyInv
    <2>1. Init => ReplyInv
      BY DEF Init, ReplyInv, ModemInv, Held, Prompted, RepliesGoToTheAsker, None, Idle
    <2> QED
      BY <2>1, LineInit
  <1>2. OpenInv /\ LineInv /\ ReplyInv /\ [Next]_vars => OpenInv' /\ LineInv' /\ ReplyInv'
    BY OpenKeeps, LineKeeps, ReplyKeeps
  <1>3. ReplyInv => RepliesGoToTheAsker
    BY DEF ReplyInv
  <1> QED
    BY <1>1, <1>2, <1>3, PTL DEF Spec
=============================================================================
