---------------------------- MODULE TransportProofs ----------------------------
(***************************************************************************)
(* Proofs, for every buffer size, number of sockets, line and command, of  *)
(* the command parser behind the transports: a command is executed as it   *)
(* was sent.                                                               *)
(***************************************************************************)
EXTENDS Transport, SequenceTheorems, TLAPS

-----------------------------------------------------------------------------
(* What is left of a text when its brackets are taken off.                 *)

LEMMA FirstOfAll ==
  ASSUME NEW S, S \subseteq Int, NEW m \in S, \A i \in S : m <= i
  PROVE  S # {} /\ Min(S) = m
  <1>1. m \in S /\ \A y \in S : m <= y
    OBVIOUS
  <1>2. ASSUME NEW x \in S, \A y \in S : x <= y
        PROVE  x = m
    <2>1. x <= m /\ m <= x /\ x \in Int /\ m \in Int
      BY <1>2
    <2> QED
      BY <2>1
  <1>3. Min(S) \in S /\ \A y \in S : Min(S) <= y
    BY <1>1, Zenon DEF Min
  <1> QED
    BY <1>2, <1>3

LEMMA SmallerOfTwo ==
  ASSUME NEW m \in Nat, NEW n \in Nat
  PROVE  /\ Min({m, n}) \in {m, n} /\ Min({m, n}) \in Nat
         /\ Min({m, n}) <= m /\ Min({m, n}) <= n
  <1>1. CASE m <= n
    <2>1. {m, n} \subseteq Int /\ m \in {m, n} /\ \A i \in {m, n} : m <= i
      BY <1>1
    <2> QED
      BY <1>1, <2>1, FirstOfAll
  <1>2. CASE ~(m <= n)
    <2>1. {m, n} \subseteq Int /\ n \in {m, n} /\ \A i \in {m, n} : n <= i
      BY <1>2
    <2> QED
      BY <1>2, <2>1, FirstOfAll
  <1> QED
    BY <1>1, <1>2

LEMMA EmptyText == <<>> \in Seq(STRING) /\ 1..Len(<<>>) = {}
  OBVIOUS

LEMMA EqualTexts ==
  ASSUME NEW s \in Seq(STRING), NEW t \in Seq(STRING), NEW n \in Nat,
         Len(s) = n, Len(t) = n, \A i \in 1..n : s[i] = t[i]
  PROVE  s = t
  BY SeqEqual

\* A part of a text.
LEMMA PartOf ==
  ASSUME NEW s \in Seq(STRING), NEW n \in Nat, n = Len(s),
         NEW a \in 1..(n + 1), NEW b \in (a - 1)..n
  PROVE  /\ SubSeq(s, a, b) \in Seq(STRING)
         /\ Len(SubSeq(s, a, b)) = b - a + 1
         /\ \A i \in 1..(b - a + 1) : SubSeq(s, a, b)[i] = s[a + i - 1]
  <1>1. \A i \in a..b : s[i] \in STRING
    BY ElementOfSeq
  <1>2. /\ SubSeq(s, a, b) \in Seq(STRING)
        /\ Len(SubSeq(s, a, b)) = IF a <= b THEN b - a + 1 ELSE 0
        /\ \A i \in 1..(b - a + 1) : SubSeq(s, a, b)[i] = s[a + i - 1]
    BY <1>1, SubSeqProperties
  <1> QED
    BY <1>2

LEMMA BeginningOf ==
  ASSUME NEW s \in Seq(STRING), NEW n \in Nat, n = Len(s), NEW k \in 0..n
  PROVE  /\ SubSeq(s, 1, k) \in Seq(STRING) /\ Len(SubSeq(s, 1, k)) = k
         /\ \A i \in 1..k : SubSeq(s, 1, k)[i] = s[i]
  <1>1. /\ SubSeq(s, 1, k) \in Seq(STRING) /\ Len(SubSeq(s, 1, k)) = k - 1 + 1
        /\ \A i \in 1..(k - 1 + 1) : SubSeq(s, 1, k)[i] = s[1 + i - 1]
    <2>1. 1 \in 1..(n + 1) /\ k \in (1 - 1)..n
      OBVIOUS
    <2> QED
      BY <2>1, PartOf
  <1>2. k - 1 + 1 = k /\ \A i \in 1..k : 1 + i - 1 = i
    OBVIOUS
  <1> DEFINE part == SubSeq(s, 1, k)
  <1> HIDE DEF part
  <1> QED
    BY <1>1, <1>2 DEF part

\* Nothing is left of brackets alone.
LEMMA NothingLeft ==
  ASSUME NEW s, \A i \in 1..Len(s) : s[i] = "<"
  PROVE  Command(s) = <<>>
  <1>1. SelectInSeq(s, LAMBDA c : c # "<") = 0
    BY DEF SelectInSeq
  <1>2. SelectInSubSeq(<<>>, 2, Len(<<>>), LAMBDA c : c = ">") = 0
    BY DEF SelectInSubSeq
  <1> QED
    BY <1>1, <1>2 DEF Command

\* Otherwise what is left begins with the first character that is no '<' and
\* ends before the next '>' after it, or where the text ends.
LEMMA CommandCut ==
  ASSUME NEW s \in Seq(STRING), NEW n \in Nat, n = Len(s),
         NEW o \in 1..n, s[o] # "<", \A i \in 1..(o - 1) : s[i] = "<",
         NEW e \in (o + 1)..(n + 1), \A i \in (o + 1)..(e - 1) : s[i] # ">",
         e = n + 1 \/ s[e] = ">"
  PROVE  Command(s) = SubSeq(s, o, e - 1)
  <1> DEFINE Open == {i \in 1..Len(s) : s[i] # "<"}
             com == SubSeq(s, o, Len(s))
             Close == {i \in 2..Len(com) : com[i] = ">"}
             close == IF Close # {} THEN Min(Close) ELSE 0
             m == n - o + 1
  <1>1. Open # {} /\ Min(Open) = o
    <2>1. Open \subseteq Int /\ o \in Open /\ \A i \in Open : o <= i
      OBVIOUS
    <2> HIDE DEF Open
    <2> QED
      BY <2>1, FirstOfAll
  <1>2. Command(s) = IF close = 0 THEN com ELSE SubSeq(com, 1, close - 1)
    <2>1. SelectInSeq(s, LAMBDA c : c # "<") = o
      BY <1>1 DEF SelectInSeq
    <2>2. SelectInSubSeq(com, 2, Len(com), LAMBDA c : c = ">") = close
      BY DEF SelectInSubSeq
    <2> HIDE DEF com, close
    <2> QED
      BY <2>1, <2>2 DEF Command, com
  <1>3. com \in Seq(STRING) /\ Len(com) = m /\ \A i \in 1..m : com[i] = s[o + i - 1]
    BY PartOf
  <1>4. com = SubSeq(s, o, n) /\ m \in Nat /\ m = n - o + 1
    OBVIOUS
  <1>5. Close = {i \in 2..m : s[o + i - 1] = ">"}
    <2>1. \A i \in 2..m : com[i] = s[o + i - 1]
      BY <1>3, <1>4
    <2> QED
      BY <1>3, <2>1
  <1> HIDE DEF com, Close, m
  <1>6. CASE e = n + 1
    <2>1. Close = {}
      BY <1>4, <1>5, <1>6
    <2> QED
      BY <1>2, <1>4, <1>6, <2>1
  <1>7. CASE e # n + 1
    <2> DEFINE d == e - o + 1
    <2>1. s[e] = ">" /\ e \in (o + 1)..n /\ d \in 2..m /\ s[o + d - 1] = ">"
      BY <1>4, <1>7
    <2>2. \A i \in Close : d <= i
      <3>1. ASSUME NEW i \in 2..m, s[o + i - 1] = ">", i < d PROVE FALSE
        <4>1. o + i - 1 \in (o + 1)..(e - 1)
          BY <1>4, <3>1
        <4> QED
          BY <3>1, <4>1
      <3> QED
        BY <1>4, <1>5, <2>1, <3>1
    <2>3. Close \subseteq Int /\ d \in Close
      BY <1>4, <1>5, <2>1
    <2>4. Close # {} /\ Min(Close) = d
      BY <2>2, <2>3, FirstOfAll
    <2>5. d # 0 /\ d - 1 = e - o /\ e - o \in 0..m
      BY <1>4, <2>1
    <2>6. Command(s) = SubSeq(com, 1, e - o)
      BY <1>2, <2>4, <2>5
    <2> DEFINE left == SubSeq(com, 1, e - o)
               right == SubSeq(s, o, e - 1)
    <2>7. /\ left \in Seq(STRING) /\ Len(left) = e - o
          /\ \A i \in 1..(e - o) : left[i] = com[i]
      <3> DEFINE k == e - o
      <3>1. k \in 0..m /\ m \in Nat /\ com \in Seq(STRING) /\ m = Len(com)
        BY <1>3, <1>4, <2>5
      <3> HIDE DEF k
      <3>2. /\ SubSeq(com, 1, k) \in Seq(STRING) /\ Len(SubSeq(com, 1, k)) = k
            /\ \A i \in 1..k : SubSeq(com, 1, k)[i] = com[i]
        BY <3>1, BeginningOf
      <3> QED
        BY <3>2 DEF k
    <2>8. /\ right \in Seq(STRING) /\ Len(right) = e - o
          /\ \A i \in 1..(e - o) : right[i] = s[o + i - 1]
      <3>1. o \in 1..(n + 1) /\ e - 1 \in (o - 1)..n /\ e - 1 - o + 1 = e - o
        BY <2>1
      <3>2. /\ right \in Seq(STRING) /\ Len(right) = e - 1 - o + 1
            /\ \A i \in 1..(e - 1 - o + 1) : right[i] = s[o + i - 1]
        BY <3>1, PartOf
      <3> HIDE DEF right
      <3> QED
        BY <3>1, <3>2
    <2> HIDE DEF left, right
    <2>9. \A i \in 1..(e - o) : left[i] = right[i]
      BY <1>3, <2>5, <2>7, <2>8
    <2>10. left = right
      BY <2>5, <2>7, <2>8, <2>9, EqualTexts
    <2> QED
      BY <2>6, <2>10 DEF left, right
  <1> QED
    BY <1>6, <1>7

LEMMA PlainText ==
  ASSUME NEW s \in Seq(STRING), \A i \in 1..Len(s) : s[i] \notin {"<", ">"}
  PROVE  Command(s) = s
  <1>1. CASE s = <<>>
    BY <1>1, NothingLeft
  <1>2. CASE s # <<>>
    <2> DEFINE n == Len(s)
    <2>1. n \in Nat /\ n > 0
      BY <1>2, EmptySeq
    <2> HIDE DEF n
    <2>2. n = Len(s) /\ \A i \in 1..n : s[i] # "<" /\ s[i] # ">"
      BY DEF n
    <2>3. Command(s) = SubSeq(s, 1, n + 1 - 1)
      <3>1. /\ 1 \in 1..n /\ s[1] # "<" /\ \A i \in 1..(1 - 1) : s[i] = "<"
            /\ n + 1 \in (1 + 1)..(n + 1)
            /\ \A i \in (1 + 1)..(n + 1 - 1) : s[i] # ">"
        BY <2>1, <2>2
      <3> QED
        BY <2>1, <2>2, <3>1, CommandCut
    <2>4. n + 1 - 1 = n
      BY <2>1
    <2> QED
      BY <2>2, <2>3, <2>4, SubSeqFull
  <1> QED
    BY <1>1, <1>2

\* Of a text that begins as a command does, a beginning of the command is left.
LEMMA BeginningOfCommand ==
  ASSUME NEW c \in Commands, NEW s \in Seq(STRING), s[1] = "<",
         \A i \in 1..Len(s) : i <= Len(c) => s[i] = c[i]
  PROVE  IsPrefix(Command(s), Command(c))
  <1> DEFINE n == Len(s)
             m == Len(c)
  <1>1. /\ c \in Seq(STRING) /\ n \in Nat /\ m \in Nat /\ m > 2
        /\ n = Len(s) /\ m = Len(c) /\ c[1] = "<" /\ c[m] = ">"
        /\ \A i \in 2..(m - 1) : c[i] # "<" /\ c[i] # ">"
        /\ \A i \in 1..n : i <= m => s[i] = c[i]
    BY TransportAssumption
  <1> HIDE DEF n, m
  <1>2. Command(c) = SubSeq(c, 2, m - 1)
    <2>1. /\ 2 \in 1..m /\ c[2] # "<" /\ \A i \in 1..(2 - 1) : c[i] = "<"
          /\ m \in (2 + 1)..(m + 1) /\ \A i \in (2 + 1)..(m - 1) : c[i] # ">"
      BY <1>1
    <2>2. c \in Seq(STRING) /\ m \in Nat /\ m = Len(c) /\ (m = m + 1 \/ c[m] = ">")
      BY <1>1
    <2> QED
      BY <2>1, <2>2, CommandCut
  <1> DEFINE whole == SubSeq(c, 2, m - 1)
  <1>3. /\ whole \in Seq(STRING) /\ Len(whole) = m - 2
        /\ \A i \in 1..(m - 2) : whole[i] = c[i + 1]
    <2>1. 2 \in 1..(m + 1) /\ m - 1 \in (2 - 1)..m /\ m - 1 - 2 + 1 = m - 2
      BY <1>1
    <2>2. /\ whole \in Seq(STRING) /\ Len(whole) = m - 1 - 2 + 1
          /\ \A i \in 1..(m - 1 - 2 + 1) : whole[i] = c[2 + i - 1]
      BY <1>1, <2>1, PartOf
    <2>3. \A i \in 1..(m - 2) : 2 + i - 1 = i + 1
      BY <1>1
    <2> HIDE DEF whole
    <2> QED
      BY <2>1, <2>2, <2>3
  <1> HIDE DEF whole
  <1>4. CASE n < 2
    <2>1. Command(s) = <<>>
      BY <1>1, <1>4, NothingLeft
    <2>2. SubSeq(whole, 1, 0) = <<>> /\ SubSeq(<<>>, 1, 0) = <<>>
      BY SubSeqEmpty
    <2> QED
      BY <1>1, <1>2, <1>3, <2>1, <2>2 DEF IsPrefix, whole
  <1>5. CASE n >= 2
    <2> DEFINE e == IF n >= m THEN m ELSE n + 1
               k == e - 2
               left == SubSeq(s, 2, e - 1)
    <2>1. /\ e \in 3..(n + 1) /\ e <= m /\ k \in Nat /\ k = e - 2
          /\ e = n + 1 \/ s[e] = ">"
      BY <1>1, <1>5
    <2>2. \A i \in 2..(e - 1) : s[i] = c[i] /\ s[i] # "<" /\ s[i] # ">"
      BY <1>1, <2>1
    <2> HIDE DEF e, k, left
    <2>3. Command(s) = left
      <3>1. /\ 2 \in 1..n /\ s[2] # "<" /\ \A i \in 1..(2 - 1) : s[i] = "<"
            /\ e \in (2 + 1)..(n + 1) /\ \A i \in (2 + 1)..(e - 1) : s[i] # ">"
        BY <1>1, <1>5, <2>1, <2>2
      <3> QED
        BY <1>1, <2>1, <3>1, CommandCut DEF left
    <2>4. /\ left \in Seq(STRING) /\ Len(left) = k
          /\ \A i \in 1..k : left[i] = s[i + 1]
      <3>1. 2 \in 1..(n + 1) /\ e - 1 \in (2 - 1)..n /\ e - 1 - 2 + 1 = k
        BY <1>1, <2>1
      <3>2. /\ left \in Seq(STRING) /\ Len(left) = e - 1 - 2 + 1
            /\ \A i \in 1..(e - 1 - 2 + 1) : left[i] = s[2 + i - 1]
        BY <1>1, <3>1, PartOf DEF left
      <3>3. \A i \in 1..k : 2 + i - 1 = i + 1
        BY <2>1
      <3> QED
        BY <3>1, <3>2, <3>3
    <2>5. /\ SubSeq(whole, 1, k) \in Seq(STRING) /\ Len(SubSeq(whole, 1, k)) = k
          /\ \A i \in 1..k : SubSeq(whole, 1, k)[i] = whole[i]
      <3>1. m - 2 \in Nat /\ k \in 0..(m - 2) /\ m - 2 = Len(whole)
        BY <1>1, <1>3, <2>1
      <3> QED
        BY <1>3, <3>1, BeginningOf
    <2>6. \A i \in 1..k : left[i] = SubSeq(whole, 1, k)[i]
      <3>1. ASSUME NEW i \in 1..k PROVE left[i] = SubSeq(whole, 1, k)[i]
        <4>1. i \in 1..(m - 2) /\ i + 1 \in 2..(e - 1)
          BY <1>1, <2>1
        <4> QED
          BY <1>3, <2>2, <2>4, <2>5, <4>1
      <3> QED
        BY <3>1
    <2>7. left = SubSeq(whole, 1, k)
      BY <2>1, <2>4, <2>5, <2>6, EqualTexts
    <2>8. SubSeq(left, 1, k) = left
      BY <2>4, SubSeqFull
    <2>9. k <= m - 2
      BY <1>1, <2>1
    <2> QED
      BY <1>2, <1>3, <2>3, <2>4, <2>7, <2>8, <2>9 DEF IsPrefix, whole
  <1> QED
    BY <1>1, <1>4, <1>5
-----------------------------------------------------------------------------
(* What a client has sent and was not read: the rest of a command and then *)
(* whole ones, so that each '<' in it begins a command that ends in it.    *)

Whole(text) ==
  \A i \in 1..Len(text) : text[i] = "<" =>
    \E c \in Commands : \A j \in 1..Len(c) :
      i + j - 1 \in 1..Len(text) /\ text[i + j - 1] = c[j]

LEMMA WholeWithOneMore ==
  ASSUME NEW text \in Seq(STRING), Whole(text), NEW c \in Commands
  PROVE  text \o c \in Seq(STRING) /\ Whole(text \o c)
  <1> DEFINE n == Len(text)
             m == Len(c)
             both == text \o c
  <1>1. /\ c \in Seq(STRING) /\ n \in Nat /\ m \in Nat /\ m > 2
        /\ c[1] = "<" /\ c[m] = ">" /\ \A i \in 2..(m - 1) : c[i] # "<"
        /\ n = Len(text) /\ m = Len(c)
    BY TransportAssumption
  <1>2. /\ both \in Seq(STRING) /\ Len(both) = n + m
        /\ \A i \in 1..(n + m) : both[i] = IF i <= n THEN text[i] ELSE c[i - n]
    <2>1. /\ both \in Seq(STRING) /\ Len(both) = Len(text) + Len(c)
          /\ \A i \in 1..(Len(text) + Len(c)) :
               both[i] = IF i <= Len(text) THEN text[i] ELSE c[i - Len(text)]
      BY <1>1, ConcatProperties
    <2> QED
      BY <2>1
  <1> HIDE DEF n, m, both
  <1>3. ASSUME NEW i \in 1..(n + m), both[i] = "<"
        PROVE  \E d \in Commands : \A j \in 1..Len(d) :
                 i + j - 1 \in 1..(n + m) /\ both[i + j - 1] = d[j]
    <2>1. CASE i <= n
      <3>1. text[i] = "<" /\ i \in 1..n
        BY <1>1, <1>2, <1>3, <2>1
      <3>2. PICK d \in Commands : \A j \in 1..Len(d) :
                   i + j - 1 \in 1..n /\ text[i + j - 1] = d[j]
        BY <1>1, <3>1 DEF Whole
      <3>3. ASSUME NEW j \in 1..Len(d)
            PROVE  i + j - 1 \in 1..(n + m) /\ both[i + j - 1] = d[j]
        <4> DEFINE k == i + j - 1
        <4>1. k \in 1..n /\ text[k] = d[j]
          BY <3>2
        <4> HIDE DEF k
        <4>2. k \in 1..(n + m) /\ both[k] = d[j]
          BY <1>1, <1>2, <4>1
        <4> QED
          BY <4>2 DEF k
      <3> QED
        BY <3>3
    <2>2. CASE i > n
      <3>1. c[i - n] = "<" /\ i - n \in 1..m
        BY <1>1, <1>2, <1>3, <2>2
      <3>2. i - n = 1
        BY <1>1, <3>1
      <3>3. ASSUME NEW j \in 1..m
            PROVE  i + j - 1 \in 1..(n + m) /\ both[i + j - 1] = c[j]
        <4> DEFINE k == i + j - 1
        <4>1. k \in 1..(n + m) /\ k - n = j /\ ~(k <= n)
          BY <1>1, <3>2
        <4> HIDE DEF k
        <4>2. both[k] = c[j]
          BY <1>2, <4>1
        <4> QED
          BY <4>1, <4>2 DEF k
      <3> QED
        BY <1>1, <3>3
    <2> QED
      BY <1>1, <2>1, <2>2
  <1>4. Whole(both)
    BY <1>2, <1>3 DEF Whole
  <1> QED
    BY <1>2, <1>4 DEF both

LEMMA WholeRest ==
  ASSUME NEW text \in Seq(STRING), Whole(text), NEW n \in 1..Len(text)
  PROVE  /\ SubSeq(text, n + 1, Len(text)) \in Seq(STRING)
         /\ Whole(SubSeq(text, n + 1, Len(text)))
  <1> DEFINE m == Len(text)
             rest == SubSeq(text, n + 1, m)
  <1>1. m \in Nat /\ m = Len(text) /\ n \in 1..m
    OBVIOUS
  <1> HIDE DEF m
  <1>2. /\ rest \in Seq(STRING) /\ Len(rest) = m - n
        /\ \A i \in 1..(m - n) : rest[i] = text[i + n]
    <2>1. n + 1 \in 1..(m + 1) /\ m \in (n + 1 - 1)..m /\ m - (n + 1) + 1 = m - n
      BY <1>1
    <2>2. /\ rest \in Seq(STRING) /\ Len(rest) = m - (n + 1) + 1
          /\ \A i \in 1..(m - (n + 1) + 1) : rest[i] = text[n + 1 + i - 1]
      BY <1>1, <2>1, PartOf
    <2>3. \A i \in 1..(m - n) : n + 1 + i - 1 = i + n
      BY <1>1
    <2> HIDE DEF rest
    <2> QED
      BY <2>1, <2>2, <2>3
  <1> HIDE DEF rest
  <1>3. ASSUME NEW i \in 1..(m - n), rest[i] = "<"
        PROVE  \E d \in Commands : \A j \in 1..Len(d) :
                 i + j - 1 \in 1..(m - n) /\ rest[i + j - 1] = d[j]
    <2>1. i + n \in 1..m /\ text[i + n] = "<"
      BY <1>1, <1>2, <1>3
    <2>2. PICK d \in Commands : \A j \in 1..Len(d) :
                 i + n + j - 1 \in 1..m /\ text[i + n + j - 1] = d[j]
      BY <1>1, <2>1 DEF Whole
    <2>3. ASSUME NEW j \in 1..Len(d)
          PROVE  i + j - 1 \in 1..(m - n) /\ rest[i + j - 1] = d[j]
      <3> DEFINE k == i + j - 1
      <3>1. j \in Nat /\ j >= 1 /\ d \in Seq(STRING)
        BY TransportAssumption
      <3>2. i + n + j - 1 = k + n /\ k >= 1 /\ k \in Int
        BY <1>1, <3>1
      <3>3. k + n \in 1..m /\ text[k + n] = d[j]
        BY <2>2, <3>2
      <3> HIDE DEF k
      <3>4. k \in 1..(m - n) /\ rest[k] = d[j]
        BY <1>1, <1>2, <3>2, <3>3
      <3> QED
        BY <3>4 DEF k
    <2> QED
      BY <2>3
  <1>4. Whole(rest)
    BY <1>2, <1>3 DEF Whole
  <1> QED
    BY <1>2, <1>4 DEF rest, m

\* What one read brings, when the parser takes it, is the beginning of a
\* command to it, whatever follows.
LEMMA ReadIsABeginning ==
  ASSUME NEW text \in Seq(STRING), Whole(text), NEW n \in 1..Len(text),
         SubSeq(text, 1, n)[1] = "<"
  PROVE  \E c \in Commands : IsPrefix(Command(SubSeq(text, 1, n)), Command(c))
  <1> DEFINE m == Len(text)
             s == SubSeq(text, 1, n)
  <1>1. m \in Nat /\ m = Len(text) /\ n \in 1..m
    OBVIOUS
  <1>2. s \in Seq(STRING) /\ Len(s) = n /\ \A i \in 1..n : s[i] = text[i]
    BY BeginningOf
  <1> HIDE DEF m, s
  <1>3. text[1] = "<"
    BY <1>1, <1>2 DEF s
  <1>4. PICK c \in Commands : \A j \in 1..Len(c) :
               1 + j - 1 \in 1..m /\ text[1 + j - 1] = c[j]
    BY <1>1, <1>3 DEF Whole
  <1>5. \A i \in 1..Len(s) : i <= Len(c) => s[i] = c[i]
    <2>1. ASSUME NEW i \in 1..n, i <= Len(c) PROVE s[i] = c[i]
      <3>1. i \in 1..Len(c) /\ 1 + i - 1 = i
        BY <2>1, TransportAssumption
      <3>2. text[1 + i - 1] = c[i]
        BY <1>4, <3>1
      <3> QED
        BY <1>2, <3>1, <3>2
    <2> QED
      BY <1>2, <2>1
  <1>6. IsPrefix(Command(s), Command(c))
    BY <1>2, <1>3, <1>5, BeginningOfCommand DEF s
  <1> QED
    BY <1>6 DEF s
-----------------------------------------------------------------------------
(* A command is executed as it was sent: the inductive invariant.          *)

\* The serial line: the buffer is all that came since the last '<', or it was
\* dropped, and then the parser waits for the next '<'.
LineInv ==
  /\ line \in Seq(STRING) /\ frame \in Seq(STRING)
  /\ \A i \in 1..Len(frame) : frame[i] \notin {"<", ">"}
  /\ buffer \in {<<>>, frame} /\ inCommandPayload \in BOOLEAN
  /\ inCommandPayload => buffer = frame /\ Len(frame) <= MAX_BUFFER

\* The network: who holds a slot is a client, and what waits is commands.
NetInv ==
  /\ clients \in [Slots -> Clients \cup {NoClient}] /\ at \in 0..MAX_SOCK_NUM
  /\ arrivals \subseteq Clients /\ open \subseteq Clients
  /\ inbox \in [Clients -> Seq(STRING)] /\ \A c \in Clients : Whole(inbox[c])
  /\ datagrams \subseteq [client : Clients, text : Commands]

StreamInv == LineInv /\ NetInv /\ ExecutesWhatWasSent

\* What parse reports is what is left of its text, and never nothing.
LEMMA ParseReports ==
  ASSUME NEW stream, NEW text, NEW blocking, parse(stream, text, blocking)
  PROVE  \/ UNCHANGED last
         \/ /\ Command(text) # <<>> /\ last'.stream = stream
            /\ last'.text = Command(text) /\ last'.frame = frame
  BY DEF parse, Program, Report, parseVars

LEMMA InitStreams == Init => StreamInv
  <1> SUFFICES ASSUME Init PROVE StreamInv
    OBVIOUS
  <1>1. LineInv
    <2>1. /\ line = <<>> /\ frame = <<>> /\ buffer = <<>>
          /\ inCommandPayload = FALSE
      BY DEF Init, ParserInit
    <2> QED
      BY <2>1, EmptyText DEF LineInv
  <1>2. NetInv
    <2>1. \A c \in Clients : Whole(inbox[c])
      BY DEF Init, Whole
    <2>2. 0 \in 0..MAX_SOCK_NUM
      BY TransportAssumption
    <2> QED
      BY <2>1, <2>2 DEF Init, NetInv
  <1>3. ExecutesWhatWasSent
    BY DEF Init, ParserInit, ExecutesWhatWasSent
  <1> QED
    BY <1>1, <1>2, <1>3 DEF StreamInv

LEMMA LineKept ==
  ASSUME LineInv, [Next]_vars
  PROVE  LineInv'
  <1>1. CASE UNCHANGED <<serialVars, line>>
    BY <1>1 DEF LineInv, serialVars
  <1>2. CASE Type
    BY <1>2, TransportAssumption DEF Type, LineInv, serialVars
  <1>3. CASE SerialLoop
    <2> DEFINE ch == Head(line)
               kept == flush(Len(buffer) = MAX_BUFFER)
    <2>1. line # <<>> /\ SerialChar(ch) /\ line' = Tail(line)
      BY <1>3 DEF SerialLoop
    <2>2. ch \in STRING /\ line' \in Seq(STRING)
      BY <2>1, HeadTailProperties DEF LineInv
    <2> HIDE DEF ch
    <2>3. CASE ch = "<"
      <3>1. frame' = <<>> /\ buffer' = <<>> /\ inCommandPayload' = TRUE
        BY <2>1, <2>3 DEF SerialChar
      <3>2. Len(<<>>) <= MAX_BUFFER
        BY ParserAssumption
      <3> QED
        BY <2>2, <3>1, <3>2, EmptyText DEF LineInv
    <2>4. CASE ch = ">"
      BY <2>1, <2>2, <2>4 DEF SerialChar, flush, LineInv
    <2>5. CASE ch \notin {"<", ">"}
      <3>1. /\ inCommandPayload' = kept.inside
            /\ buffer' = IF kept.inside THEN Append(kept.text, ch) ELSE kept.text
            /\ frame' = IF inCommandPayload /\ Len(frame) <= MAX_BUFFER
                        THEN Append(frame, ch) ELSE frame
        BY <2>1, <2>5 DEF SerialChar
      <3>2. /\ Append(frame, ch) \in Seq(STRING)
            /\ Len(Append(frame, ch)) = Len(frame) + 1
            /\ \A i \in 1..(Len(frame) + 1) :
                 Append(frame, ch)[i] \notin {"<", ">"}
        <4>1. /\ Append(frame, ch) \in Seq(STRING)
              /\ Len(Append(frame, ch)) = Len(frame) + 1
              /\ \A i \in 1..Len(frame) : Append(frame, ch)[i] = frame[i]
              /\ Append(frame, ch)[Len(frame) + 1] = ch
          BY <2>2, AppendProperties DEF LineInv
        <4>2. Len(frame) \in Nat
          BY DEF LineInv
        <4> QED
          BY <2>5, <4>1, <4>2 DEF LineInv
      <3>3. CASE inCommandPayload /\ Len(buffer) # MAX_BUFFER
        <4>1. /\ inCommandPayload' = TRUE /\ buffer' = Append(frame, ch)
              /\ frame' = Append(frame, ch)
          BY <3>1, <3>3 DEF flush, LineInv
        <4>2. Len(frame) + 1 <= MAX_BUFFER
          BY <3>3, ParserAssumption DEF LineInv
        <4> QED
          BY <2>2, <3>2, <4>1, <4>2 DEF LineInv
      <3>4. CASE inCommandPayload /\ Len(buffer) = MAX_BUFFER
        <4>1. /\ inCommandPayload' = FALSE /\ buffer' = <<>>
              /\ frame' = Append(frame, ch)
          BY <3>1, <3>4 DEF flush, LineInv
        <4> QED
          BY <2>2, <3>2, <4>1 DEF LineInv
      <3>5. CASE ~inCommandPayload
        <4>1. /\ inCommandPayload' = FALSE /\ buffer' \in {<<>>, buffer}
              /\ frame' = frame
          BY <3>1, <3>5 DEF flush
        <4> QED
          BY <2>2, <4>1 DEF LineInv
      <3> QED
        BY <3>3, <3>4, <3>5
    <2> QED
      BY <2>3, <2>4, <2>5
  <1> QED
    BY <1>1, <1>2, <1>3 DEF Next, setup, Accept, Serve, udpHandler, DCCLoop,
       Connect, Leave, SendCommand, LoseDatagram, vars, serialVars

\* A read takes a beginning of what waits, and leaves the rest of it.
LEMMA ServeReads ==
  ASSUME NetInv, Serve
  PROVE  /\ inbox' \in [Clients -> Seq(STRING)] /\ \A c \in Clients : Whole(inbox'[c])
         /\ \/ UNCHANGED last
            \/ \E client \in Clients : \E n \in 1..Len(inbox[client]) :
                 TransportParse(client, SubSeq(inbox[client], 1, n))
  <1> DEFINE client == clients[at]
  <1>1. CASE client # NoClient /\ inbox[client] # <<>>
    <2>1. client \in Clients
      BY <1>1 DEF NetInv, Serve, Slots
    <2> HIDE DEF client
    <2> DEFINE text == inbox[client]
    <2>2. text \in Seq(STRING) /\ Whole(text) /\ Len(text) \in Nat /\ Len(text) > 0
      BY <1>1, <2>1, EmptySeq DEF NetInv
    <2>3. PICK n \in 1..Min({Len(text), MAX_ETH_BUFFER - 1}) :
                 /\ TransportParse(client, SubSeq(text, 1, n))
                 /\ inbox' = [inbox EXCEPT ![client] = SubSeq(@, n + 1, Len(@))]
      BY <1>1 DEF Serve, client
    <2>4. n \in 1..Len(text)
      <3>1. Min({Len(text), MAX_ETH_BUFFER - 1}) <= Len(text)
        BY <2>2, TransportAssumption, SmallerOfTwo
      <3>2. Min({Len(text), MAX_ETH_BUFFER - 1}) \in Nat
        BY <2>2, TransportAssumption, SmallerOfTwo
      <3> QED
        BY <2>2, <2>3, <3>1, <3>2
    <2>5. /\ SubSeq(text, n + 1, Len(text)) \in Seq(STRING)
          /\ Whole(SubSeq(text, n + 1, Len(text)))
      BY <2>2, <2>4, WholeRest
    <2> QED
      BY <2>1, <2>3, <2>4, <2>5 DEF NetInv
  <1>2. CASE ~(client # NoClient /\ inbox[client] # <<>>)
    BY <1>2 DEF Serve, NetInv, parseVars
  <1> QED
    BY <1>1, <1>2


LEMMA NetKept ==
  ASSUME NetInv, [Next]_vars
  PROVE  NetInv'
  <1>1. CASE UNCHANGED netVars
    BY <1>1 DEF NetInv, netVars
  <1>2. CASE setup
    BY <1>2 DEF setup, NetInv
  <1>3. CASE Accept
    <2>1. at' \in 0..MAX_SOCK_NUM
      BY <1>3, TransportAssumption DEF Accept
    <2>2. arrivals' \subseteq Clients /\ clients' \in [Slots -> Clients \cup {NoClient}]
      <3>1. CASE UNCHANGED <<arrivals, clients>>
        BY <3>1 DEF NetInv
      <3>2. ASSUME NEW client \in arrivals, arrivals' = arrivals \ {client},
                   NEW i, clients' \in {clients, [clients EXCEPT ![i] = client]}
            PROVE  /\ arrivals' \subseteq Clients
                   /\ clients' \in [Slots -> Clients \cup {NoClient}]
        BY <3>2 DEF NetInv
      <3>3. ASSUME NEW client \in arrivals, NEW free, arrivals' = arrivals \ {client},
                   clients' = IF free = {} THEN clients
                              ELSE [clients EXCEPT ![Min(free)] = client]
            PROVE  /\ arrivals' \subseteq Clients
                   /\ clients' \in [Slots -> Clients \cup {NoClient}]
        BY <3>2, <3>3
      <3> DEFINE free == {i \in Slots : clients[i] = NoClient}
      <3>4. \/ UNCHANGED <<arrivals, clients>>
            \/ \E client \in arrivals :
                 /\ arrivals' = arrivals \ {client}
                 /\ clients' = IF free = {} THEN clients
                               ELSE [clients EXCEPT ![Min(free)] = client]
        BY <1>3 DEF Accept
      <3> HIDE DEF free
      <3> QED
        BY <3>1, <3>3, <3>4
    <2> QED
      BY <1>3, <2>1, <2>2 DEF Accept, NetInv
  <1>4. CASE Serve
    <2>1. at' \in 0..MAX_SOCK_NUM
      <3>1. at' = (at + 1) % (MAX_SOCK_NUM + 1) /\ at \in Int
        BY <1>4 DEF Serve, NetInv
      <3> QED
        BY <3>1, TransportAssumption
    <2>2. clients' \in [Slots -> Clients \cup {NoClient}]
      BY <1>4 DEF Serve, StopDisconnected, NetInv
    <2> QED
      BY <1>4, <2>1, <2>2, ServeReads DEF Serve, NetInv
  <1>5. CASE udpHandler
    BY <1>5 DEF udpHandler, NetInv
  <1>6. CASE Connect
    <2>1. PICK c \in Clients : /\ open' = open \cup {c} /\ arrivals' = arrivals \cup {c}
                               /\ inbox' = [inbox EXCEPT ![c] = <<>>]
      BY <1>6 DEF Connect
    <2>2. Whole(<<>>)
      BY EmptyText DEF Whole
    <2> QED
      BY <1>6, <2>1, <2>2, EmptyText DEF Connect, NetInv
  <1>7. CASE Leave
    BY <1>7 DEF Leave, NetInv
  <1>8. CASE SendCommand
    <2>1. ASSUME NEW c \in open, NEW command \in Commands,
                 inbox' = [inbox EXCEPT ![c] = @ \o command], UNCHANGED datagrams
          PROVE  NetInv'
      <3>1. c \in Clients /\ inbox[c] \in Seq(STRING) /\ Whole(inbox[c])
        BY DEF NetInv
      <3>2. inbox[c] \o command \in Seq(STRING) /\ Whole(inbox[c] \o command)
        BY <3>1, WholeWithOneMore
      <3> QED
        BY <1>8, <2>1, <3>1, <3>2 DEF SendCommand, NetInv
    <2>2. ASSUME NEW c \in Clients, NEW command \in Commands,
                 datagrams' = datagrams \cup {[client |-> c, text |-> command]},
                 UNCHANGED inbox
          PROVE  NetInv'
      BY <1>8, <2>2 DEF SendCommand, NetInv
    <2> QED
      BY <1>8, <2>1, <2>2 DEF SendCommand
  <1>9. CASE LoseDatagram
    BY <1>9 DEF LoseDatagram, NetInv
  <1> QED
    BY <1>1, <1>2, <1>3, <1>4, <1>5, <1>6, <1>7, <1>8, <1>9
       DEF Next, SerialLoop, DCCLoop, Type, vars, netVars

\* A text from the network that is reported begins with '<' and is what is
\* left of it.
LEMMA FromTheNetwork ==
  ASSUME NEW client \in Clients, NEW text, TransportParse(client, text),
         ExecutesWhatWasSent,
         text[1] = "<" => \E c \in Commands : IsPrefix(Command(text), Command(c))
  PROVE  ExecutesWhatWasSent'
  <1>1. CASE UNCHANGED last
    BY <1>1 DEF ExecutesWhatWasSent
  <1>2. CASE ~UNCHANGED last
    <2>1. text[1] = "<" /\ parse(client, text, TRUE)
      BY <1>2 DEF TransportParse, parseVars
    <2>2. last'.stream = client /\ last'.text = Command(text)
      BY <1>2, <2>1, ParseReports
    <2>3. client # Serial
      BY TransportAssumption
    <2> QED
      BY <2>1, <2>2, <2>3 DEF ExecutesWhatWasSent
  <1> QED
    BY <1>1, <1>2

\* A command is executed as it was sent, whatever comes over the serial line,
\* however long, and however the network cuts, loses and repeats what the
\* clients send: loop of DCCEXParser.cpp never executes the rest of a command
\* whose beginning it dropped, and a handler never the rest of one it cut.
THEOREM ExecutedAsSent == Spec => []ExecutesWhatWasSent
  <1>1. StreamInv /\ [Next]_vars => StreamInv'
    <2> SUFFICES ASSUME StreamInv, [Next]_vars PROVE StreamInv'
      OBVIOUS
    <2>1. LineInv' /\ NetInv'
      BY LineKept, NetKept DEF StreamInv
    <2>2. ExecutesWhatWasSent'
      <3>1. CASE UNCHANGED last
        BY <3>1 DEF StreamInv, ExecutesWhatWasSent
      <3>2. CASE Serve
        <4>1. ASSUME NEW client \in Clients, NEW n \in 1..Len(inbox[client]),
                     TransportParse(client, SubSeq(inbox[client], 1, n))
              PROVE  ExecutesWhatWasSent'
          <5> DEFINE text == SubSeq(inbox[client], 1, n)
          <5>1. text[1] = "<" => \E c \in Commands : IsPrefix(Command(text), Command(c))
            BY ReadIsABeginning DEF StreamInv, NetInv
          <5> HIDE DEF text
          <5> QED
            BY <4>1, <5>1, FromTheNetwork DEF StreamInv, text
        <4> QED
          BY <3>1, <3>2, <4>1, ServeReads DEF StreamInv
      <3>3. CASE udpHandler
        <4>1. PICK d \in datagrams : TransportParse(d.client,
                 SubSeq(d.text, 1, Min({Len(d.text), MAX_ETH_BUFFER - 1})))
          BY <3>3 DEF udpHandler
        <4> DEFINE m == Len(d.text)
                   n == Min({m, MAX_ETH_BUFFER - 1})
                   text == SubSeq(d.text, 1, n)
        <4>2. /\ d.client \in Clients /\ d.text \in Commands
              /\ d.text \in Seq(STRING) /\ m \in Nat
          BY TransportAssumption DEF StreamInv, NetInv
        <4>3. n \in 0..m
          BY <4>2, TransportAssumption, SmallerOfTwo
        <4> HIDE DEF n
        <4>4. text \in Seq(STRING) /\ Len(text) = n /\ \A i \in 1..n : text[i] = d.text[i]
          BY <4>2, <4>3, BeginningOf
        <4> HIDE DEF text
        <4>5. text[1] = "<" => \E c \in Commands : IsPrefix(Command(text), Command(c))
          BY <4>2, <4>4, BeginningOfCommand
        <4> QED
          BY <4>1, <4>2, <4>5, FromTheNetwork DEF StreamInv, text, n
      <3>4. CASE SerialLoop
        <4> DEFINE kept == flush(Len(buffer) = MAX_BUFFER)
        <4>1. SerialChar(Head(line))
          BY <3>4 DEF SerialLoop
        <4>2. UNCHANGED last \/ parse(Serial, kept.text, FALSE)
          BY <4>1 DEF SerialChar, parseVars
        <4>3. kept.text \in {<<>>, frame}
          BY DEF flush, StreamInv, LineInv
        <4>4. Command(kept.text) = kept.text
          BY <4>3, PlainText, EmptyText DEF StreamInv, LineInv
        <4>5. UNCHANGED last \/ (last'.stream = Serial /\ last'.text = last'.frame)
          <5> DEFINE text == kept.text
          <5>1. text \in {<<>>, frame} /\ Command(text) = text
            BY <4>3, <4>4
          <5>2. CASE parse(Serial, text, FALSE)
            <6> HIDE DEF text
            <6>1. \/ UNCHANGED last
                  \/ /\ Command(text) # <<>> /\ last'.stream = Serial
                     /\ last'.text = Command(text) /\ last'.frame = frame
              BY <5>2, ParseReports
            <6>2. text = frame \/ Command(text) = <<>>
              BY <5>1
            <6> QED
              BY <5>1, <6>1, <6>2
          <5> QED
            BY <4>2, <5>2
        <4> QED
          BY <3>1, <4>5 DEF ExecutesWhatWasSent
      <3>5. CASE \/ setup \/ Accept \/ DCCLoop \/ Type \/ Connect \/ Leave
                 \/ SendCommand \/ LoseDatagram \/ UNCHANGED vars
        BY <3>1, <3>5 DEF setup, Accept, DCCLoop, Callback, Type, Connect, Leave,
                          SendCommand, LoseDatagram, vars, parseVars
      <3> QED
        BY <3>2, <3>3, <3>4, <3>5 DEF Next
    <2> QED
      BY <2>1, <2>2 DEF StreamInv
  <1> QED
    BY <1>1, InitStreams, PTL DEF Spec, StreamInv
=============================================================================
