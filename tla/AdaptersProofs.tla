-------------------------- MODULE AdaptersProofs --------------------------
(***************************************************************************)
(* Every adapter keeps the contract, for any drivers, numbers of frames,   *)
(* lengths of line and parts in which the line is read: Adapters           *)
(* implements AdapterContract, step by step.                               *)
(*                                                                         *)
(* What is due to the application is numbered without a gap.  Along the    *)
(* units on their way the numbers of the frames only grow, so what a       *)
(* driver makes of the units up to some place is a row of numbers, and     *)
(* what it makes of the rest is the row that goes on there.  That is shown *)
(* of each driver's own loop, the recursive functions by least             *)
(* counterexample.                                                         *)
(***************************************************************************)
EXTENDS Adapters, SequenceTheorems, FiniteSetTheorems, WellFoundedInduction, NaturalsInduction, TLAPS

-----------------------------------------------------------------------------
(* Numbers in a row.                                                        *)

\* A set that has zero and with each number the next has all.
LEMMA Induction ==
  ASSUME NEW S, 0 \in S, \A k \in Nat : k \in S => k + 1 \in S
  PROVE  Nat \subseteq S
  <1> DEFINE Less == {ss \in Nat \X Nat : ss[1] < ss[2]}
             Bad == Nat \ S
  <1>1. IsWellFoundedOn(Less, Nat)
    BY NatLessThanWellFounded, Zenon DEF OpToRel
  <1>2. SUFFICES ASSUME Bad # {} PROVE FALSE
    OBVIOUS
  <1> HIDE DEF Less
  <1>3. PICK m \in Bad : \A k \in Bad : <<k, m>> \notin Less
    BY <1>1, <1>2, WFMin, Zenon
  <1>4. m # 0 /\ m - 1 \in Nat /\ m - 1 < m
    BY <1>3
  <1>5. m - 1 \notin Bad
    BY <1>3, <1>4 DEF Less
  <1>6. m \in S
    BY <1>4, <1>5
  <1>7. QED
    BY <1>3, <1>6

\* The numbers from i to k.
Run(i, k) == [m \in 1..(k - i + 1) |-> i + m - 1]

\* A row of numbers from i to k is as long as that.
LEMMA RunFacts ==
  ASSUME NEW i \in Nat, NEW k \in Nat
  PROVE  /\ Run(i, k) \in Seq(Nat)
         /\ (k < i => Run(i, k) = << >>)
         /\ (i <= k + 1 => Len(Run(i, k)) = k - i + 1)
  <1>1. Run(i, k) \in Seq(Nat)
    BY DEF Run
  <1>2. k < i => Run(i, k) = << >>
    BY DEF Run
  <1>3. i <= k + 1 => Len(Run(i, k)) = k - i + 1
    BY DEF Run
  <1>4. QED
    BY <1>1, <1>2, <1>3

\* A row that goes on where another stops makes one row with it.
LEMMA RunCat ==
  ASSUME NEW i \in Nat, NEW j \in Nat, NEW k \in Nat, i <= j + 1, j <= k
  PROVE  Run(i, j) \o Run(j + 1, k) = Run(i, k)
  <1> DEFINE a == Run(i, j)
             b == Run(j + 1, k)
             c == Run(i, k)
  <1>1. /\ a \in Seq(Nat) /\ Len(a) = j - i + 1 /\ \A m \in 1..(j - i + 1) : a[m] = i + m - 1
        /\ b \in Seq(Nat) /\ Len(b) = k - j /\ \A m \in 1..(k - j) : b[m] = j + m
        /\ c \in Seq(Nat) /\ Len(c) = k - i + 1 /\ \A m \in 1..(k - i + 1) : c[m] = i + m - 1
    BY DEF Run
  <1> HIDE DEF a, b, c
  <1> DEFINE t == a \o b
  <1>2. /\ t \in Seq(Nat) /\ Len(t) = k - i + 1
        /\ \A m \in 1..(k - i + 1) : t[m] = IF m <= j - i + 1 THEN a[m] ELSE b[m - (j - i + 1)]
    <2>1. /\ t \in Seq(Nat) /\ Len(t) = Len(a) + Len(b)
          /\ \A m \in 1..(Len(a) + Len(b)) : t[m] = IF m <= Len(a) THEN a[m] ELSE b[m - Len(a)]
      BY <1>1, ConcatProperties
    <2>2. Len(a) = j - i + 1 /\ Len(a) + Len(b) = k - i + 1
      BY <1>1
    <2>3. QED
      BY <2>1, <2>2
  <1> HIDE DEF t
  <1>3. \A m \in 1..Len(c) : t[m] = c[m]
    BY <1>1, <1>2
  <1>4. t = c
    BY <1>1, <1>2, <1>3, SeqEqual
  <1>5. QED
    BY <1>4 DEF a, b, c, t

\* A row is its first number and the row of the rest.
LEMMA RunHead ==
  ASSUME NEW i \in Nat, NEW k \in Nat, i <= k
  PROVE  Run(i, k) = <<i>> \o Run(i + 1, k)
  <1>1. Run(i, i) = <<i>>
    <2>1. Run(i, i) = [m \in 1..1 |-> i]
      BY DEF Run
    <2>2. QED
      BY <2>1
  <1>2. Run(i, i) \o Run(i + 1, k) = Run(i, k)
    <2>1. i <= i + 1
      OBVIOUS
    <2>2. QED
      BY <2>1, RunCat
  <1>3. QED
    BY <1>1, <1>2
-----------------------------------------------------------------------------
(* Streams of units.                                                        *)

\* What an slcan character is for the parser.
Classes == {"cmd", "hex", "F", "cr", "other"}

\* A unit of a message, with its class where it is a character.
Unit == [n : Nat, i : 1..5, len : 1..5] \cup [n : Nat, i : 1..5, len : 1..5, c : Classes]

\* A unit is of some number, at a place of its message.
LEMMA UnitFields ==
  ASSUME NEW u \in Unit
  PROVE  u.n \in Nat /\ u.i \in 1..5 /\ u.len \in 1..5
  BY DEF Unit

\* A unit that begins a frame has the next number, x being that of the last one
\* before it and y that of the last one behind.
Numbers(u, x, y) == IF u.i = 1 /\ u.n > 0 THEN u.n = x + 1 /\ y = u.n ELSE y = x

\* The frames that begin in s follow one another: b[j] is the number of the last
\* one among the first j units, or before them.
Numbered(s, b) ==
  /\ b \in [0..Len(s) -> Nat]
  /\ \A j \in 1..Len(s) : Numbers(s[j], b[j - 1], b[j])

\* Later units are of no earlier frames.
LEMMA NumbersGrow ==
  ASSUME NEW s \in Seq(Unit), NEW b, Numbered(s, b), NEW i \in 0..Len(s), NEW j \in i..Len(s)
  PROVE  b[i] \in Nat /\ b[j] \in Nat /\ b[i] <= b[j]
  <1> DEFINE L == Len(s)
             S == {m \in Nat : i + m <= L => b[i] <= b[i + m]}
  <1>1. L \in Nat /\ i \in 0..L /\ j \in i..L /\ \A m \in 0..L : b[m] \in Nat
    BY DEF Numbered
  <1>2. 0 \in S
    BY <1>1
  <1>3. ASSUME NEW m \in Nat, m \in S PROVE m + 1 \in S
    <2>1. SUFFICES ASSUME i + (m + 1) <= L PROVE b[i] <= b[i + (m + 1)]
      OBVIOUS
    <2>2. i + m \in 0..L /\ i + (m + 1) \in 1..L /\ b[i] <= b[i + m]
      BY <1>1, <1>3, <2>1
    <2>3. Numbers(s[i + (m + 1)], b[(i + (m + 1)) - 1], b[i + (m + 1)])
      BY <2>2 DEF Numbered
    <2>4. (i + (m + 1)) - 1 = i + m
      BY <1>1
    <2>5. b[i + m] <= b[i + (m + 1)]
      BY <1>1, <2>2, <2>3, <2>4 DEF Numbers
    <2>6. QED
      BY <1>1, <2>2, <2>5
  <1>4. Nat \subseteq S
    <2> HIDE DEF S
    <2>1. QED
      BY <1>2, <1>3, Induction
  <1>5. j - i \in Nat /\ i + (j - i) = j /\ j <= L
    BY <1>1
  <1>6. j - i \in S
    BY <1>4, <1>5
  <1>7. b[i] <= b[i + (j - i)]
    <2>1. i + (j - i) <= L => b[i] <= b[i + (j - i)]
      BY <1>6
    <2>2. QED
      BY <1>5, <2>1
  <1>8. QED
    BY <1>1, <1>5, <1>7

\* The frames that begin in s, in the words of the model.
LEMMA FramesInIs ==
  ASSUME NEW s \in Seq(Unit), NEW b, Numbered(s, b)
  PROVE  FramesIn(s) = Run(b[0] + 1, b[Len(s)])
  <1> DEFINE L == Len(s)
             last == b[L]
             Head1(j) == IF s[j].i = 1 /\ s[j].n > 0 THEN <<s[j].n>> ELSE << >>
             Eq(f) == f = [j \in 1..(L + 1) |-> IF j > L THEN << >> ELSE Head1(j) \o f[j + 1]]
             g == [j \in 1..(L + 1) |-> Run(b[j - 1] + 1, last)]
  <1>1. L \in Nat /\ last \in Nat
    BY DEF Numbered
  <1>2. ASSUME NEW j \in 1..L
        PROVE  Run(b[j - 1] + 1, last) = Head1(j) \o Run(b[j] + 1, last)
    <2> DEFINE x == b[j - 1]
               y == b[j]
    <2>1. x \in Nat /\ y \in Nat /\ y <= last /\ Numbers(s[j], x, y)
      <3>1. j - 1 \in 0..L /\ j \in 0..L /\ L \in j..L
        BY <1>1
      <3>2. b[j] <= b[L]
        BY <3>1, NumbersGrow
      <3>3. QED
        BY <1>1, <3>1, <3>2 DEF Numbered
    <2> HIDE DEF x, y
    <2>2. CASE s[j].i = 1 /\ s[j].n > 0
      <3>1. y = x + 1 /\ s[j].n = x + 1
        BY <2>1, <2>2 DEF Numbers
      <3>2. Run(x + 1, last) = <<x + 1>> \o Run((x + 1) + 1, last)
        BY <1>1, <2>1, <3>1, RunHead
      <3>3. QED
        BY <2>2, <3>1, <3>2 DEF x, y
    <2>3. CASE ~(s[j].i = 1 /\ s[j].n > 0)
      <3>1. y = x
        BY <2>1, <2>3 DEF Numbers
      <3>2. << >> \o Run(x + 1, last) = Run(x + 1, last)
        BY <1>1, <2>1, RunFacts, ConcatEmptySeq
      <3>3. QED
        BY <2>3, <3>1, <3>2 DEF x, y
    <2>4. QED
      BY <2>2, <2>3
  <1>3. Run(b[(L + 1) - 1] + 1, last) = << >>
    <2>1. (L + 1) - 1 = L /\ last + 1 \in Nat /\ last < last + 1
      BY <1>1
    <2>2. Run(last + 1, last) = << >>
      BY <1>1, <2>1, RunFacts
    <2>3. QED
      BY <2>1, <2>2
  <1>4. /\ g = [j \in 1..(L + 1) |-> g[j]]
        /\ \A j \in 1..(L + 1) : g[j] = Run(b[j - 1] + 1, last)
    OBVIOUS
  <1> HIDE DEF Head1, last, g
  <1>5. ASSUME NEW j \in 1..(L + 1)
        PROVE  g[j] = IF j > L THEN << >> ELSE Head1(j) \o g[j + 1]
    <2>1. CASE j > L
      <3>1. j = L + 1
        BY <1>1, <2>1
      <3>2. QED
        BY <1>3, <1>4, <2>1, <3>1
    <2>2. CASE j <= L
      <3>1. j \in 1..L /\ (j + 1) - 1 = j /\ j + 1 \in 1..(L + 1) /\ ~(j > L)
        BY <1>1, <2>2
      <3>2. g[j + 1] = Run(b[j] + 1, last)
        BY <1>4, <3>1
      <3>3. g[j] = Run(b[j - 1] + 1, last)
        BY <1>4
      <3>4. QED
        BY <1>2, <3>1, <3>2, <3>3
    <2>3. QED
      BY <1>1, <2>1, <2>2
  <1>6. Eq(g)
    BY <1>4, <1>5
  <1>7. ASSUME NEW f, Eq(f)
        PROVE  f[1] = g[1]
    <2> DEFINE S == {m \in Nat : m <= L => f[(L + 1) - m] = g[(L + 1) - m]}
    <2>1. \A j \in 1..(L + 1) : f[j] = IF j > L THEN << >> ELSE Head1(j) \o f[j + 1]
      BY <1>7
    <2>2. 0 \in S
      <3>1. f[L + 1] = << >> /\ g[L + 1] = << >>
        <4>1. L + 1 \in 1..(L + 1) /\ L + 1 > L
          BY <1>1
        <4>2. QED
          BY <1>5, <2>1, <4>1
      <3>2. QED
        BY <1>1, <3>1
    <2>3. ASSUME NEW m \in Nat, m \in S PROVE m + 1 \in S
      <3>1. SUFFICES ASSUME m + 1 <= L PROVE f[(L + 1) - (m + 1)] = g[(L + 1) - (m + 1)]
        OBVIOUS
      <3>2. PICK j : j = (L + 1) - (m + 1)
        OBVIOUS
      <3>3. j \in 1..(L + 1) /\ j + 1 = (L + 1) - m /\ m <= L /\ ~(j > L)
        BY <1>1, <3>1, <3>2
      <3>4. f[j + 1] = g[j + 1]
        BY <2>3, <3>3
      <3>5. f[j] = Head1(j) \o f[j + 1]
        BY <2>1, <3>3
      <3>6. g[j] = Head1(j) \o g[j + 1]
        BY <1>5, <3>3
      <3>7. QED
        BY <3>2, <3>4, <3>5, <3>6
    <2>4. L \in S
      <3> HIDE DEF S
      <3>1. QED
        BY <1>1, <2>2, <2>3, Induction
    <2>5. (L + 1) - L = 1
      BY <1>1
    <2>6. QED
      BY <1>1, <2>4, <2>5
  <1>8. FramesIn(s) = (CHOOSE f : Eq(f))[1]
    BY DEF FramesIn, Head1
  <1> HIDE DEF Eq
  <1>9. Eq(CHOOSE f : Eq(f))
    BY <1>6
  <1>10. FramesIn(s) = g[1]
    BY <1>7, <1>8, <1>9
  <1>11. g[1] = Run(b[0] + 1, last)
    <2>1. 1 \in 1..(L + 1) /\ 1 - 1 = 0
      BY <1>1
    <2>2. QED
      BY <1>4, <2>1
  <1>12. QED
    BY <1>10, <1>11 DEF last

\* A message goes on, or the next begins.
Follows(u, v) == IF u.i < u.len THEN v.i = u.i + 1 /\ v.n = u.n /\ v.len = u.len ELSE v.i = 1

\* Messages one after the other, the first and the last perhaps in part.
Stream(s) == /\ s \in Seq(Unit)
             /\ \A j \in 1..Len(s) : s[j].i <= s[j].len
             /\ \A j \in 1..Len(s) : j + 1 <= Len(s) => Follows(s[j], s[j + 1])

\* The last message is there to its end.
Ends(s) == Len(s) > 0 => s[Len(s)].i = s[Len(s)].len

\* The first message is whole from its beginning.
Begins(s) == Len(s) > 0 => s[1].i = 1

\* Each unit of a stream has its place in its message.
LEMMA UnitAt ==
  ASSUME NEW s, Stream(s), NEW j \in 1..Len(s)
  PROVE  /\ Len(s) \in Nat /\ s[j] \in Unit
         /\ s[j].n \in Nat /\ s[j].i \in 1..5 /\ s[j].len \in 1..5 /\ s[j].i <= s[j].len
  <1>1. s[j] \in Unit /\ Len(s) \in Nat
    BY DEF Stream
  <1>2. QED
    BY <1>1, UnitFields DEF Stream

\* Any part of a stream.
LEMMA PartFacts ==
  ASSUME NEW s \in Seq(Unit), NEW i \in 1..(Len(s) + 1), NEW j \in (i - 1)..Len(s)
  PROVE  /\ SubSeq(s, i, j) \in Seq(Unit) /\ Len(SubSeq(s, i, j)) = j - i + 1
         /\ \A k \in 1..(j - i + 1) : SubSeq(s, i, j)[k] = s[i + k - 1]
  <1>1. Len(s) \in Nat /\ i \in Int /\ j \in Int
    OBVIOUS
  <1>2. \A k \in i..j : s[k] \in Unit
    BY <1>1
  <1> DEFINE t == SubSeq(s, i, j)
  <1>3. /\ t \in Seq(Unit) /\ Len(t) = IF i <= j THEN j - i + 1 ELSE 0
        /\ \A k \in 1..(j - i + 1) : t[k] = s[i + k - 1]
    BY <1>1, <1>2, SubSeqProperties
  <1>4. QED
    BY <1>1, <1>3

\* A part of a stream is a stream.
LEMMA PartOfStream ==
  ASSUME NEW s, Stream(s), NEW i \in 1..(Len(s) + 1), NEW j \in (i - 1)..Len(s)
  PROVE  Stream(SubSeq(s, i, j))
  <1> DEFINE t == SubSeq(s, i, j)
  <1>1. s \in Seq(Unit) /\ Len(s) \in Nat
    BY DEF Stream
  <1>2. /\ t \in Seq(Unit) /\ Len(t) = j - i + 1
        /\ \A k \in 1..(j - i + 1) : t[k] = s[i + k - 1]
    BY <1>1, PartFacts
  <1> HIDE DEF t
  <1>3. ASSUME NEW k \in 1..Len(t) PROVE t[k].i <= t[k].len
    <2>1. i + k - 1 \in 1..Len(s) /\ t[k] = s[i + k - 1]
      BY <1>1, <1>2
    <2>2. QED
      BY <2>1 DEF Stream
  <1>4. ASSUME NEW k \in 1..Len(t), k + 1 <= Len(t) PROVE Follows(t[k], t[k + 1])
    <2> DEFINE m == i + k - 1
    <2>1. m \in 1..Len(s) /\ m + 1 <= Len(s) /\ t[k] = s[m]
      BY <1>1, <1>2, <1>4
    <2>2. t[k + 1] = s[m + 1]
      <3>1. k + 1 \in 1..(j - i + 1) /\ i + (k + 1) - 1 = m + 1
        BY <1>1, <1>2, <1>4
      <3>2. QED
        BY <1>2, <3>1
    <2>3. Follows(s[m], s[m + 1])
      BY <2>1 DEF Stream
    <2>4. QED
      BY <2>1, <2>2, <2>3
  <1>5. Stream(t)
    BY <1>2, <1>3, <1>4 DEF Stream
  <1>6. QED
    BY <1>5 DEF t

\* A part of numbered units is numbered.
LEMMA PartNumbered ==
  ASSUME NEW s \in Seq(Unit), NEW b, Numbered(s, b),
         NEW i \in 1..(Len(s) + 1), NEW j \in (i - 1)..Len(s)
  PROVE  Numbered(SubSeq(s, i, j), [k \in 0..(j - i + 1) |-> b[i - 1 + k]])
  <1> DEFINE t == SubSeq(s, i, j)
             c == [k \in 0..(j - i + 1) |-> b[i - 1 + k]]
  <1>1. Len(s) \in Nat /\ \A k \in 0..Len(s) : b[k] \in Nat
    BY DEF Numbered
  <1>2. /\ Len(t) = j - i + 1
        /\ \A k \in 1..(j - i + 1) : t[k] = s[i + k - 1]
    BY PartFacts
  <1>3. c \in [0..Len(t) -> Nat]
    <2>1. ASSUME NEW k \in 0..(j - i + 1) PROVE b[i - 1 + k] \in Nat
      <3>1. i - 1 + k \in 0..Len(s)
        BY <1>1
      <3>2. QED
        BY <1>1, <3>1
    <2> HIDE DEF t
    <2>2. QED
      BY <1>2, <2>1
  <1>4. ASSUME NEW k \in 1..Len(t) PROVE Numbers(t[k], c[k - 1], c[k])
    <2> DEFINE m == i + k - 1
    <2>1. k \in 1..(j - i + 1)
      BY <1>2
    <2>2. m \in 1..Len(s) /\ m - 1 = i - 1 + (k - 1) /\ m = i - 1 + k /\ k - 1 \in 0..(j - i + 1)
          /\ k \in 0..(j - i + 1)
      BY <1>1, <2>1
    <2>3. t[k] = s[m]
      BY <1>2, <2>1
    <2> HIDE DEF t
    <2>4. c[k - 1] = b[m - 1] /\ c[k] = b[m]
      BY <2>2
    <2> HIDE DEF m, c
    <2>5. Numbers(s[m], b[m - 1], b[m])
      BY <2>2 DEF Numbered
    <2>6. QED
      BY <2>3, <2>4, <2>5
  <1>5. QED
    BY <1>3, <1>4 DEF Numbered

\* Where no frame begins the number stays.
LEMMA NumbersStay ==
  ASSUME NEW s \in Seq(Unit), NEW b, Numbered(s, b), NEW i \in 0..Len(s), NEW j \in i..Len(s),
         \A k \in 1..Len(s) : i < k /\ k <= j => s[k].i # 1 \/ s[k].n = 0
  PROVE  b[j] = b[i]
  <1> DEFINE L == Len(s)
             S == {m \in Nat : i + m <= j => b[i + m] = b[i]}
  <1>1. L \in Nat /\ i \in 0..L /\ j \in i..L
    OBVIOUS
  <1>2. 0 \in S
    BY <1>1
  <1>3. ASSUME NEW m \in Nat, m \in S PROVE m + 1 \in S
    <2>1. SUFFICES ASSUME i + (m + 1) <= j PROVE b[i + (m + 1)] = b[i]
      OBVIOUS
    <2>2. PICK k : k = i + (m + 1)
      OBVIOUS
    <2>3. k \in 1..L /\ i < k /\ k <= j /\ k - 1 = i + m /\ i + m <= j
      BY <1>1, <2>1, <2>2
    <2>4. Numbers(s[k], b[k - 1], b[k])
      BY <2>3 DEF Numbered
    <2>5. s[k].i # 1 \/ s[k].n = 0
      BY <2>3
    <2>6. b[k] = b[k - 1]
      BY <2>4, <2>5 DEF Numbers
    <2>7. b[i + m] = b[i]
      BY <1>3, <2>3
    <2>8. QED
      BY <2>2, <2>3, <2>6, <2>7
  <1>4. Nat \subseteq S
    <2> HIDE DEF S
    <2>1. QED
      BY <1>2, <1>3, Induction
  <1>5. j - i \in Nat /\ i + (j - i) = j
    BY <1>1
  <1>6. j - i \in S
    BY <1>4, <1>5
  <1>7. i + (j - i) <= j => b[i + (j - i)] = b[i]
    BY <1>6
  <1>8. QED
    BY <1>1, <1>5, <1>7

\* The units of a message, from any of them on.
LEMMA MessageGoesOn ==
  ASSUME NEW s, Stream(s), NEW j \in 1..Len(s), NEW d \in Nat,
         j + d <= Len(s), s[j].i + d <= s[j].len
  PROVE  s[j + d].i = s[j].i + d /\ s[j + d].n = s[j].n /\ s[j + d].len = s[j].len
  <1> DEFINE L == Len(s)
             S == {m \in Nat : m <= d => /\ s[j + m].i = s[j].i + m /\ s[j + m].n = s[j].n
                                         /\ s[j + m].len = s[j].len}
  <1>1. L \in Nat /\ j \in 1..L /\ s[j].i \in 1..5 /\ s[j].len \in 1..5
    BY UnitAt
  <1>2. PICK x \in Nat, y \in Nat : x = s[j].i /\ y = s[j].len
    BY <1>1
  <1>3. j + d <= L /\ x + d <= y
    BY <1>2
  <1>4. 0 \in S
    BY <1>1
  <1>5. ASSUME NEW m \in Nat, m \in S PROVE m + 1 \in S
    <2>1. SUFFICES ASSUME m + 1 <= d
                   PROVE  /\ s[j + (m + 1)].i = s[j].i + (m + 1) /\ s[j + (m + 1)].n = s[j].n
                          /\ s[j + (m + 1)].len = s[j].len
      OBVIOUS
    <2>2. PICK k : k = j + m
      OBVIOUS
    <2>3. k \in 1..L /\ k + 1 <= L /\ k + 1 = j + (m + 1) /\ m <= d
      <3>1. j \in Nat /\ m \in Nat /\ d \in Nat /\ L \in Nat /\ j >= 1 /\ m + 1 <= d /\ j + d <= L
        BY <1>1, <1>3, <2>1
      <3> HIDE DEF S, L
      <3>2. QED
        BY <2>2, <3>1
    <2>4. s[k].i = s[j].i + m /\ s[k].n = s[j].n /\ s[k].len = s[j].len
      BY <1>5, <2>2, <2>3
    <2>5. Follows(s[k], s[k + 1])
      BY <2>3 DEF Stream
    <2>6. s[k].i < s[k].len
      <3>1. s[k].i = x + m /\ s[k].len = y
        BY <1>2, <2>4
      <3>2. x + m < y
        BY <1>3, <2>1
      <3>3. QED
        BY <3>1, <3>2
    <2>7. s[k + 1].i = s[k].i + 1 /\ s[k + 1].n = s[k].n /\ s[k + 1].len = s[k].len
      BY <2>5, <2>6 DEF Follows
    <2>8. QED
      <3>1. s[k + 1].i = x + (m + 1)
        <4>1. m \in Nat /\ s[k].i = x + m
          BY <1>2, <2>4
        <4>2. s[k + 1].i = (x + m) + 1
          BY <2>7, <4>1
        <4>3. (x + m) + 1 = x + (m + 1)
          BY <4>1
        <4>4. QED
          BY <4>2, <4>3
      <3> HIDE DEF S
      <3>2. QED
        BY <1>2, <2>3, <2>4, <2>7, <3>1
  <1>6. Nat \subseteq S
    <2> HIDE DEF S
    <2>1. QED
      BY <1>4, <1>5, Induction
  <1>7. d \in S
    BY <1>6
  <1>8. QED
    BY <1>7

\* And back from any of them.
LEMMA MessageBack ==
  ASSUME NEW s, Stream(s), NEW j \in 1..Len(s), NEW d \in Nat, d < j, d < s[j].i
  PROVE  s[j - d].i = s[j].i - d /\ s[j - d].n = s[j].n /\ s[j - d].len = s[j].len
  <1> DEFINE L == Len(s)
             S == {m \in Nat : m <= d => /\ s[j - m].i = s[j].i - m /\ s[j - m].n = s[j].n
                                         /\ s[j - m].len = s[j].len}
  <1>1. L \in Nat /\ j \in 1..L /\ s[j].i \in 1..5 /\ s[j].len \in 1..5
    BY UnitAt
  <1>2. 0 \in S
    BY <1>1
  <1>3. ASSUME NEW m \in Nat, m \in S PROVE m + 1 \in S
    <2>1. SUFFICES ASSUME m + 1 <= d
                   PROVE  /\ s[j - (m + 1)].i = s[j].i - (m + 1) /\ s[j - (m + 1)].n = s[j].n
                          /\ s[j - (m + 1)].len = s[j].len
      OBVIOUS
    <2>2. PICK k : k = j - (m + 1)
      OBVIOUS
    <2>3. k \in 1..L /\ k + 1 <= L /\ k + 1 = j - m /\ m <= d
      BY <1>1, <2>1, <2>2
    <2>4. s[k + 1].i = s[j].i - m /\ s[k + 1].n = s[j].n /\ s[k + 1].len = s[j].len
      BY <1>3, <2>2, <2>3
    <2>5. Follows(s[k], s[k + 1])
      BY <2>3 DEF Stream
    <2>6. s[k + 1].i # 1
      BY <1>1, <2>1, <2>4
    <2>7. s[k + 1].i = s[k].i + 1 /\ s[k + 1].n = s[k].n /\ s[k + 1].len = s[k].len
      BY <2>5, <2>6 DEF Follows
    <2>8. s[k].i \in 1..5
      BY <2>3, UnitAt
    <2>9. s[k].i = s[j].i - (m + 1)
      <3>1. PICK x \in Nat, y \in Nat : x = s[j].i /\ y = s[k].i
        BY <1>1, <2>8
      <3>2. s[k + 1].i = x - m /\ s[k + 1].i = y + 1
        BY <2>4, <2>7, <3>1
      <3>3. y + 1 = x - m
        BY <3>2
      <3>4. y = x - (m + 1)
        BY <3>3
      <3>5. QED
        BY <3>1, <3>4
    <2>10. QED
      BY <2>2, <2>4, <2>7, <2>9
  <1>4. Nat \subseteq S
    <2> HIDE DEF S
    <2>1. QED
      BY <1>2, <1>3, Induction
  <1>5. d \in S
    BY <1>4
  <1>6. QED
    BY <1>5

\* What comes behind the end of a message.
LEMMA BehindTheEnd ==
  ASSUME NEW s, Stream(s), NEW j \in 0..Len(s), j > 0 => s[j].i = s[j].len, j = 0 => Begins(s)
  PROVE  Begins(SubSeq(s, j + 1, Len(s)))
  <1> DEFINE t == SubSeq(s, j + 1, Len(s))
  <1>1. s \in Seq(Unit) /\ Len(s) \in Nat
    BY DEF Stream
  <1>2. j + 1 \in 1..(Len(s) + 1) /\ Len(s) \in ((j + 1) - 1)..Len(s)
    BY <1>1
  <1>3. /\ Len(t) = Len(s) - (j + 1) + 1
        /\ \A k \in 1..(Len(s) - (j + 1) + 1) : t[k] = s[(j + 1) + k - 1]
    BY <1>1, <1>2, PartFacts
  <1> HIDE DEF t
  <1>4. ASSUME Len(t) > 0 PROVE t[1].i = 1
    <2>1. 1 \in 1..(Len(s) - (j + 1) + 1) /\ (j + 1) + 1 - 1 = j + 1 /\ j + 1 <= Len(s)
      BY <1>1, <1>3, <1>4
    <2>2. t[1] = s[j + 1]
      <3>1. t[1] = s[(j + 1) + 1 - 1]
        BY <1>3, <2>1
      <3>2. QED
        BY <2>1, <3>1
    <2>3. CASE j = 0
      <3>1. Len(s) > 0 /\ j + 1 = 1
        BY <1>1, <2>1, <2>3
      <3>2. QED
        BY <2>2, <2>3, <3>1 DEF Begins
    <2>4. CASE j > 0
      <3>1. j \in 1..Len(s)
        BY <1>1, <2>4
      <3>2. Follows(s[j], s[j + 1])
        BY <2>1, <3>1 DEF Stream
      <3>3. s[j].i \in 1..5 /\ s[j].i = s[j].len
        BY <2>4, <3>1, UnitAt
      <3>4. QED
        BY <2>2, <3>2, <3>3 DEF Follows
    <2>5. QED
      BY <2>3, <2>4
  <1>5. QED
    BY <1>4 DEF Begins, t

\* The elements of one sequence put behind another.
LEMMA CatFacts ==
  ASSUME NEW S, NEW s \in Seq(S), NEW t \in Seq(S)
  PROVE  /\ s \o t \in Seq(S) /\ Len(s \o t) = Len(s) + Len(t)
         /\ \A k \in 1..Len(s) : (s \o t)[k] = s[k]
         /\ \A k \in 1..Len(t) : (s \o t)[Len(s) + k] = t[k]
  <1> DEFINE u == s \o t
  <1>1. Len(s) \in Nat /\ Len(t) \in Nat
    OBVIOUS
  <1>2. /\ u \in Seq(S) /\ Len(u) = Len(s) + Len(t)
        /\ \A i \in 1..(Len(s) + Len(t)) : u[i] = IF i <= Len(s) THEN s[i] ELSE t[i - Len(s)]
    BY ConcatProperties
  <1> HIDE DEF u
  <1>3. ASSUME NEW k \in 1..Len(s) PROVE u[k] = s[k]
    <2>1. k \in 1..(Len(s) + Len(t)) /\ k <= Len(s)
      BY <1>1
    <2>2. QED
      BY <1>2, <2>1
  <1>4. ASSUME NEW k \in 1..Len(t) PROVE u[Len(s) + k] = t[k]
    <2>1. PICK i : i = Len(s) + k
      OBVIOUS
    <2>2. i \in 1..(Len(s) + Len(t)) /\ ~(i <= Len(s)) /\ i - Len(s) = k
      BY <1>1, <2>1
    <2>3. QED
      BY <1>2, <2>1, <2>2
  <1>5. QED
    BY <1>2, <1>3, <1>4 DEF u

\* Behind a stream of whole messages another may begin.
LEMMA StreamAppend ==
  ASSUME NEW s, Stream(s), Ends(s), NEW t, Stream(t), Begins(t)
  PROVE  Stream(s \o t) /\ (Ends(t) => Ends(s \o t)) /\ (Begins(s) => Begins(s \o t))
  <1> DEFINE u == s \o t
             L == Len(s)
             M == Len(t)
  <1>1. s \in Seq(Unit) /\ t \in Seq(Unit) /\ L \in Nat /\ M \in Nat
    BY DEF Stream
  <1>2. /\ u \in Seq(Unit) /\ Len(u) = L + M
        /\ \A k \in 1..L : u[k] = s[k]
        /\ \A k \in 1..M : u[L + k] = t[k]
    BY <1>1, CatFacts
  <1> HIDE DEF u
  <1>3. ASSUME NEW k \in 1..(L + M) PROVE u[k].i <= u[k].len
    <2>1. CASE k <= L
      <3>1. k \in 1..L
        BY <1>1, <2>1
      <3>2. QED
        BY <1>2, <3>1 DEF Stream
    <2>2. CASE k > L
      <3>1. PICK m \in 1..M : k = L + m
        <4>1. k - L \in 1..M /\ k = L + (k - L)
          BY <1>1, <2>2
        <4>2. QED
          BY <4>1
      <3>2. QED
        BY <1>2, <3>1 DEF Stream
    <2>3. QED
      BY <1>1, <2>1, <2>2
  <1>4. ASSUME NEW k \in 1..(L + M), k + 1 <= L + M PROVE Follows(u[k], u[k + 1])
    <2>1. CASE k < L
      <3>1. k \in 1..L /\ k + 1 \in 1..L /\ k + 1 <= L
        BY <1>1, <2>1
      <3>2. u[k] = s[k] /\ u[k + 1] = s[k + 1]
        BY <1>2, <3>1
      <3>3. Follows(s[k], s[k + 1])
        BY <3>1 DEF Stream
      <3>4. QED
        BY <3>2, <3>3
    <2>2. CASE k = L
      <3>1. k \in 1..L /\ L \in 1..L /\ 1 \in 1..M /\ k + 1 = L + 1 /\ L > 0 /\ M > 0
        BY <1>1, <1>4, <2>2
      <3>2. u[k] = s[L]
        BY <1>2, <2>2, <3>1
      <3>3. u[k + 1] = t[1]
        BY <1>2, <3>1
      <3>4. s[L].i = s[L].len /\ t[1].i = 1
        BY <3>1 DEF Ends, Begins
      <3>5. s[L].i \in 1..5
        BY <3>1, UnitAt
      <3>6. QED
        BY <3>2, <3>3, <3>4, <3>5 DEF Follows
    <2>3. CASE k > L
      <3>1. PICK m \in 1..M : k = L + m
        <4>1. k - L \in 1..M /\ k = L + (k - L)
          BY <1>1, <2>3
        <4>2. QED
          BY <4>1
      <3>2. m + 1 \in 1..M /\ m + 1 <= M /\ k + 1 = L + (m + 1)
        BY <1>1, <1>4, <3>1
      <3>3. u[k] = t[m] /\ u[k + 1] = t[m + 1]
        BY <1>2, <3>1, <3>2
      <3>4. Follows(t[m], t[m + 1])
        BY <3>2 DEF Stream
      <3>5. QED
        BY <3>3, <3>4
    <2>4. QED
      BY <1>1, <2>1, <2>2, <2>3
  <1>5. Stream(u)
    BY <1>2, <1>3, <1>4 DEF Stream
  <1>6. Ends(t) => Ends(u)
    <2>1. CASE M = 0
      <3>1. Len(u) = L
        BY <1>1, <1>2, <2>1
      <3>2. L > 0 => L \in 1..L
        BY <1>1
      <3>3. QED
        BY <1>2, <3>1, <3>2 DEF Ends
    <2>2. CASE M > 0
      <3>1. M \in 1..M
        BY <1>1, <2>2
      <3>2. u[Len(u)] = t[M]
        BY <1>2, <3>1
      <3>3. QED
        BY <2>2, <3>2 DEF Ends
    <2>3. QED
      BY <1>1, <2>1, <2>2
  <1>7. Begins(s) => Begins(u)
    <2>1. CASE L = 0
      <3>1. M > 0 => 1 \in 1..M /\ L + 1 = 1
        BY <1>1, <2>1
      <3>2. Len(u) > 0 => M > 0
        BY <1>1, <1>2, <2>1
      <3>3. M > 0 => u[1] = t[1]
        <4>1. SUFFICES ASSUME M > 0 PROVE u[1] = t[1]
          OBVIOUS
        <4>2. u[L + 1] = t[1]
          BY <1>2, <3>1, <4>1
        <4>3. QED
          BY <3>1, <4>1, <4>2
      <3>4. QED
        BY <3>2, <3>3 DEF Begins
    <2>2. CASE L > 0
      <3>1. 1 \in 1..L
        BY <1>1, <2>2
      <3>2. u[1] = s[1]
        BY <1>2, <3>1
      <3>3. QED
        BY <2>2, <3>2 DEF Begins
    <2>3. QED
      BY <1>1, <2>1, <2>2
  <1>8. QED
    BY <1>5, <1>6, <1>7 DEF u

\* Numbers go on where those of the units before stopped.
LEMMA NumberedAppend ==
  ASSUME NEW s \in Seq(Unit), NEW t \in Seq(Unit), NEW b, Numbered(s, b), NEW c, Numbered(t, c),
         c[0] = b[Len(s)]
  PROVE  \E e : Numbered(s \o t, e) /\ e[0] = b[0] /\ e[Len(s \o t)] = c[Len(t)]
  <1> DEFINE u == s \o t
             L == Len(s)
             M == Len(t)
             e == [k \in 0..(L + M) |-> IF k <= L THEN b[k] ELSE c[k - L]]
  <1>1. L \in Nat /\ M \in Nat
    OBVIOUS
  <1>2. /\ u \in Seq(Unit) /\ Len(u) = L + M
        /\ \A k \in 1..L : u[k] = s[k]
        /\ \A k \in 1..M : u[L + k] = t[k]
    BY CatFacts
  <1> HIDE DEF u
  <1>3. \A k \in 0..L : e[k] = b[k]
    BY <1>1
  <1>4. ASSUME NEW k \in 0..M PROVE e[L + k] = c[k]
    <2>1. CASE k = 0
      <3>1. e[L] = b[L]
        BY <1>1
      <3>2. QED
        BY <1>1, <2>1, <3>1
    <2>2. CASE k > 0
      <3>1. PICK i : i = L + k
        OBVIOUS
      <3>2. i \in 0..(L + M) /\ ~(i <= L) /\ i - L = k
        BY <1>1, <2>2, <3>1
      <3>3. e[i] = c[k]
        BY <3>2
      <3>4. QED
        BY <3>1, <3>3
    <2>3. QED
      BY <2>1, <2>2
  <1>5. e \in [0..(L + M) -> Nat]
    <2>1. ASSUME NEW k \in 0..(L + M) PROVE (IF k <= L THEN b[k] ELSE c[k - L]) \in Nat
      <3>1. CASE k <= L
        <4>1. k \in 0..L
          BY <1>1, <3>1
        <4>2. b[k] \in Nat
          BY <4>1 DEF Numbered
        <4>3. QED
          BY <3>1, <4>2
      <3>2. CASE ~(k <= L)
        <4>1. k - L \in 0..M
          BY <1>1, <3>2
        <4>2. QED
          BY <3>2, <4>1 DEF Numbered
      <3>3. QED
        BY <3>1, <3>2
    <2>2. QED
      BY <2>1
  <1> HIDE DEF e
  <1>6. ASSUME NEW k \in 1..(L + M) PROVE Numbers(u[k], e[k - 1], e[k])
    <2>1. CASE k <= L
      <3>1. k \in 1..L /\ k \in 0..L /\ k - 1 \in 0..L
        BY <1>1, <2>1
      <3>2. u[k] = s[k] /\ e[k] = b[k] /\ e[k - 1] = b[k - 1]
        BY <1>2, <1>3, <3>1
      <3>3. Numbers(s[k], b[k - 1], b[k])
        BY <3>1 DEF Numbered
      <3>4. QED
        BY <3>2, <3>3
    <2>2. CASE k > L
      <3>1. PICK m \in 1..M : k = L + m
        <4>1. k - L \in 1..M /\ k = L + (k - L)
          BY <1>1, <2>2
        <4>2. QED
          BY <4>1
      <3>2. m \in 0..M /\ m - 1 \in 0..M /\ k - 1 = L + (m - 1)
        BY <1>1, <3>1
      <3>3. u[k] = t[m] /\ e[k] = c[m]
        BY <1>2, <1>4, <3>1, <3>2
      <3>4. e[k - 1] = c[m - 1]
        BY <1>4, <3>2
      <3>5. Numbers(t[m], c[m - 1], c[m])
        BY DEF Numbered
      <3>6. QED
        BY <3>3, <3>4, <3>5
    <2>3. QED
      BY <1>1, <2>1, <2>2
  <1>7. Numbered(u, e)
    BY <1>2, <1>5, <1>6 DEF Numbered
  <1>8. e[0] = b[0] /\ e[Len(u)] = c[M]
    <2>1. 0 \in 0..L /\ M \in 0..M
      BY <1>1
    <2>2. QED
      BY <1>2, <1>3, <1>4, <2>1
  <1>9. QED
    BY <1>7, <1>8 DEF u

\* A message of frame n, of none if n is zero.
IsMessage(t, n) == /\ t \in Seq(Unit) /\ Len(t) \in 1..5
                   /\ \A j \in 1..Len(t) : t[j].n = n /\ t[j].i = j /\ t[j].len = Len(t)

\* One message is a stream.
LEMMA MessageIsStream ==
  ASSUME NEW n \in Nat, NEW t, IsMessage(t, n)
  PROVE  Stream(t) /\ Begins(t) /\ Ends(t)
  <1>1. Len(t) \in 1..5 /\ t \in Seq(Unit)
    BY DEF IsMessage
  <1>2. ASSUME NEW j \in 1..Len(t) PROVE t[j].i <= t[j].len
    BY <1>1 DEF IsMessage
  <1>3. ASSUME NEW j \in 1..Len(t), j + 1 <= Len(t) PROVE Follows(t[j], t[j + 1])
    <2>1. j + 1 \in 1..Len(t) /\ j < Len(t)
      BY <1>1, <1>3
    <2>2. /\ t[j].n = n /\ t[j].i = j /\ t[j].len = Len(t)
          /\ t[j + 1].n = n /\ t[j + 1].i = j + 1 /\ t[j + 1].len = Len(t)
      BY <2>1 DEF IsMessage
    <2>3. QED
      BY <2>1, <2>2 DEF Follows
  <1>4. Stream(t)
    BY <1>1, <1>2, <1>3 DEF Stream
  <1>5. 1 \in 1..Len(t) /\ Len(t) \in 1..Len(t)
    BY <1>1
  <1>6. QED
    BY <1>4, <1>5 DEF Begins, Ends, IsMessage

\* One message takes one number if it is a frame's, none otherwise.
LEMMA MessageNumbered ==
  ASSUME NEW n \in Nat, NEW t, IsMessage(t, n), NEW x \in Nat, n > 0 => n = x + 1
  PROVE  \E c : Numbered(t, c) /\ c[0] = x /\ c[Len(t)] = (IF n > 0 THEN n ELSE x)
  <1> DEFINE M == Len(t)
             y == IF n > 0 THEN n ELSE x
             c == [k \in 0..M |-> IF k = 0 THEN x ELSE y]
  <1>1. M \in 1..5 /\ y \in Nat
    BY DEF IsMessage
  <1>2. c \in [0..M -> Nat] /\ c[0] = x /\ \A k \in 1..M : c[k] = y
    BY <1>1
  <1> HIDE DEF c, M
  <1>3. ASSUME NEW k \in 1..M PROVE Numbers(t[k], c[k - 1], c[k])
    <2>1. t[k].n = n /\ t[k].i = k /\ c[k] = y
      BY <1>2 DEF IsMessage, M
    <2>2. CASE k = 1
      <3>1. c[k - 1] = x
        BY <1>2, <2>2
      <3>2. QED
        BY <2>1, <2>2, <3>1 DEF Numbers
    <2>3. CASE k # 1
      <3>1. k - 1 \in 1..M
        BY <1>1, <2>3
      <3>2. c[k - 1] = y
        BY <1>2, <3>1
      <3>3. QED
        BY <2>1, <2>3, <3>2 DEF Numbers
    <2>4. QED
      BY <2>2, <2>3
  <1>4. Numbered(t, c) /\ c[0] = x /\ c[M] = y
    <2>1. M \in 1..M
      BY <1>1
    <2>2. QED
      BY <1>2, <1>3, <2>1 DEF Numbered, M
  <1>5. QED
    BY <1>4 DEF M

-----------------------------------------------------------------------------
(* What a Vector device sends.                                              *)

\* What a Vector device puts on the line.
VectorUnit(u) == u.len = IF u.n > 0 THEN 3 ELSE 2

\* A stream from a Vector device.
VectorStream(s) == Stream(s) /\ \A j \in 1..Len(s) : VectorUnit(s[j])

\* Where the last whole message ends.
EndOf(s) == IF Len(s) = 0 \/ s[Len(s)].i = s[Len(s)].len THEN Len(s) ELSE Len(s) - s[Len(s)].i

\* What is behind the last whole message is the beginning of one.
LEMMA EndOfFacts ==
  ASSUME NEW s, Stream(s), Begins(s)
  PROVE  /\ EndOf(s) \in 0..Len(s)
         /\ EndOf(s) > 0 => s[EndOf(s)].i = s[EndOf(s)].len
         /\ \A k \in 1..Len(s) : k > EndOf(s) => s[k].i = k - EndOf(s)
  <1> DEFINE L == Len(s)
  <1>1. s \in Seq(Unit) /\ L \in Nat
    BY DEF Stream
  <1>2. CASE L = 0
    BY <1>1, <1>2 DEF EndOf
  <1>3. CASE L > 0 /\ s[L].i = s[L].len
    BY <1>1, <1>3 DEF EndOf
  <1>4. CASE L > 0 /\ s[L].i # s[L].len
    <2>1. L \in 1..L
      BY <1>1, <1>4
    <2>2. PICK x \in 1..5 : x = s[L].i
      BY <2>1, UnitAt
    <2>3. EndOf(s) = L - x
      BY <1>1, <1>4, <2>2 DEF EndOf
    <2>4. x <= L
      <3>1. SUFFICES ASSUME x > L PROVE FALSE
        BY <1>1, <2>2
      <3>2. L - 1 \in Nat /\ L - 1 < L /\ L - 1 < x /\ L - (L - 1) = 1
        BY <1>1, <1>4, <2>2, <3>1
      <3>3. s[L - (L - 1)].i = s[L].i - (L - 1)
        BY <2>1, <2>2, <3>2, MessageBack
      <3>4. s[1].i = x - (L - 1)
        BY <2>2, <3>2, <3>3
      <3>5. s[1].i = 1
        BY <1>4 DEF Begins
      <3>6. QED
        BY <1>1, <2>2, <3>1, <3>4, <3>5
    <2>5. ASSUME NEW k \in 1..L, k > L - x PROVE s[k].i = k - (L - x)
      <3>1. PICK d : d = L - k
        OBVIOUS
      <3>2. d \in Nat /\ d < L /\ d < x /\ L - d = k
        BY <1>1, <2>2, <2>5, <3>1
      <3>3. s[L - d].i = s[L].i - d
        BY <2>1, <2>2, <3>2, MessageBack
      <3>4. s[k].i = x - d
        BY <2>2, <3>2, <3>3
      <3>5. x - d = k - (L - x)
        BY <1>1, <2>2, <3>1
      <3>6. QED
        BY <3>4, <3>5
    <2>6. ASSUME L - x > 0 PROVE s[L - x].i = s[L - x].len
      <3>1. PICK m : m = L - x
        OBVIOUS
      <3>2. m \in 1..L /\ m + 1 \in 1..L /\ m + 1 <= L /\ m + 1 > L - x
        BY <1>1, <2>2, <2>4, <2>6, <3>1
      <3>3. s[m + 1].i = (m + 1) - (L - x)
        BY <2>5, <3>2
      <3>4. s[m + 1].i = 1
        BY <1>1, <2>2, <3>1, <3>3
      <3>5. Follows(s[m], s[m + 1])
        BY <3>2 DEF Stream
      <3>6. s[m].i \in 1..5 /\ s[m].len \in 1..5 /\ s[m].i <= s[m].len
        BY <3>2, UnitAt
      <3>7. ~(s[m].i < s[m].len)
        BY <3>4, <3>5, <3>6 DEF Follows
      <3>8. s[m].i = s[m].len
        BY <3>6, <3>7
      <3>9. QED
        BY <3>1, <3>8
    <2>7. QED
      BY <1>1, <2>2, <2>3, <2>4, <2>5, <2>6
  <1>5. QED
    BY <1>1, <1>2, <1>3, <1>4

\* An event that is whole.
LEMMA FrameOfMessage ==
  ASSUME NEW s, VectorStream(s), NEW p \in 1..Len(s), s[p].i = 1, p + s[p].len - 1 <= Len(s)
  PROVE  Vector!FrameOf(SubSeq(s, p, p + s[p].len - 1)) = IF s[p].n > 0 THEN <<s[p].n>> ELSE << >>
  <1>1. s \in Seq(Unit) /\ Len(s) \in Nat /\ Stream(s)
    BY DEF VectorStream, Stream
  <1>2. PICK x \in 1..5, n \in Nat : x = s[p].len /\ n = s[p].n
    BY <1>1, UnitAt
  <1>3. PICK q : q = p + x - 1
    OBVIOUS
  <1>4. q \in p..Len(s) /\ p \in 1..(Len(s) + 1) /\ q \in (p - 1)..Len(s) /\ q - p + 1 = x
    <2>1. PICK l \in Nat : l = Len(s) /\ p \in 1..l /\ p + x - 1 <= l
      BY <1>1, <1>2
    <2>2. q \in p..l /\ p \in 1..(l + 1) /\ q \in (p - 1)..l /\ q - p + 1 = x
      BY <1>3, <2>1
    <2>3. QED
      BY <2>1, <2>2
  <1> DEFINE t == SubSeq(s, p, q)
  <1>5. /\ t \in Seq(Unit) /\ Len(t) = x
        /\ \A k \in 1..x : t[k] = s[p + k - 1]
    BY <1>1, <1>4, PartFacts
  <1> HIDE DEF t
  <1>6. ASSUME NEW k \in 1..x PROVE t[k].n = n /\ t[k].i = k
    <2>1. PICK d : d = k - 1
      OBVIOUS
    <2>2. d \in Nat /\ p + k - 1 = p + d /\ p + d <= Len(s) /\ 1 + d <= x /\ 1 + d = k
      BY <1>1, <1>2, <1>3, <1>4, <2>1
    <2>3. s[p].i + d <= s[p].len
      BY <1>2, <2>2
    <2>4. s[p + d].i = s[p].i + d /\ s[p + d].n = s[p].n
      BY <1>1, <2>2, <2>3, MessageGoesOn
    <2>5. t[k] = s[p + d]
      BY <1>5, <2>2
    <2>6. QED
      BY <1>2, <2>2, <2>4, <2>5
  <1>7. DOMAIN t = 1..x /\ 1 \in 1..x
    BY <1>2, <1>5
  <1>8. ~ \E j \in DOMAIN t : t[j].n # t[1].n \/ t[j].i # j
    BY <1>6, <1>7
  <1>9. t[1].n = n
    BY <1>6, <1>7
  <1>10. Vector!FrameOf(t) = IF n > 0 THEN <<n>> ELSE << >>
    BY <1>8, <1>9 DEF Vector!FrameOf
  <1>11. QED
    BY <1>2, <1>3, <1>10 DEF t

\* No message ends behind the last whole one.
LEMMA EndIsLast ==
  ASSUME NEW s, Stream(s), Begins(s), NEW m \in 1..Len(s), s[m].i = s[m].len
  PROVE  m <= EndOf(s)
  <1>1. SUFFICES ASSUME m > EndOf(s) PROVE FALSE
    <2>1. EndOf(s) \in 0..Len(s) /\ Len(s) \in Nat
      BY EndOfFacts DEF Stream
    <2>2. QED
      BY <2>1
  <1>2. Len(s) \in Nat /\ EndOf(s) \in 0..Len(s) /\ \A k \in 1..Len(s) : k > EndOf(s) => s[k].i = k - EndOf(s)
    BY EndOfFacts DEF Stream
  <1>3. CASE m = Len(s)
    BY <1>1, <1>2, <1>3 DEF EndOf
  <1>4. CASE m # Len(s)
    <2>1. m + 1 \in 1..Len(s) /\ m + 1 <= Len(s) /\ m + 1 > EndOf(s)
      BY <1>1, <1>2, <1>4
    <2>2. Follows(s[m], s[m + 1])
      BY <2>1 DEF Stream
    <2>3. s[m].i \in 1..5
      BY UnitAt
    <2>4. s[m + 1].i = 1
      BY <2>2, <2>3 DEF Follows
    <2>5. s[m + 1].i = (m + 1) - EndOf(s)
      BY <1>2, <2>1
    <2>6. QED
      BY <1>1, <1>2, <2>4, <2>5
  <1>5. QED
    BY <1>3, <1>4

\* A message that is whole ends before, or where, the last one does.
LEMMA WholeMessage ==
  ASSUME NEW s, Stream(s), Begins(s), NEW p \in 1..Len(s), s[p].i = 1, p + s[p].len - 1 <= Len(s)
  PROVE  /\ p + s[p].len - 1 \in p..EndOf(s)
         /\ s[p + s[p].len - 1].i = s[p + s[p].len - 1].len
  <1>1. PICK x \in 1..5 : x = s[p].len
    BY UnitAt
  <1>2. PICK d, m : d = x - 1 /\ m = p + x - 1
    OBVIOUS
  <1>3. d \in Nat /\ m = p + d /\ m \in 1..Len(s) /\ 1 + d = x
    BY <1>1, <1>2
  <1>4. s[p + d].i = s[p].i + d /\ s[p + d].len = s[p].len
    <2>1. s[p].i + d <= s[p].len /\ p + d <= Len(s)
      BY <1>1, <1>3
    <2>2. QED
      BY <1>3, <2>1, MessageGoesOn
  <1>5. s[m].i = s[m].len
    BY <1>1, <1>3, <1>4
  <1>6. m <= EndOf(s)
    BY <1>3, <1>5, EndIsLast
  <1>7. EndOf(s) \in 0..Len(s)
    BY EndOfFacts
  <1>8. QED
    BY <1>1, <1>2, <1>3, <1>5, <1>6, <1>7

\* One that is not is the last.
LEMMA CutMessage ==
  ASSUME NEW s, Stream(s), Begins(s), NEW p \in 1..Len(s), s[p].i = 1, ~(p + s[p].len - 1 <= Len(s))
  PROVE  EndOf(s) = p - 1
  <1>1. PICK x \in 1..5 : x = s[p].len
    BY UnitAt
  <1>2. /\ Len(s) \in Nat /\ EndOf(s) \in 0..Len(s)
        /\ EndOf(s) > 0 => s[EndOf(s)].i = s[EndOf(s)].len
        /\ \A k \in 1..Len(s) : k > EndOf(s) => s[k].i = k - EndOf(s)
    BY EndOfFacts DEF Stream
  <1>3. PICK e \in 0..Len(s) : e = EndOf(s)
    BY <1>2
  <1>4. CASE e < p
    <2>1. s[p].i = p - e
      BY <1>2, <1>3, <1>4
    <2>2. QED
      BY <1>2, <1>3, <1>4, <2>1
  <1>5. CASE e >= p
    <2>1. PICK d : d = e - p
      OBVIOUS
    <2>2. d \in Nat /\ p + d = e /\ p + d <= Len(s) /\ 1 + d < x
      BY <1>1, <1>2, <1>5, <2>1
    <2>3. s[p].i + d <= s[p].len
      BY <1>1, <2>2
    <2>4. s[p + d].i = s[p].i + d /\ s[p + d].len = s[p].len
      BY <2>2, <2>3, MessageGoesOn
    <2>5. s[e].i = 1 + d /\ s[e].len = x
      BY <1>1, <2>2, <2>4
    <2>6. s[e].i = s[e].len
      BY <1>2, <1>3, <1>5
    <2>7. QED
      BY <2>2, <2>5, <2>6
  <1>6. QED
    BY <1>2, <1>3, <1>4, <1>5

\* One message more is one frame more, or none.
LEMMA EventsStep ==
  ASSUME NEW s, VectorStream(s), Begins(s), NEW b, Numbered(s, b),
         NEW p \in 1..Len(s), s[p].i = 1, p + s[p].len - 1 <= Len(s)
  PROVE  Run(b[p - 1] + 1, b[EndOf(s)])
           = Vector!FrameOf(SubSeq(s, p, p + s[p].len - 1))
               \o Run(b[p + s[p].len - 1] + 1, b[EndOf(s)])
  <1>1. Stream(s) /\ s \in Seq(Unit) /\ Len(s) \in Nat
    BY DEF VectorStream, Stream
  <1>2. PICK m : m = p + s[p].len - 1
    OBVIOUS
  <1>3. m \in p..EndOf(s) /\ EndOf(s) \in 0..Len(s)
    BY <1>1, <1>2, WholeMessage, EndOfFacts
  <1>4. PICK last : last = b[EndOf(s)]
    OBVIOUS
  <1>5. p - 1 \in 0..Len(s) /\ p \in 0..Len(s) /\ m \in 0..Len(s) /\ m \in p..Len(s) /\ EndOf(s) \in m..Len(s)
    BY <1>1, <1>3
  <1>6. b[m] \in Nat /\ last \in Nat /\ b[m] <= last
    BY <1>1, <1>4, <1>5, NumbersGrow
  <1>7. b[m] = b[p]
    <2>1. ASSUME NEW k \in 1..Len(s), p < k, k <= m PROVE s[k].i # 1
      <3>1. PICK d : d = k - p
        OBVIOUS
      <3>2. PICK x \in 1..5 : x = s[p].len
        BY <1>1, UnitAt
      <3>3. d \in Nat /\ p + d = k /\ p + d <= Len(s) /\ 1 + d <= x /\ d > 0
        BY <1>1, <1>2, <1>3, <2>1, <3>1, <3>2
      <3>4. s[p].i + d <= s[p].len
        BY <3>2, <3>3
      <3>5. s[p + d].i = s[p].i + d
        BY <1>1, <3>3, <3>4, MessageGoesOn
      <3>6. s[k].i = 1 + d
        BY <3>3, <3>5
      <3>7. QED
        BY <3>3, <3>6
    <2>2. QED
      BY <1>1, <1>5, <2>1, NumbersStay
  <1>8. PICK x \in Nat, y \in Nat : x = b[p - 1] /\ y = b[p]
    BY <1>5 DEF Numbered
  <1>9. Numbers(s[p], x, y)
    BY <1>8 DEF Numbered
  <1>10. Vector!FrameOf(SubSeq(s, p, m)) = IF s[p].n > 0 THEN <<s[p].n>> ELSE << >>
    BY <1>2, FrameOfMessage
  <1>11. s[p].n \in Nat
    BY <1>1, UnitAt
  <1>12. Run(x + 1, last) = (IF s[p].n > 0 THEN <<s[p].n>> ELSE << >>) \o Run(y + 1, last)
    <2>1. CASE s[p].n > 0
      <3>1. y = x + 1 /\ s[p].n = x + 1
        BY <1>9, <2>1 DEF Numbers
      <3>2. x + 1 \in Nat /\ x + 1 <= last
        BY <1>6, <1>7, <1>8, <3>1
      <3>3. Run(x + 1, last) = <<x + 1>> \o Run((x + 1) + 1, last)
        BY <1>6, <3>2, RunHead
      <3>4. QED
        BY <2>1, <3>1, <3>3
    <2>2. CASE ~(s[p].n > 0)
      <3>1. y = x
        BY <1>9, <2>2 DEF Numbers
      <3>2. x + 1 \in Nat
        OBVIOUS
      <3>3. Run(x + 1, last) \in Seq(Nat)
        BY <1>6, <3>2, RunFacts
      <3>4. << >> \o Run(x + 1, last) = Run(x + 1, last)
        BY <3>3, ConcatEmptySeq
      <3>5. QED
        BY <2>2, <3>1, <3>4
    <2>3. QED
      BY <2>1, <2>2
  <1>13. QED
    BY <1>2, <1>4, <1>7, <1>8, <1>10, <1>12

\* What the loop over the events of a transfer makes of it.
LEMMA EventsAre ==
  ASSUME NEW s, VectorStream(s), Begins(s), NEW b, Numbered(s, b)
  PROVE  Vector!Events(s) = [frames |-> Run(b[0] + 1, b[EndOf(s)]),
                             part |-> SubSeq(s, EndOf(s) + 1, Len(s))]
  <1> DEFINE L == Len(s)
             E == EndOf(s)
             whole(p) == p + s[p].len - 1 <= L
             nothing == [frames |-> << >>, part |-> << >>]
             Eq(f) == f = [p \in 1..(L + 1) |->
                             IF p > L \/ s[p].i # 1 THEN nothing
                             ELSE IF ~whole(p) THEN [frames |-> << >>, part |-> SubSeq(s, p, L)]
                             ELSE [frames |-> Vector!FrameOf(SubSeq(s, p, p + s[p].len - 1))
                                                \o f[p + s[p].len].frames,
                                   part |-> f[p + s[p].len].part]]
             g == [p \in 1..(L + 1) |->
                     IF p > L \/ s[p].i # 1 THEN nothing
                     ELSE [frames |-> Run(b[p - 1] + 1, b[E]), part |-> SubSeq(s, E + 1, L)]]
             Is(f, p) == f[p] = IF p > L \/ s[p].i # 1 THEN nothing
                                ELSE IF ~whole(p) THEN [frames |-> << >>, part |-> SubSeq(s, p, L)]
                                ELSE [frames |-> Vector!FrameOf(SubSeq(s, p, p + s[p].len - 1))
                                                   \o f[p + s[p].len].frames,
                                      part |-> f[p + s[p].len].part]
  <1>1. Stream(s) /\ s \in Seq(Unit) /\ L \in Nat /\ E \in 0..L
    BY EndOfFacts DEF VectorStream, Stream
  <1>2. /\ g = [p \in 1..(L + 1) |-> g[p]]
        /\ \A p \in 1..(L + 1) :
             g[p] = IF p > L \/ s[p].i # 1 THEN nothing
                    ELSE [frames |-> Run(b[p - 1] + 1, b[E]), part |-> SubSeq(s, E + 1, L)]
    OBVIOUS
  <1>3. ASSUME NEW p \in 1..L, s[p].i = 1, whole(p)
        PROVE  /\ p + s[p].len \in (p + 1)..(L + 1)
               /\ g[p + s[p].len].frames = Run(b[p + s[p].len - 1] + 1, b[E])
               /\ g[p + s[p].len].part = SubSeq(s, E + 1, L)
    <2>1. PICK x \in 1..5 : x = s[p].len
      BY <1>1, UnitAt
    <2>2. PICK q, m : q = p + x /\ m = p + x - 1
      OBVIOUS
    <2>3. m \in p..E /\ s[m].i = s[m].len
      BY <1>1, <1>3, <2>1, <2>2, WholeMessage
    <2>4. q = m + 1 /\ q - 1 = m /\ q \in (p + 1)..(L + 1) /\ q \in 1..(L + 1) /\ m \in 1..L
      <3>1. PICK e, l : e = E /\ l = L /\ l \in Nat /\ e \in 0..l /\ m \in p..e
        BY <1>1, <2>3
      <3>2. q = m + 1 /\ q - 1 = m /\ m \in Nat
        BY <2>1, <2>2, <2>3
      <3>3. p \in Nat /\ p > 0 /\ p <= m /\ m <= e /\ e <= l
        BY <3>1
      <3>4. q \in (p + 1)..(l + 1) /\ q \in 1..(l + 1) /\ m \in 1..l
        BY <3>1, <3>2, <3>3
      <3>5. QED
        BY <3>1, <3>2, <3>4
    <2>5. CASE q > L
      <3>1. m = L /\ E = L /\ E + 1 > L
        BY <1>1, <2>3, <2>4, <2>5
      <3>2. g[q] = nothing
        BY <1>2, <2>4, <2>5
      <3>3. SubSeq(s, E + 1, L) = << >>
        BY <1>1, <3>1, SubSeqEmpty
      <3>4. Run(b[m] + 1, b[E]) = << >>
        <4>1. b[m] \in Nat
          <5>1. m \in 0..L
            BY <1>1, <2>4
          <5>2. QED
            BY <5>1 DEF Numbered
        <4>2. b[m] + 1 \in Nat /\ b[m] < b[m] + 1
          BY <4>1
        <4>3. Run(b[m] + 1, b[m]) = << >>
          BY <4>1, <4>2, RunFacts
        <4>4. QED
          BY <3>1, <4>3
      <3>5. QED
        BY <2>1, <2>2, <2>4, <3>2, <3>3, <3>4
    <2>6. CASE q <= L
      <3>1. Follows(s[m], s[m + 1])
        BY <1>1, <2>4, <2>6 DEF Stream
      <3>2. s[m].i \in 1..5
        BY <1>1, <2>4, UnitAt
      <3>3. s[q].i = 1 /\ ~(q > L)
        BY <1>1, <2>3, <2>4, <2>6, <3>1, <3>2 DEF Follows
      <3>4. g[q] = [frames |-> Run(b[q - 1] + 1, b[E]), part |-> SubSeq(s, E + 1, L)]
        BY <1>2, <2>4, <3>3
      <3>5. QED
        BY <2>1, <2>2, <2>4, <3>4
    <2>7. q > L \/ q <= L
      BY <1>1, <2>4
    <2> HIDE DEF g
    <2>8. QED
      BY <2>5, <2>6, <2>7
  <1> HIDE DEF g
  <1>4. ASSUME NEW p \in 1..(L + 1)
        PROVE  Is(g, p)
    <2>1. CASE p > L \/ s[p].i # 1
      BY <1>2, <2>1
    <2>2. CASE ~(p > L \/ s[p].i # 1) /\ ~whole(p)
      <3>1. p \in 1..L /\ s[p].i = 1
        BY <1>1, <2>2
      <3>2. E = p - 1
        BY <1>1, <2>2, <3>1, CutMessage
      <3>3. Run(b[p - 1] + 1, b[E]) = << >>
        <4>1. b[E] \in Nat
          BY <1>1 DEF Numbered
        <4>2. b[E] + 1 \in Nat /\ b[E] < b[E] + 1
          BY <4>1
        <4>3. Run(b[E] + 1, b[E]) = << >>
          BY <4>1, <4>2, RunFacts
        <4>4. QED
          BY <3>2, <4>3
      <3>4. E + 1 = p
        BY <1>1, <3>2
      <3>5. g[p] = [frames |-> Run(b[p - 1] + 1, b[E]), part |-> SubSeq(s, E + 1, L)]
        BY <1>2, <2>2
      <3>6. QED
        BY <2>2, <3>3, <3>4, <3>5
    <2>3. CASE ~(p > L \/ s[p].i # 1) /\ whole(p)
      <3>1. p \in 1..L /\ s[p].i = 1
        BY <1>1, <2>3
      <3>2. g[p] = [frames |-> Run(b[p - 1] + 1, b[E]), part |-> SubSeq(s, E + 1, L)]
        BY <1>2, <2>3
      <3>3. /\ g[p + s[p].len].frames = Run(b[p + s[p].len - 1] + 1, b[E])
            /\ g[p + s[p].len].part = SubSeq(s, E + 1, L)
        BY <1>3, <2>3, <3>1
      <3>4. Run(b[p - 1] + 1, b[E]) = Vector!FrameOf(SubSeq(s, p, p + s[p].len - 1))
                                        \o Run(b[p + s[p].len - 1] + 1, b[E])
        BY <2>3, <3>1, EventsStep
      <3>5. QED
        BY <2>3, <3>2, <3>3, <3>4
    <2>4. QED
      BY <2>1, <2>2, <2>3
  <1>5. Eq(g)
    BY <1>2, <1>4
  <1>6. ASSUME NEW f, Eq(f)
        PROVE  f[1] = g[1]
    <2> DEFINE S == {m \in Nat : \A k \in 0..m : k <= L => f[(L + 1) - k] = g[(L + 1) - k]}
    <2>1. \A p \in 1..(L + 1) : Is(f, p)
      BY <1>6
    <2>2. ASSUME NEW p \in 1..(L + 1), \A q \in (p + 1)..(L + 1) : f[q] = g[q]
          PROVE  f[p] = g[p]
      <3>1. Is(f, p) /\ Is(g, p)
        BY <1>4, <2>1
      <3>2. CASE p > L \/ s[p].i # 1
        BY <3>1, <3>2
      <3>3. CASE ~(p > L \/ s[p].i # 1) /\ ~whole(p)
        BY <3>1, <3>3
      <3>4. CASE ~(p > L \/ s[p].i # 1) /\ whole(p)
        <4>1. p \in 1..L /\ s[p].i = 1
          BY <1>1, <3>4
        <4>2. p + s[p].len \in (p + 1)..(L + 1)
          BY <1>3, <3>4, <4>1
        <4>3. f[p + s[p].len] = g[p + s[p].len]
          BY <2>2, <4>2
        <4>4. QED
          BY <3>1, <3>4, <4>3
      <3>5. QED
        BY <3>2, <3>3, <3>4
    <2>3. 0 \in S
      <3>1. L + 1 \in 1..(L + 1) /\ \A q \in ((L + 1) + 1)..(L + 1) : FALSE
        BY <1>1
      <3>2. f[L + 1] = g[L + 1]
        BY <2>2, <3>1
      <3>3. (L + 1) - 0 = L + 1
        BY <1>1
      <3>4. QED
        BY <3>2, <3>3
    <2>4. ASSUME NEW m \in Nat, m \in S PROVE m + 1 \in S
      <3>1. SUFFICES ASSUME NEW k \in 0..(m + 1), k <= L PROVE f[(L + 1) - k] = g[(L + 1) - k]
        OBVIOUS
      <3>2. CASE k <= m
        <4>1. k \in 0..m
          BY <3>2
        <4>2. QED
          BY <2>4, <3>1, <4>1
      <3>3. CASE k = m + 1
        <4>1. PICK p : p = (L + 1) - k
          OBVIOUS
        <4>2. p \in 1..(L + 1)
          BY <1>1, <3>1, <4>1
        <4>3. ASSUME NEW q \in (p + 1)..(L + 1) PROVE f[q] = g[q]
          <5>1. PICK j : j = (L + 1) - q
            OBVIOUS
          <5>2. j \in 0..m /\ j <= L /\ (L + 1) - j = q
            BY <1>1, <3>1, <3>3, <4>1, <4>2, <5>1
          <5>3. f[(L + 1) - j] = g[(L + 1) - j]
            BY <2>4, <5>2
          <5>4. QED
            BY <5>2, <5>3
        <4>4. f[p] = g[p]
          BY <2>2, <4>2, <4>3
        <4>5. QED
          BY <4>1, <4>4
      <3>4. QED
        BY <3>2, <3>3
    <2>5. L \in S
      <3> HIDE DEF S
      <3>1. QED
        BY <1>1, <2>3, <2>4, Induction
    <2>6. L \in 0..L /\ (L + 1) - L = 1
      BY <1>1
    <2>7. f[(L + 1) - L] = g[(L + 1) - L]
      BY <2>5, <2>6
    <2>8. QED
      BY <2>6, <2>7
  <1>7. Vector!Events(s) = (CHOOSE f : Eq(f))[1]
    BY DEF Vector!Events
  <1> HIDE DEF Eq
  <1>8. Eq(CHOOSE f : Eq(f))
    BY <1>5
  <1>9. Vector!Events(s) = g[1]
    BY <1>6, <1>7, <1>8
  <1>10. g[1] = [frames |-> Run(b[0] + 1, b[E]), part |-> SubSeq(s, E + 1, L)]
    <2>1. 1 \in 1..(L + 1) /\ 1 - 1 = 0
      BY <1>1
    <2>2. CASE L = 0
      <3>1. E = 0 /\ 1 > L /\ L < E + 1
        BY <1>1, <2>2
      <3>2. SubSeq(s, E + 1, L) = << >>
        BY <1>1, <3>1, SubSeqEmpty
      <3>3. Run(b[0] + 1, b[0]) = << >>
        <4>1. b[0] \in Nat
          BY <1>1 DEF Numbered
        <4>2. b[0] + 1 \in Nat /\ b[0] < b[0] + 1
          BY <4>1
        <4>3. QED
          BY <4>1, <4>2, RunFacts
      <3>4. g[1] = nothing
        BY <1>2, <2>1, <3>1
      <3>5. QED
        BY <3>1, <3>2, <3>3, <3>4
    <2>3. CASE L > 0
      <3>1. s[1].i = 1 /\ ~(1 > L)
        BY <1>1, <2>3 DEF Begins
      <3>2. QED
        BY <1>2, <2>1, <3>1
    <2>4. QED
      BY <1>1, <2>2, <2>3
  <1>11. QED
    BY <1>9, <1>10

-----------------------------------------------------------------------------
(* Receiving from a Vector device.                                          *)

\* A part of a part is a part.
LEMMA SubSub ==
  ASSUME NEW s \in Seq(Unit), NEW i \in 1..(Len(s) + 1), NEW j \in (i - 1)..Len(s),
         NEW m \in 1..(j - i + 2), NEW n \in (m - 1)..(j - i + 1)
  PROVE  SubSeq(SubSeq(s, i, j), m, n) = SubSeq(s, i + m - 1, i + n - 1)
  <1> DEFINE t == SubSeq(s, i, j)
             u == SubSeq(t, m, n)
             v == SubSeq(s, i + m - 1, i + n - 1)
  <1>1. Len(s) \in Nat
    OBVIOUS
  <1>2. /\ t \in Seq(Unit) /\ Len(t) = j - i + 1
        /\ \A k \in 1..(j - i + 1) : t[k] = s[i + k - 1]
    BY PartFacts
  <1> HIDE DEF t
  <1>3. m \in 1..(Len(t) + 1) /\ n \in (m - 1)..Len(t)
    BY <1>1, <1>2
  <1>4. /\ u \in Seq(Unit) /\ Len(u) = n - m + 1
        /\ \A k \in 1..(n - m + 1) : u[k] = t[m + k - 1]
    BY <1>2, <1>3, PartFacts
  <1>5. PICK p, q : p = i + m - 1 /\ q = i + n - 1
    OBVIOUS
  <1>6. p \in 1..(Len(s) + 1) /\ q \in (p - 1)..Len(s) /\ q - p + 1 = n - m + 1
    BY <1>1, <1>5
  <1>7. /\ v \in Seq(Unit) /\ Len(v) = n - m + 1
        /\ \A k \in 1..(n - m + 1) : v[k] = s[p + k - 1]
    <2>1. /\ SubSeq(s, p, q) \in Seq(Unit) /\ Len(SubSeq(s, p, q)) = q - p + 1
          /\ \A k \in 1..(q - p + 1) : SubSeq(s, p, q)[k] = s[p + k - 1]
      BY <1>6, PartFacts
    <2>2. QED
      BY <1>5, <1>6, <2>1
  <1> HIDE DEF u, v
  <1>8. ASSUME NEW k \in 1..Len(u) PROVE u[k] = v[k]
    <2>1. k \in 1..(n - m + 1)
      BY <1>4
    <2>2. m + k - 1 \in 1..(j - i + 1) /\ i + (m + k - 1) - 1 = p + k - 1
      BY <1>1, <1>5, <2>1
    <2>3. t[m + k - 1] = s[p + k - 1]
      BY <1>2, <2>2
    <2>4. QED
      BY <1>4, <1>7, <2>1, <2>3
  <1>9. u = v
    BY <1>4, <1>7, <1>8, SeqEqual
  <1>10. QED
    BY <1>9 DEF t, u, v

\* A sequence and what follows it are parts of the whole.
LEMMA CatParts ==
  ASSUME NEW s \in Seq(Unit), NEW t \in Seq(Unit)
  PROVE  /\ s = SubSeq(s \o t, 1, Len(s))
         /\ t = SubSeq(s \o t, Len(s) + 1, Len(s \o t))
  <1> DEFINE u == s \o t
             a == SubSeq(u, 1, Len(s))
             b == SubSeq(u, Len(s) + 1, Len(u))
  <1>1. Len(s) \in Nat /\ Len(t) \in Nat
    OBVIOUS
  <1>2. /\ u \in Seq(Unit) /\ Len(u) = Len(s) + Len(t)
        /\ \A k \in 1..Len(s) : u[k] = s[k]
        /\ \A k \in 1..Len(t) : u[Len(s) + k] = t[k]
    BY CatFacts
  <1> HIDE DEF u
  <1>3. /\ a \in Seq(Unit) /\ Len(a) = Len(s)
        /\ \A k \in 1..Len(s) : a[k] = u[k]
    <2>1. 1 \in 1..(Len(u) + 1) /\ Len(s) \in (1 - 1)..Len(u)
      BY <1>1, <1>2
    <2>2. /\ a \in Seq(Unit) /\ Len(a) = Len(s) - 1 + 1
          /\ \A k \in 1..(Len(s) - 1 + 1) : a[k] = u[1 + k - 1]
      BY <1>2, <2>1, PartFacts
    <2> HIDE DEF a
    <2>3. \A k \in 1..Len(s) : 1 + k - 1 = k
      BY <1>1
    <2>4. Len(s) - 1 + 1 = Len(s)
      BY <1>1
    <2>5. QED
      BY <2>2, <2>3, <2>4
  <1>4. /\ b \in Seq(Unit) /\ Len(b) = Len(t)
        /\ \A k \in 1..Len(t) : b[k] = u[Len(s) + k]
    <2>1. Len(s) + 1 \in 1..(Len(u) + 1) /\ Len(u) \in ((Len(s) + 1) - 1)..Len(u)
      BY <1>1, <1>2
    <2>2. /\ b \in Seq(Unit) /\ Len(b) = Len(u) - (Len(s) + 1) + 1
          /\ \A k \in 1..(Len(u) - (Len(s) + 1) + 1) : b[k] = u[(Len(s) + 1) + k - 1]
      BY <1>2, <2>1, PartFacts
    <2> HIDE DEF b
    <2>3. \A k \in 1..Len(t) : (Len(s) + 1) + k - 1 = Len(s) + k
      BY <1>1
    <2>4. Len(u) - (Len(s) + 1) + 1 = Len(t)
      BY <1>1, <1>2
    <2>5. QED
      BY <2>2, <2>3, <2>4
  <1> HIDE DEF a, b
  <1>5. s = a
    <2>1. \A k \in 1..Len(s) : s[k] = a[k]
      BY <1>2, <1>3
    <2>2. QED
      BY <1>3, <2>1, SeqEqual
  <1>6. t = b
    <2>1. \A k \in 1..Len(t) : t[k] = b[k]
      BY <1>2, <1>4
    <2>2. QED
      BY <1>4, <2>1, SeqEqual
  <1>7. QED
    BY <1>5, <1>6 DEF a, b, u

\* The first units behind a sequence, with it.
LEMMA CatPart ==
  ASSUME NEW s \in Seq(Unit), NEW t \in Seq(Unit), NEW k \in 0..Len(t)
  PROVE  s \o SubSeq(t, 1, k) = SubSeq(s \o t, 1, Len(s) + k)
  <1> DEFINE u == s \o t
             x == Len(s)
  <1>1. x \in Nat /\ Len(t) \in Nat
    OBVIOUS
  <1>2. u \in Seq(Unit) /\ Len(u) = x + Len(t)
    BY CatFacts
  <1>3. s = SubSeq(u, 1, x) /\ t = SubSeq(u, x + 1, Len(u))
    BY CatParts
  <1> HIDE DEF u, x
  <1>4. SubSeq(SubSeq(u, x + 1, Len(u)), 1, k) = SubSeq(u, (x + 1) + 1 - 1, (x + 1) + k - 1)
    <2>1. /\ x + 1 \in 1..(Len(u) + 1) /\ Len(u) \in ((x + 1) - 1)..Len(u)
          /\ 1 \in 1..(Len(u) - (x + 1) + 2) /\ k \in (1 - 1)..(Len(u) - (x + 1) + 1)
      BY <1>1, <1>2
    <2>2. QED
      BY <1>2, <2>1, SubSub
  <1>5. (x + 1) + 1 - 1 = x + 1 /\ (x + 1) + k - 1 = x + k
    BY <1>1
  <1>6. SubSeq(t, 1, k) = SubSeq(u, x + 1, x + k)
    BY <1>3, <1>4, <1>5
  <1>7. SubSeq(u, 1, x) \o SubSeq(u, x + 1, x + k) = SubSeq(u, 1, x + k)
    <2>1. 1 \in 1..(Len(u) + 1) /\ x \in (1 - 1)..Len(u) /\ x + k \in x..Len(u)
      BY <1>1, <1>2
    <2>2. QED
      BY <1>2, <2>1, ConcatAdjacentSubSeq
  <1>8. s \o SubSeq(t, 1, k) = SubSeq(u, 1, x + k)
    BY <1>3, <1>6, <1>7
  <1>9. QED
    BY <1>8 DEF u, x

\* And those behind that.
LEMMA CatRest ==
  ASSUME NEW s \in Seq(Unit), NEW t \in Seq(Unit), NEW k \in 0..Len(t)
  PROVE  SubSeq(t, k + 1, Len(t)) = SubSeq(s \o t, Len(s) + k + 1, Len(s \o t))
  <1> DEFINE u == s \o t
             x == Len(s)
  <1>1. x \in Nat /\ Len(t) \in Nat
    OBVIOUS
  <1>2. u \in Seq(Unit) /\ Len(u) = x + Len(t)
    BY CatFacts
  <1>3. t = SubSeq(u, x + 1, Len(u))
    BY CatParts
  <1> HIDE DEF u, x
  <1>4. SubSeq(SubSeq(u, x + 1, Len(u)), k + 1, Len(t))
          = SubSeq(u, (x + 1) + (k + 1) - 1, (x + 1) + Len(t) - 1)
    <2>1. /\ x + 1 \in 1..(Len(u) + 1) /\ Len(u) \in ((x + 1) - 1)..Len(u)
          /\ k + 1 \in 1..(Len(u) - (x + 1) + 2) /\ Len(t) \in ((k + 1) - 1)..(Len(u) - (x + 1) + 1)
      BY <1>1, <1>2
    <2>2. QED
      BY <1>2, <2>1, SubSub
  <1>5. (x + 1) + (k + 1) - 1 = x + k + 1 /\ (x + 1) + Len(t) - 1 = Len(u)
    BY <1>1, <1>2
  <1>6. SubSeq(t, k + 1, Len(t)) = SubSeq(u, x + k + 1, Len(u))
    BY <1>3, <1>4, <1>5
  <1>7. QED
    BY <1>6 DEF u, x

\* The last whole message of what is behind a whole message.
LEMMA EndOfRest ==
  ASSUME NEW s, Stream(s), NEW j \in 0..Len(s), j > 0 => s[j].i = s[j].len
  PROVE  EndOf(SubSeq(s, j + 1, Len(s))) = EndOf(s) - j
  <1> DEFINE t == SubSeq(s, j + 1, Len(s))
             L == Len(s)
  <1>1. s \in Seq(Unit) /\ L \in Nat
    BY DEF Stream
  <1>2. /\ Len(t) = L - j
        /\ L - j > 0 => t[L - j] = s[L]
    <2>1. j + 1 \in 1..(L + 1) /\ L \in ((j + 1) - 1)..L
      BY <1>1
    <2>2. /\ Len(t) = L - (j + 1) + 1
          /\ \A k \in 1..(L - (j + 1) + 1) : t[k] = s[(j + 1) + k - 1]
      BY <1>1, <2>1, PartFacts
    <2> HIDE DEF t
    <2>3. L - (j + 1) + 1 = L - j
      BY <1>1
    <2>4. ASSUME L - j > 0 PROVE t[L - j] = s[L]
      <3>1. L - j \in 1..(L - j) /\ (j + 1) + (L - j) - 1 = L
        BY <1>1, <2>4
      <3>2. QED
        BY <2>2, <2>3, <3>1
    <2>5. QED
      BY <2>2, <2>3, <2>4
  <1> HIDE DEF t
  <1>3. CASE L - j = 0
    <2>1. EndOf(t) = 0
      BY <1>2, <1>3 DEF EndOf
    <2>2. L = j
      BY <1>1, <1>3
    <2>3. EndOf(s) = L
      BY <2>2 DEF EndOf
    <2>4. QED
      BY <1>1, <2>1, <2>2, <2>3 DEF t
  <1>4. CASE L - j > 0
    <2>1. PICK x \in 1..5, y \in 1..5 : x = s[L].i /\ y = s[L].len
      <3>1. L \in 1..L
        BY <1>1, <1>4
      <3>2. QED
        BY <3>1, UnitAt
    <2>2. L # 0 /\ L - j # 0
      BY <1>1, <1>4
    <2>3. EndOf(t) = IF x = y THEN L - j ELSE (L - j) - x
      BY <1>2, <1>4, <2>1, <2>2 DEF EndOf
    <2>4. EndOf(s) = IF x = y THEN L ELSE L - x
      BY <2>1, <2>2 DEF EndOf
    <2>5. EndOf(t) = EndOf(s) - j
      BY <1>1, <2>3, <2>4
    <2>6. QED
      BY <2>5 DEF t
  <1>5. QED
    BY <1>1, <1>2, <1>3, <1>4

\* No number is between a number and the next.
LEMMA EmptyRun ==
  ASSUME NEW x \in Nat
  PROVE  Run(x + 1, x) = << >>
  <1>1. x + 1 \in Nat /\ x < x + 1
    OBVIOUS
  <1>2. QED
    BY <1>1, RunFacts

\* A message that is kept is one that has been cut.
LEMMA KeptFacts ==
  ASSUME NEW s, Stream(s), Begins(s), EndOf(s) = 0, NEW k \in 1..Len(s)
  PROVE  s[k].i = k /\ s[k].n = s[1].n /\ s[k].len = s[1].len /\ Len(s) < s[1].len
  <1>1. Len(s) \in Nat /\ Len(s) > 0 /\ 1 \in 1..Len(s) /\ Len(s) \in 1..Len(s)
    BY DEF Stream
  <1>2. \A m \in 1..Len(s) : s[m].i = m
    <2>1. \A m \in 1..Len(s) : m > EndOf(s) => s[m].i = m - EndOf(s)
      BY EndOfFacts
    <2>2. QED
      BY <1>1, <2>1
  <1>3. ASSUME NEW m \in 1..Len(s) PROVE s[1].n = s[m].n /\ s[1].len = s[m].len
    <2>1. PICK d : d = m - 1
      OBVIOUS
    <2>2. d \in Nat /\ d < m /\ m - d = 1
      BY <1>1, <2>1
    <2>3. d < s[m].i
      BY <1>2, <2>2
    <2>4. s[m - d].n = s[m].n /\ s[m - d].len = s[m].len
      BY <2>2, <2>3, MessageBack
    <2>5. QED
      BY <2>2, <2>4
  <1>4. Len(s) < s[1].len
    <2>1. s[Len(s)].i # s[Len(s)].len
      BY <1>1 DEF EndOf
    <2>2. s[Len(s)].len \in 1..5 /\ s[Len(s)].i <= s[Len(s)].len
      BY <1>1, UnitAt
    <2>3. s[Len(s)].i = Len(s) /\ s[Len(s)].len = s[1].len
      BY <1>1, <1>2, <1>3
    <2>4. QED
      BY <1>1, <2>1, <2>2, <2>3
  <1>5. QED
    BY <1>2, <1>3, <1>4

\* What recv_many() of the Vector driver makes of what it has kept and a transfer.
LEMMA VectorRecvIs ==
  ASSUME NEW pt \in Seq(Unit), NEW ws \in Seq(Unit), VectorStream(pt \o ws), Begins(pt \o ws),
         EndOf(pt) = 0, NEW b, Numbered(pt \o ws, b)
  PROVE  Vector!Recv(pt, ws) = [frames |-> Run(b[0] + 1, b[EndOf(pt \o ws)]),
                                part |-> SubSeq(pt \o ws, EndOf(pt \o ws) + 1, Len(pt \o ws))]
  <1> DEFINE w == pt \o ws
             K == Len(w)
             E == EndOf(w)
             L == Len(pt)
  <1>1. /\ w \in Seq(Unit) /\ K = L + Len(ws) /\ L \in Nat /\ Len(ws) \in Nat /\ K \in Nat
        /\ \A k \in 1..L : w[k] = pt[k]
    BY CatFacts
  <1>2. pt = SubSeq(w, 1, L)
    BY CatParts
  <1>3. Stream(w) /\ VectorStream(w) /\ Begins(w) /\ Numbered(w, b)
    BY DEF VectorStream
  <1>4. ASSUME NEW need \in 0..Len(ws)
        PROVE  /\ pt \o SubSeq(ws, 1, need) = SubSeq(w, 1, L + need)
               /\ SubSeq(ws, need + 1, Len(ws)) = SubSeq(w, L + need + 1, K)
    BY CatPart, CatRest
  <1>5. L = 0 => w = ws
    <2>1. SUFFICES ASSUME L = 0 PROVE w = ws
      OBVIOUS
    <2>2. pt = << >>
      BY <2>1
    <2>3. QED
      BY <2>2, ConcatEmptySeq
  <1> HIDE DEF w, L
  <1>6. CASE L = 0
    <2>1. pt = << >>
      BY <1>6 DEF L
    <2>2. Vector!Recv(pt, ws) = Vector!Events(w)
      BY <1>5, <1>6, <2>1 DEF Vector!Recv
    <2>3. Vector!Events(w) = [frames |-> Run(b[0] + 1, b[EndOf(w)]), part |-> SubSeq(w, EndOf(w) + 1, Len(w))]
      BY <1>3, EventsAre
    <2>4. QED
      BY <2>2, <2>3 DEF w
  <1>7. CASE L > 0
    <2>1. pt # << >>
      BY <1>7 DEF L
    <2>2. Stream(pt) /\ Begins(pt)
      <3>1. 1 \in 1..(K + 1) /\ L \in (1 - 1)..K /\ 1 \in 1..L
        BY <1>1, <1>7
      <3>2. Stream(pt)
        BY <1>2, <1>3, <3>1, PartOfStream
      <3>3. pt[1].i = 1
        <4>1. w[1].i = 1
          BY <1>1, <1>3, <1>7 DEF Begins
        <4>2. QED
          BY <1>1, <3>1, <4>1
      <3>4. QED
        BY <3>2, <3>3 DEF Begins
    <2>3. PICK x \in 1..5 : x = pt[1].len
      <3>1. 1 \in 1..Len(pt)
        BY <1>1, <1>7 DEF L
      <3>2. QED
        BY <2>2, <3>1, UnitAt
    <2>4. L < x /\ w[1].i = 1 /\ w[1].len = x /\ 1 \in 1..K /\ 1 \in 1..L
      <3>1. 1 \in 1..L /\ 1 \in 1..K
        BY <1>1, <1>7
      <3>2. Len(pt) < pt[1].len
        <4>1. 1 \in 1..Len(pt)
          BY <3>1 DEF L
        <4>2. QED
          BY <2>2, <4>1, KeptFacts
      <3>3. w[1].i = 1
        BY <1>1, <1>3, <1>7 DEF Begins
      <3>4. QED
        BY <1>1, <2>3, <3>1, <3>2, <3>3 DEF L
    <2>5. PICK need : need = x - L
      OBVIOUS
    <2>6. need \in Nat /\ L + need = x /\ need = pt[1].len - Len(pt)
      BY <1>1, <2>3, <2>4, <2>5 DEF L
    <2>7. K \in Nat /\ L \in Nat /\ Len(ws) \in Nat /\ K = L + Len(ws) /\ need \in Nat /\ L + need = x
          /\ x \in 1..5
      BY <1>1, <2>3, <2>6
    <2>8. CASE Len(ws) < need
      <3>1. Vector!Recv(pt, ws) = [frames |-> << >>, part |-> w]
        BY <2>1, <2>6, <2>8 DEF Vector!Recv, w
      <3>2. ~(1 + w[1].len - 1 <= K)
        BY <1>1, <2>4, <2>6, <2>8
      <3>3. EndOf(w) = 1 - 1
        BY <1>3, <2>4, <3>2, CutMessage
      <3>4. E = 0
        BY <3>3
      <3>5. Run(b[0] + 1, b[0]) = << >>
        <4>1. b[0] \in Nat
          <5>1. 0 \in 0..Len(w)
            BY <1>1
          <5>2. QED
            BY <1>3, <5>1 DEF Numbered
        <4>2. QED
          BY <4>1, EmptyRun
      <3>6. SubSeq(w, 0 + 1, K) = w
        BY <1>1, SubSeqFull
      <3>7. QED
        BY <3>1, <3>4, <3>5, <3>6 DEF w
    <2>9. CASE ~(Len(ws) < need)
      <3>1. need \in 0..Len(ws) /\ x \in 1..K /\ x \in 0..K
        <4> HIDE DEF K, E
        <4>1. QED
          BY <2>7, <2>9
      <3> DEFINE t == SubSeq(w, x + 1, K)
      <3>2. pt \o SubSeq(ws, 1, need) = SubSeq(w, 1, x) /\ SubSeq(ws, need + 1, Len(ws)) = t
        BY <1>4, <2>6, <3>1
      <3>3. Vector!Recv(pt, ws) = [frames |-> Vector!FrameOf(SubSeq(w, 1, x)) \o Vector!Events(t).frames,
                                   part |-> Vector!Events(t).part]
        BY <2>1, <2>6, <2>9, <3>2 DEF Vector!Recv
      <3>4. 1 + w[1].len - 1 = x /\ 1 + w[1].len - 1 <= K
        BY <2>3, <2>4, <3>1
      <3>5. w[x].i = w[x].len
        BY <1>3, <2>4, <3>4, WholeMessage
      <3>6. x + 1 \in 1..(K + 1) /\ K \in ((x + 1) - 1)..K /\ x > 0
        <4> HIDE DEF K, E
        <4>1. QED
          BY <2>7, <3>1
      <3>7. Stream(t) /\ Begins(t)
        BY <1>3, <3>1, <3>5, <3>6, PartOfStream, BehindTheEnd
      <3>8. VectorStream(t)
        <4>1. /\ Len(t) = K - (x + 1) + 1
              /\ \A k \in 1..(K - (x + 1) + 1) : t[k] = w[(x + 1) + k - 1]
          BY <1>1, <3>6, PartFacts
        <4> HIDE DEF t
        <4>2. ASSUME NEW k \in 1..Len(t) PROVE VectorUnit(t[k])
          <5>1. (x + 1) + k - 1 \in 1..K /\ t[k] = w[(x + 1) + k - 1]
            <6> HIDE DEF K, E
            <6>1. k \in 1..(K - (x + 1) + 1)
              BY <4>1
            <6>2. (x + 1) + k - 1 \in 1..K
              BY <2>7, <6>1
            <6>3. QED
              BY <4>1, <6>1, <6>2
          <5>2. QED
            BY <1>3, <5>1 DEF VectorStream
        <4>3. QED
          BY <3>7, <4>2 DEF VectorStream
      <3>9. PICK c : c = [k \in 0..(K - (x + 1) + 1) |-> b[(x + 1) - 1 + k]]
        OBVIOUS
      <3>10. Numbered(t, c)
        BY <1>1, <1>3, <3>6, <3>9, PartNumbered
      <3>11. EndOf(t) = E - x
        BY <1>3, <3>1, <3>5, EndOfRest
      <3>12. E \in x..K
        <4>1. x <= E
          BY <1>3, <3>1, <3>5, EndIsLast
        <4>2. E \in 0..K
          BY <1>3, EndOfFacts
        <4>3. QED
          BY <2>3, <4>1, <4>2
      <3>13. Vector!Events(t) = [frames |-> Run(c[0] + 1, c[EndOf(t)]),
                                 part |-> SubSeq(t, EndOf(t) + 1, Len(t))]
        BY <3>7, <3>8, <3>10, EventsAre
      <3>14. c[0] = b[x] /\ c[EndOf(t)] = b[E]
        <4>1. 0 \in 0..(K - (x + 1) + 1) /\ (x + 1) - 1 + 0 = x
          BY <1>1, <2>3, <3>1
        <4>2. E - x \in 0..(K - (x + 1) + 1) /\ (x + 1) - 1 + (E - x) = E
          <5> HIDE DEF K, E
          <5>1. QED
            BY <2>7, <3>12
        <4> HIDE DEF t, E
        <4>3. QED
          BY <3>9, <3>11, <4>1, <4>2
      <3>15. SubSeq(t, EndOf(t) + 1, Len(t)) = SubSeq(w, E + 1, K)
        <4>1. Len(t) = K - x
          <5>1. Len(t) = K - (x + 1) + 1
            BY <1>1, <3>6, PartFacts
          <5>2. QED
            BY <1>1, <2>3, <5>1
        <4>2. PICK m, n : m = (E - x) + 1 /\ n = K - x
          OBVIOUS
        <4>3. /\ m \in 1..(K - (x + 1) + 2) /\ n \in (m - 1)..(K - (x + 1) + 1)
              /\ (x + 1) + m - 1 = E + 1 /\ (x + 1) + n - 1 = K
          <5> HIDE DEF K, E
          <5>1. QED
            BY <2>7, <3>12, <4>2
        <4>4. SubSeq(t, m, n) = SubSeq(w, (x + 1) + m - 1, (x + 1) + n - 1)
          BY <1>1, <3>6, <4>3, SubSub
        <4> HIDE DEF t
        <4>5. QED
          BY <3>11, <4>1, <4>2, <4>3, <4>4
      <3>16. Run(b[0] + 1, b[E]) = Vector!FrameOf(SubSeq(w, 1, x)) \o Run(b[x] + 1, b[E])
        <4>1. Run(b[1 - 1] + 1, b[EndOf(w)]) = Vector!FrameOf(SubSeq(w, 1, 1 + w[1].len - 1))
                                                 \o Run(b[1 + w[1].len - 1] + 1, b[EndOf(w)])
          BY <1>3, <2>4, <3>4, EventsStep
        <4>2. 1 - 1 = 0
          OBVIOUS
        <4>3. QED
          BY <3>4, <4>1, <4>2
      <3>17. /\ Vector!Events(t).frames = Run(b[x] + 1, b[E])
             /\ Vector!Events(t).part = SubSeq(w, E + 1, K)
        <4> HIDE DEF t, K, E
        <4>1. Vector!Events(t) = [frames |-> Run(b[x] + 1, b[E]), part |-> SubSeq(w, E + 1, K)]
          BY <3>13, <3>14, <3>15
        <4>2. PICK r, x1, x2 : r = Vector!Events(t) /\ x1 = Run(b[x] + 1, b[E]) /\ x2 = SubSeq(w, E + 1, K)
          OBVIOUS
        <4>3. r = [frames |-> x1, part |-> x2]
          BY <4>1, <4>2
        <4>4. r.frames = x1 /\ r.part = x2
          BY <4>3
        <4>5. QED
          BY <4>2, <4>4
      <3> HIDE DEF t, K, E
      <3>18. Vector!Recv(pt, ws) = [frames |-> Run(b[0] + 1, b[E]), part |-> SubSeq(w, E + 1, K)]
        BY <3>3, <3>16, <3>17
      <3>19. QED
        BY <3>18 DEF w, K, E
    <2>10. QED
      BY <2>8, <2>9
  <1>8. L = 0 \/ L > 0
    BY <1>1
  <1>9. QED
    BY <1>6, <1>7, <1>8

-----------------------------------------------------------------------------
(* What an slcan adapter sends.                                             *)

\* What an slcan adapter puts on the line.
SlcanUnit(u) ==
  IF u.n > 0
  THEN /\ u.len = 5
       /\ u.i = 1 => u.c = "cmd"
       /\ u.i \in 2..4 => u.c \in {"hex", "F"}
       /\ u.i = 5 => u.c = "cr"
  ELSE u.len \in {1, 2} /\ u.c = IF u.i = 2 THEN "cr" ELSE "other"

\* A stream from an slcan adapter.
SlcanStream(s) == Stream(s) /\ \A j \in 1..Len(s) : SlcanUnit(s[j])

\* The class of a character tells where it is in its message.
LEMMA SlcanAt ==
  ASSUME NEW s, SlcanStream(s), NEW j \in 1..Len(s)
  PROVE  /\ s[j].c = "cr" <=> s[j].i = s[j].len /\ s[j].len > 1
         /\ s[j].c \in {"cmd", "F"} => s[j].n > 0
         /\ s[j].c = "cmd" <=> s[j].n > 0 /\ s[j].i = 1
         /\ s[j].n > 0 => s[j].len = 5
         /\ s[j].n = 0 => s[j].len \in {1, 2}
  <1>1. /\ s[j].n \in Nat /\ s[j].i \in 1..5 /\ s[j].len \in 1..5 /\ s[j].i <= s[j].len
    BY UnitAt DEF SlcanStream
  <1>2. SlcanUnit(s[j])
    BY DEF SlcanStream
  <1>3. PICK n \in Nat, i \in 1..5, len \in 1..5, c \in {s[j].c} :
          n = s[j].n /\ i = s[j].i /\ len = s[j].len /\ c = s[j].c
    BY <1>1
  <1>4. i <= len
    BY <1>1, <1>3
  <1>5. CASE n > 0
    <2>1. len = 5 /\ (i = 1 => c = "cmd") /\ (i \in 2..4 => c \in {"hex", "F"}) /\ (i = 5 => c = "cr")
      BY <1>2, <1>3, <1>5 DEF SlcanUnit
    <2>2. i = 1 \/ i \in 2..4 \/ i = 5
      OBVIOUS
    <2>3. (c = "cr" <=> i = len /\ len > 1) /\ (c = "cmd" <=> i = 1)
      BY <2>1, <2>2
    <2>4. QED
      BY <1>3, <1>5, <2>1, <2>3
  <1>6. CASE ~(n > 0)
    <2>1. len \in {1, 2} /\ c = IF i = 2 THEN "cr" ELSE "other"
      BY <1>2, <1>3, <1>6 DEF SlcanUnit
    <2>2. (c = "cr" <=> i = len /\ len > 1) /\ c \notin {"cmd", "F"} /\ n = 0
      BY <1>4, <1>6, <2>1
    <2>3. QED
      BY <1>3, <1>6, <2>1, <2>2
  <1>7. QED
    BY <1>5, <1>6

\* Where the message that a stream begins in, or with, ends: at m.
LEMMA FirstEnd ==
  ASSUME NEW s, Stream(s), Ends(s), Len(s) > 0, s[1].i # 1
  PROVE  \E m \in 1..Len(s) : /\ s[m].i = s[m].len /\ s[m].len > 1
                              /\ \A k \in 1..m : s[k].i # 1 /\ s[k].n = s[1].n /\ s[k].len = s[1].len
                              /\ \A k \in 1..m : k < m => s[k].i < s[k].len
  <1>1. Len(s) \in Nat /\ 1 \in 1..Len(s) /\ Len(s) \in 1..Len(s)
    BY DEF Stream
  <1>2. PICK x \in 1..5, y \in 1..5 : x = s[1].i /\ y = s[1].len
    BY <1>1, UnitAt
  <1>3. x <= y /\ x > 1
    <2>1. s[1].i <= s[1].len
      BY <1>1, UnitAt
    <2>2. QED
      BY <1>2, <2>1
  <1>4. PICK m \in Nat : m = 1 + (y - x) /\ x + (m - 1) = y /\ m > 0
    BY <1>3
  <1>5. ASSUME NEW k \in 1..Len(s), k <= m
        PROVE  s[k].i = x + (k - 1) /\ s[k].n = s[1].n /\ s[k].len = y
    <2>1. PICK d : d = k - 1
      OBVIOUS
    <2>2. d \in Nat /\ 1 + d = k /\ 1 + d <= Len(s) /\ x + d <= y
      BY <1>1, <1>4, <1>5, <2>1
    <2>3. s[1].i + d <= s[1].len
      BY <1>2, <2>2
    <2>4. s[1 + d].i = s[1].i + d /\ s[1 + d].n = s[1].n /\ s[1 + d].len = s[1].len
      BY <1>1, <2>2, <2>3, MessageGoesOn
    <2>5. QED
      BY <1>2, <2>1, <2>2, <2>4
  <1>6. m <= Len(s)
    <2>1. PICK l \in Nat : l = Len(s) /\ l \in 1..Len(s)
      BY <1>1
    <2>2. SUFFICES ASSUME l < m PROVE FALSE
      BY <1>4, <2>1
    <2>3. s[l].i = x + (l - 1) /\ s[l].len = y
      <3>1. l \in 1..Len(s) /\ l <= m
        BY <1>4, <2>1, <2>2
      <3>2. QED
        BY <1>5, <3>1
    <2>4. s[l].i = s[l].len
      BY <2>1 DEF Ends
    <2>5. x + (l - 1) = y
      BY <2>3, <2>4
    <2>6. QED
      BY <1>4, <2>2, <2>5
  <1>7. m \in 1..Len(s)
    BY <1>1, <1>4, <1>6
  <1>8. s[m].i = s[m].len /\ s[m].len > 1
    <2>1. s[m].i = x + (m - 1) /\ s[m].len = y
      BY <1>5, <1>7
    <2>2. s[m].i = y /\ y > 1
      BY <1>3, <1>4, <2>1
    <2>3. QED
      BY <2>1, <2>2
  <1>9. ASSUME NEW k \in 1..m
        PROVE  /\ s[k].i # 1 /\ s[k].n = s[1].n /\ s[k].len = s[1].len
               /\ k < m => s[k].i < s[k].len
    <2>1. k \in 1..Len(s) /\ k <= m
      BY <1>1, <1>7
    <2>2. s[k].i = x + (k - 1) /\ s[k].n = s[1].n /\ s[k].len = y
      BY <1>5, <2>1
    <2>3. x + (k - 1) # 1 /\ (k < m => x + (k - 1) < y)
      BY <1>3, <1>4
    <2>4. QED
      BY <1>2, <2>2, <2>3
  <1>10. QED
    BY <1>7, <1>8, <1>9

\* A sequence that begins with a message leaves no piece of one.
LEMMA NoPiece ==
  ASSUME NEW s \in Seq(Unit), Begins(s)
  PROVE  Piece(s) = << >>
  <1> DEFINE I == {i \in 1..Len(s) : s[i].i = 1}
             next == IF I # {} THEN Min(I) ELSE 0
             tail == IF next = 0 THEN s ELSE SubSeq(s, 1, next - 1)
  <1>1. Len(s) \in Nat
    OBVIOUS
  <1>2. CASE Len(s) = 0
    <2>1. I = {} /\ s = << >>
      BY <1>2
    <2>2. tail = << >>
      BY <2>1
    <2> HIDE DEF tail
    <2>3. QED
      BY <2>2 DEF Piece, SelectInSeq, tail
  <1>3. CASE Len(s) > 0
    <2>1. 1 \in I /\ \A i \in I : 1 <= i
      BY <1>1, <1>3 DEF Begins
    <2>2. Min(I) = 1
      <3>1. \A x \in I : (\A y \in I : x <= y) => x = 1
        BY <1>1, <2>1
      <3> HIDE DEF I
      <3>2. QED
        BY <2>1, <3>1 DEF Min
    <2>3. next = 1
      <3> HIDE DEF I
      <3>1. QED
        BY <2>1, <2>2
    <2>4. SubSeq(s, 1, 0) = << >>
      BY SubSeqEmpty
    <2>5. tail = << >>
      <3>1. next # 0 /\ next - 1 = 0
        BY <2>3
      <3> HIDE DEF next
      <3>2. QED
        BY <2>4, <3>1
    <2> HIDE DEF tail
    <2>6. QED
      BY <2>5 DEF Piece, SelectInSeq, tail
  <1>4. QED
    BY <1>1, <1>2, <1>3

\* One that begins inside a message leaves the rest of it.
LEMMA PieceIs ==
  ASSUME NEW s, Stream(s), NEW m \in 1..Len(s), s[m].i = s[m].len,
         \A k \in 1..m : s[k].i # 1
  PROVE  Piece(s) = Slcan!Message1(SubSeq(s, 1, m - 1))
  <1> DEFINE I == {i \in 1..Len(s) : s[i].i = 1}
             next == IF I # {} THEN Min(I) ELSE 0
             tail == IF next = 0 THEN s ELSE SubSeq(s, 1, next - 1)
  <1>1. s \in Seq(Unit) /\ Len(s) \in Nat
    BY DEF Stream
  <1>2. tail = SubSeq(s, 1, m)
    <2>1. CASE m = Len(s)
      <3>1. I = {}
        BY <2>1
      <3>2. next = 0
        BY <3>1
      <3>3. SubSeq(s, 1, Len(s)) = s
        BY <1>1, SubSeqFull
      <3>4. QED
        BY <2>1, <3>2, <3>3
    <2>2. CASE m # Len(s)
      <3>1. m + 1 \in 1..Len(s) /\ m + 1 <= Len(s)
        BY <1>1, <2>2
      <3>2. s[m + 1].i = 1
        <4>1. Follows(s[m], s[m + 1])
          BY <3>1 DEF Stream
        <4>2. s[m].i \in 1..5
          BY UnitAt
        <4>3. QED
          BY <4>1, <4>2 DEF Follows
      <3>3. m + 1 \in I
        BY <3>1, <3>2
      <3>4. \A i \in I : m + 1 <= i
        <4>1. \A i \in 1..Len(s) : i < m + 1 => i \in 1..m
          BY <1>1
        <4>2. QED
          BY <1>1, <4>1
      <3>5. I \subseteq Int
        BY <1>1
      <3> HIDE DEF I
      <3>6. Min(I) = m + 1
        <4>1. \A x \in I : (\A y \in I : x <= y) => x = m + 1
          BY <3>3, <3>4, <3>5
        <4>2. QED
          BY <3>3, <3>4, <4>1 DEF Min
      <3>7. next = m + 1 /\ (m + 1) - 1 = m /\ m + 1 # 0
        BY <3>3, <3>6
      <3> HIDE DEF next
      <3>8. QED
        BY <3>7
    <2>3. QED
      BY <2>1, <2>2
  <1>3. tail \in Seq(Unit) /\ Len(tail) = m
    <2>1. 1 \in 1..(Len(s) + 1) /\ m \in (1 - 1)..Len(s) /\ m - 1 + 1 = m
      BY <1>1
    <2>2. SubSeq(s, 1, m) \in Seq(Unit) /\ Len(SubSeq(s, 1, m)) = m - 1 + 1
      BY <1>1, <2>1, PartFacts
    <2> HIDE DEF tail
    <2>3. QED
      BY <1>2, <2>1, <2>2
  <1> HIDE DEF tail
  <1>4. tail # << >>
    BY <1>1, <1>3
  <1>5. Front(tail) = SubSeq(s, 1, m - 1)
    <2>1. Front(tail) = SubSeq(tail, 1, m - 1)
      BY <1>3 DEF Front
    <2>2. SubSeq(SubSeq(s, 1, m), 1, m - 1) = SubSeq(s, 1 + 1 - 1, 1 + (m - 1) - 1)
      <3>1. /\ 1 \in 1..(Len(s) + 1) /\ m \in (1 - 1)..Len(s)
            /\ 1 \in 1..(m - 1 + 2) /\ m - 1 \in (1 - 1)..(m - 1 + 1)
        BY <1>1
      <3>2. QED
        BY <1>1, <3>1, SubSub
    <2>3. 1 + 1 - 1 = 1 /\ 1 + (m - 1) - 1 = m - 1
      BY <1>1
    <2>4. QED
      BY <1>2, <2>1, <2>2, <2>3
  <1>6. Piece(s) = IF tail = << >> THEN << >> ELSE Slcan!Message1(Front(tail))
    BY DEF Piece, SelectInSeq, tail
  <1>7. QED
    BY <1>4, <1>5, <1>6

\* A set of numbers has a least.
LEMMA LeastOf ==
  ASSUME NEW S, S \subseteq Nat, S # {}
  PROVE  \E x \in S : \A y \in S : x <= y
  <1> DEFINE Less == {ss \in Nat \X Nat : ss[1] < ss[2]}
  <1>1. IsWellFoundedOn(Less, Nat)
    BY NatLessThanWellFounded, Zenon DEF OpToRel
  <1> HIDE DEF Less
  <1>2. PICK m \in S : \A k \in S : <<k, m>> \notin Less
    BY <1>1, WFMin, Zenon
  <1>3. ASSUME NEW k \in S PROVE m <= k
    <2>1. m \in Nat /\ k \in Nat /\ <<k, m>> \notin Less
      BY <1>2
    <2>2. QED
      BY <2>1 DEF Less
  <1>4. QED
    BY <1>3

\* Where the first letter is that may begin a message.
Letters(t) == {i \in 1..Len(t) : t[i].c \in {"cmd", "F"}}
\* Where message1() finds its letter, 0 where it finds none.
Letter(t) == IF Letters(t) # {} THEN Min(Letters(t)) ELSE 0

\* It is the first of them.
LEMMA LetterFacts ==
  ASSUME NEW t
  PROVE  /\ Letters(t) = {} => Letter(t) = 0
         /\ Letters(t) # {} => Letter(t) \in Letters(t) /\ \A i \in Letters(t) : Letter(t) <= i
  <1>1. CASE Letters(t) = {}
    BY <1>1 DEF Letter
  <1>2. CASE Letters(t) # {}
    <2>1. Letters(t) \subseteq Nat
      BY DEF Letters
    <2>2. \E x \in Letters(t) : \A y \in Letters(t) : x <= y
      BY <1>2, <2>1, LeastOf
    <2>3. Letter(t) = Min(Letters(t))
      BY <1>2 DEF Letter
    <2>4. QED
      BY <1>2, <2>2, <2>3 DEF Min
  <1>3. QED
    BY <1>1, <1>2

\* message1() begins at the letter: it wants the whole text of one frame.
LEMMA Message1Is ==
  ASSUME NEW t
  PROVE  Slcan!Message1(t) =
           LET p == Letter(t)
               text == SubSeq(t, p, Len(t))
           IN IF p = 0 THEN << >>
              ELSE IF t[p].c = "F" THEN IF Len(text) >= 3 THEN <<Slcan!Torn>> ELSE << >>
              ELSE IF Len(text) # t[p].len - 1 THEN << >>
              ELSE IF \E j \in DOMAIN text : text[j].n # t[p].n \/ text[j].i # j THEN <<Slcan!Torn>>
              ELSE <<t[p].n>>
  BY DEF Slcan!Message1, Slcan!SelectInSeq, Slcan!Min, Min, Letter, Letters

\* What is left of a message passes for an error message or for nothing.
LEMMA PieceIsTorn ==
  ASSUME NEW s, SlcanStream(s), Ends(s)
  PROVE  Piece(s) \in {<< >>, <<Torn>>}
  <1>1. Stream(s) /\ s \in Seq(Unit) /\ Len(s) \in Nat
    BY DEF SlcanStream, Stream
  <1>2. CASE Begins(s)
    BY <1>1, <1>2, NoPiece
  <1>3. CASE ~Begins(s)
    <2>1. Len(s) > 0 /\ s[1].i # 1
      BY <1>3 DEF Begins
    <2>2. PICK m \in 1..Len(s) : /\ s[m].i = s[m].len
                                 /\ \A k \in 1..m : s[k].i # 1
                                 /\ \A k \in 1..m : k < m => s[k].i < s[k].len
      BY <1>1, <2>1, FirstEnd
    <2>3. Piece(s) = Slcan!Message1(SubSeq(s, 1, m - 1))
      BY <1>1, <2>2, PieceIs
    <2> DEFINE t == SubSeq(s, 1, m - 1)
               p == Letter(t)
    <2>4. t \in Seq(Unit) /\ Len(t) = m - 1 /\ \A k \in 1..(m - 1) : t[k] = s[k]
      <3>1. 1 \in 1..(Len(s) + 1) /\ m - 1 \in (1 - 1)..Len(s) /\ (m - 1) - 1 + 1 = m - 1
            /\ \A k \in 1..(m - 1) : 1 + k - 1 = k
        BY <1>1
      <3>2. /\ t \in Seq(Unit) /\ Len(t) = (m - 1) - 1 + 1
            /\ \A k \in 1..((m - 1) - 1 + 1) : t[k] = s[1 + k - 1]
        BY <1>1, <3>1, PartFacts
      <3> HIDE DEF t
      <3>3. QED
        BY <3>1, <3>2
    <2> HIDE DEF t
    <2>5. \A k \in 1..Len(t) : t[k].c # "cmd"
      <3>1. ASSUME NEW k \in 1..Len(t) PROVE t[k].c # "cmd"
        <4>1. k \in 1..(m - 1) /\ k \in 1..m /\ k \in 1..Len(s)
          BY <1>1, <2>4
        <4>2. s[k].i # 1
          BY <2>2, <4>1
        <4>3. s[k].c # "cmd"
          BY <4>1, <4>2, SlcanAt
        <4>4. QED
          BY <2>4, <4>1, <4>3
      <3>2. QED
        BY <3>1
    <2>6. p = 0 \/ p \in Letters(t)
      BY LetterFacts
    <2>7. p # 0 => t[p].c = "F"
      <3> HIDE DEF p
      <3>1. QED
        BY <2>5, <2>6 DEF Letters
    <2>8. \/ p = 0 /\ Slcan!Message1(t) = << >>
          \/ p # 0 /\ t[p].c = "F" /\ Slcan!Message1(t) \in {<<Slcan!Torn>>, << >>}
      BY <2>7, Message1Is
    <2> HIDE DEF p
    <2>9. Slcan!Message1(t) \in {<< >>, <<Slcan!Torn>>}
      BY <2>8
    <2>10. Slcan!Torn = Torn
      BY DEF Slcan!Torn, Torn
    <2>11. QED
      BY <2>3, <2>9, <2>10 DEF t
  <1>4. QED
    BY <1>2, <1>3

\* What comes behind does not change it.
LEMMA PieceStays ==
  ASSUME NEW s, Stream(s), Ends(s), NEW t, Stream(t), Begins(t)
  PROVE  Piece(s \o t) = Piece(s)
  <1> DEFINE u == s \o t
             L == Len(s)
  <1>1. s \in Seq(Unit) /\ t \in Seq(Unit) /\ L \in Nat /\ Len(t) \in Nat
    BY DEF Stream
  <1>2. /\ u \in Seq(Unit) /\ Len(u) = L + Len(t)
        /\ \A k \in 1..L : u[k] = s[k]
    BY <1>1, CatFacts
  <1>3. Stream(u) /\ (Begins(s) => Begins(u))
    BY StreamAppend
  <1> HIDE DEF u
  <1>4. CASE Begins(s)
    <2>1. Piece(s) = << >> /\ Piece(u) = << >>
      BY <1>1, <1>2, <1>3, <1>4, NoPiece
    <2>2. QED
      BY <2>1 DEF u
  <1>5. CASE ~Begins(s)
    <2>1. Len(s) > 0 /\ s[1].i # 1
      BY <1>5 DEF Begins
    <2>2. PICK m \in 1..Len(s) : s[m].i = s[m].len /\ \A k \in 1..m : s[k].i # 1
      BY <2>1, FirstEnd
    <2>3. m \in 1..Len(u) /\ m \in 1..L /\ \A k \in 1..m : k \in 1..L
      BY <1>1, <1>2
    <2>4. u[m].i = u[m].len /\ \A k \in 1..m : u[k].i # 1
      BY <1>2, <2>2, <2>3
    <2>5. Piece(s) = Slcan!Message1(SubSeq(s, 1, m - 1))
      BY <2>2, PieceIs
    <2>6. Piece(u) = Slcan!Message1(SubSeq(u, 1, m - 1))
      BY <1>3, <2>3, <2>4, PieceIs
    <2>7. SubSeq(u, 1, m - 1) = SubSeq(s, 1, m - 1)
      <3>1. s = SubSeq(u, 1, L)
        BY <1>1, CatParts DEF u
      <3>2. SubSeq(SubSeq(u, 1, L), 1, m - 1) = SubSeq(u, 1 + 1 - 1, 1 + (m - 1) - 1)
        <4>1. /\ 1 \in 1..(Len(u) + 1) /\ L \in (1 - 1)..Len(u)
              /\ 1 \in 1..(L - 1 + 2) /\ m - 1 \in (1 - 1)..(L - 1 + 1)
          BY <1>1, <1>2, <2>3
        <4>2. QED
          BY <1>2, <4>1, SubSub
      <3>3. 1 + 1 - 1 = 1 /\ 1 + (m - 1) - 1 = m - 1
        BY <1>1
      <3>4. QED
        BY <3>1, <3>2, <3>3
    <2>8. QED
      BY <2>5, <2>6, <2>7 DEF u
  <1>6. QED
    BY <1>4, <1>5

-----------------------------------------------------------------------------
(* Lines.                                                                   *)

\* No return is between the units e and j.
NoReturn(s, e, j) == \A k \in 1..Len(s) : e < k /\ k < j => s[k].c # "cr"

\* It is a stream, of units.
LEMMA SlcanStreamIs ==
  ASSUME NEW s, SlcanStream(s)
  PROVE  Stream(s) /\ s \in Seq(Unit) /\ Len(s) \in Nat
  <1>1. Stream(s)
    BY DEF SlcanStream
  <1>2. s \in Seq(Unit)
    BY <1>1 DEF Stream
  <1>3. QED
    BY <1>1, <1>2

\* A line from the end of the one before: what rings the bell comes first.
LEMMA LineUnits ==
  ASSUME NEW s, SlcanStream(s), NEW j \in 1..Len(s), s[j].c = "cr", NEW e \in 0..(j - 1),
         NoReturn(s, e, j), s[e + 1].i = 1
  PROVE  /\ j - s[j].len \in e..j
         /\ \A k \in 1..Len(s) : e < k /\ k <= j - s[j].len => s[k].n = 0
         /\ \A k \in 1..Len(s) : j - s[j].len < k /\ k <= j =>
               /\ s[k].n = s[j].n /\ s[k].len = s[j].len /\ s[k].i = k - (j - s[j].len)
  <1>1. Stream(s) /\ s \in Seq(Unit) /\ Len(s) \in Nat
    BY SlcanStreamIs
  <1>2. PICK x \in 1..5 : x = s[j].len
    BY <1>1, UnitAt
  <1>3. s[j].i = x /\ x > 1
    BY <1>2, SlcanAt
  <1>4. ASSUME NEW k \in 1..j, j - x < k
        PROVE  s[k].n = s[j].n /\ s[k].len = x /\ s[k].i = k - (j - x)
    <2>1. PICK d : d = j - k
      OBVIOUS
    <2>2. d \in Nat /\ d < j /\ d < x /\ j - d = k /\ x - d = k - (j - x)
      BY <1>2, <1>4, <2>1
    <2>3. d < s[j].i
      BY <1>3, <2>2
    <2>4. s[j - d].i = s[j].i - d /\ s[j - d].n = s[j].n /\ s[j - d].len = s[j].len
      BY <1>1, <2>2, <2>3, MessageBack
    <2>5. QED
      BY <1>2, <1>3, <2>2, <2>4
  <1>5. e <= j - x
    <2>1. SUFFICES ASSUME e > j - x PROVE FALSE
      BY <1>2
    <2>2. e + 1 \in 1..j /\ j - x < e + 1
      BY <1>2, <2>1
    <2>3. s[e + 1].i = (e + 1) - (j - x)
      BY <1>4, <2>2
    <2>4. QED
      BY <1>2, <2>1, <2>3
  <1>6. ASSUME NEW k \in 1..Len(s), e < k, k <= j - x PROVE s[k].n = 0
    <2>1. PICK y \in 1..5, z \in 1..5, n \in Nat : y = s[k].i /\ z = s[k].len /\ n = s[k].n
      BY <1>1, UnitAt
    <2>2. y <= z
      <3>1. s[k].i <= s[k].len
        BY <1>1, UnitAt
      <3>2. QED
        BY <2>1, <3>1
    <2>3. z = 1
      <3>1. SUFFICES ASSUME z > 1 PROVE FALSE
        BY <2>1
      <3>2. PICK m : m = k + (z - y)
        OBVIOUS
      <3>3. CASE m < j
        <4>1. z - y \in Nat /\ k + (z - y) = m /\ m \in 1..Len(s) /\ e < m /\ k + (z - y) <= Len(s) /\ y + (z - y) = z
          <5>1. m <= Len(s) /\ e < m /\ k \in Nat /\ m \in Nat
            BY <1>1, <1>6, <2>2, <3>2, <3>3
          <5>2. z - y \in Nat /\ k + (z - y) = m /\ y + (z - y) = z /\ m >= 1
            BY <2>2, <3>2, <5>1
          <5>3. QED
            BY <1>1, <5>1, <5>2
        <4>2. s[k].i + (z - y) <= s[k].len
          <5>1. y + (z - y) <= z
            BY <2>1, <4>1
          <5>2. QED
            BY <2>1, <5>1
        <4>3. s[k + (z - y)].i = s[k].i + (z - y) /\ s[k + (z - y)].len = s[k].len
          BY <1>1, <4>1, <4>2, MessageGoesOn
        <4>4. s[m].i = z /\ s[m].len = z
          BY <2>1, <4>1, <4>3
        <4>5. s[m].c = "cr"
          BY <3>1, <4>1, <4>4, SlcanAt
        <4>6. QED
          BY <3>3, <4>1, <4>5 DEF NoReturn
      <3>4. CASE ~(m < j)
        <4>1. PICK d : d = j - k
          OBVIOUS
        <4>2. d \in Nat /\ k + d = j /\ k + d <= Len(s) /\ y + d <= z /\ d >= x
          <5>1. k \in Nat /\ j \in Nat /\ k <= j - x /\ j <= k + (z - y) /\ j <= Len(s)
            BY <1>1, <1>2, <1>6, <2>1, <2>2, <3>2, <3>4
          <5>2. d \in Nat /\ k + d = j /\ y + d <= z /\ d >= x
            BY <4>1, <5>1
          <5>3. QED
            BY <5>1, <5>2
        <4>3. s[k].i + d <= s[k].len
          BY <2>1, <4>2
        <4>4. s[k + d].i = s[k].i + d
          BY <1>1, <4>2, <4>3, MessageGoesOn
        <4>5. x = y + d
          BY <1>3, <2>1, <4>2, <4>4
        <4>6. QED
          <5>1. d >= x /\ x = y + d /\ y >= 1 /\ d \in Nat
            BY <4>2, <4>5
          <5>2. QED
            BY <1>2, <2>1, <5>1
      <3>5. QED
        BY <3>3, <3>4
    <2>4. s[k].n > 0 => s[k].len = 5
      BY SlcanAt
    <2>5. QED
      BY <2>1, <2>3, <2>4
  <1>7. j - x \in e..j
    BY <1>2, <1>5
  <1>8. QED
    BY <1>1, <1>2, <1>4, <1>6, <1>7

\* A whole line is read as the frames that begin in it.
LEMMA LineIs ==
  ASSUME NEW s, SlcanStream(s), NEW j \in 1..Len(s), s[j].c = "cr", NEW e \in 0..(j - 1),
         NoReturn(s, e, j), s[e + 1].i = 1,
         NEW b, Numbered(s, b)
  PROVE  Slcan!Message1(SubSeq(s, e + 1, j - 1)) = Run(b[e] + 1, b[j])
  <1>1. Stream(s) /\ s \in Seq(Unit) /\ Len(s) \in Nat
    BY SlcanStreamIs
  <1>2. PICK x \in 1..5, n \in Nat : x = s[j].len /\ n = s[j].n
    BY <1>1, UnitAt
  <1>3. PICK a : a = j - x
    OBVIOUS
  <1>4. /\ a \in e..j
        /\ \A k \in 1..Len(s) : e < k /\ k <= a => s[k].n = 0
        /\ \A k \in 1..Len(s) : a < k /\ k <= j => s[k].n = n /\ s[k].len = x /\ s[k].i = k - a
    <2>1. /\ j - s[j].len \in e..j
          /\ \A k \in 1..Len(s) : e < k /\ k <= j - s[j].len => s[k].n = 0
          /\ \A k \in 1..Len(s) : j - s[j].len < k /\ k <= j =>
                /\ s[k].n = s[j].n /\ s[k].len = s[j].len /\ s[k].i = k - (j - s[j].len)
      BY LineUnits
    <2>2. a = j - s[j].len
      BY <1>2, <1>3
    <2>3. QED
      BY <1>2, <2>1, <2>2
  <1>5. x > 1
    BY <1>2, SlcanAt
  <1> DEFINE t == SubSeq(s, e + 1, j - 1)
  <1>6. t \in Seq(Unit) /\ Len(t) = (j - 1) - e /\ \A k \in 1..((j - 1) - e) : t[k] = s[e + k]
    <2>1. e + 1 \in 1..(Len(s) + 1) /\ j - 1 \in ((e + 1) - 1)..Len(s) /\ (j - 1) - (e + 1) + 1 = (j - 1) - e
          /\ \A k \in 1..((j - 1) - e) : (e + 1) + k - 1 = e + k
      BY <1>1
    <2>2. /\ t \in Seq(Unit) /\ Len(t) = (j - 1) - (e + 1) + 1
          /\ \A k \in 1..((j - 1) - (e + 1) + 1) : t[k] = s[(e + 1) + k - 1]
      BY <1>1, <2>1, PartFacts
    <2> HIDE DEF t
    <2>3. QED
      BY <2>1, <2>2
  <1> HIDE DEF t
  <1>7. b[e] \in Nat /\ b[a] = b[e]
    <2>1. e \in 0..Len(s) /\ a \in e..Len(s)
      BY <1>1, <1>4
    <2>2. b[a] = b[e]
      BY <1>1, <1>4, <2>1, NumbersStay
    <2>3. QED
      BY <2>1, <2>2 DEF Numbered
  <1>8. CASE n = 0
    <2>1. \A k \in 1..Len(t) : t[k].n = 0
      <3>1. ASSUME NEW k \in 1..Len(t) PROVE t[k].n = 0
        <4>1. k \in 1..((j - 1) - e) /\ e + k \in 1..Len(s) /\ e < e + k /\ e + k <= j
          BY <1>1, <1>6
        <4>2. s[e + k].n = 0
          <5>1. e + k <= a \/ a < e + k
            BY <1>4, <4>1
          <5>2. QED
            BY <1>4, <1>8, <4>1, <5>1
        <4>3. QED
          BY <1>6, <4>1, <4>2
      <3>2. QED
        BY <3>1
    <2>2. Letters(t) = {}
      <3>1. ASSUME NEW k \in 1..Len(t) PROVE t[k].c \notin {"cmd", "F"}
        <4>1. k \in 1..((j - 1) - e) /\ e + k \in 1..Len(s)
          BY <1>1, <1>6
        <4>2. t[k] = s[e + k] /\ s[e + k].n = 0
          BY <1>6, <2>1, <4>1
        <4>3. s[e + k].c \in {"cmd", "F"} => s[e + k].n > 0
          BY <4>1, SlcanAt
        <4>4. QED
          BY <4>2, <4>3
      <3>2. QED
        BY <3>1 DEF Letters
    <2>3. Slcan!Message1(t) = << >>
      <3>1. Letter(t) = 0
        BY <2>2, LetterFacts
      <3>2. QED
        BY <3>1, Message1Is
    <2>4. b[j] = b[e]
      <3>1. \A k \in 1..Len(s) : e < k /\ k <= j => s[k].n = 0
        <4>1. \A k \in 1..Len(s) : k <= a \/ a < k
          BY <1>1, <1>4
        <4>2. QED
          BY <1>4, <1>8, <4>1
      <3>2. e \in 0..Len(s) /\ j \in e..Len(s)
        BY <1>1
      <3>3. QED
        BY <1>1, <3>1, <3>2, NumbersStay
    <2>5. Run(b[e] + 1, b[e]) = << >>
      BY <1>7, EmptyRun
    <2>6. QED
      BY <2>3, <2>4, <2>5 DEF t
  <1>9. CASE n > 0
    <2>1. x = 5
      BY <1>2, <1>9, SlcanAt
    <2>2. PICK p : p = (a + 1) - e
      OBVIOUS
    <2>3. p \in 1..Len(t) /\ e + p = a + 1 /\ a + 1 \in 1..Len(s) /\ a < a + 1 /\ a + 1 <= j
          /\ Len(t) - p + 1 = 4 /\ Len(t) \in Nat /\ (a + 1) - a = 1
      BY <1>1, <1>3, <1>4, <1>6, <2>1, <2>2
    <2>4. t[p] = s[a + 1] /\ s[a + 1].n = n /\ s[a + 1].i = 1 /\ s[a + 1].len = 5
      <3>1. p \in 1..((j - 1) - e)
        BY <1>6, <2>3
      <3>2. t[p] = s[e + p]
        BY <1>6, <3>1
      <3>3. s[a + 1].n = n /\ s[a + 1].len = x /\ s[a + 1].i = (a + 1) - a
        BY <1>4, <2>3
      <3>4. QED
        BY <2>1, <2>3, <3>2, <3>3
    <2>5. t[p].c = "cmd"
      <3>1. s[a + 1].c = "cmd" <=> s[a + 1].n > 0 /\ s[a + 1].i = 1
        BY <2>3, SlcanAt
      <3>2. QED
        BY <1>9, <2>4, <3>1
    <2>6. \A k \in 1..Len(t) : k < p => t[k].c \notin {"cmd", "F"}
      <3>1. ASSUME NEW k \in 1..Len(t), k < p PROVE t[k].c \notin {"cmd", "F"}
        <4>1. k \in 1..((j - 1) - e) /\ e + k \in 1..Len(s) /\ e < e + k /\ e + k <= a
          BY <1>1, <1>4, <1>6, <2>2, <3>1
        <4>2. t[k] = s[e + k] /\ s[e + k].n = 0
          BY <1>4, <1>6, <4>1
        <4>3. s[e + k].c \in {"cmd", "F"} => s[e + k].n > 0
          BY <4>1, SlcanAt
        <4>4. QED
          BY <4>2, <4>3
      <3>2. QED
        BY <3>1
    <2>7. Letter(t) = p
      <3>1. p \in Letters(t)
        BY <2>3, <2>5 DEF Letters
      <3>2. Letter(t) \in Letters(t) /\ Letter(t) <= p
        BY <3>1, LetterFacts
      <3>3. PICK l : l = Letter(t)
        OBVIOUS
      <3>4. l \in 1..Len(t) /\ t[l].c \in {"cmd", "F"} /\ l <= p
        BY <3>2, <3>3 DEF Letters
      <3>5. ~(l < p)
        BY <2>6, <3>4
      <3>6. QED
        BY <2>3, <3>3, <3>4, <3>5
    <2> DEFINE u == SubSeq(t, p, Len(t))
    <2>8. u \in Seq(Unit) /\ Len(u) = 4 /\ \A k \in 1..4 : u[k] = t[p + k - 1]
      <3>1. p \in 1..(Len(t) + 1) /\ Len(t) \in (p - 1)..Len(t)
        BY <2>3
      <3>2. /\ u \in Seq(Unit) /\ Len(u) = Len(t) - p + 1
            /\ \A k \in 1..(Len(t) - p + 1) : u[k] = t[p + k - 1]
        BY <1>6, <3>1, PartFacts
      <3> HIDE DEF u
      <3>3. QED
        BY <2>3, <3>2
    <2> HIDE DEF u
    <2>9. ASSUME NEW k \in 1..4 PROVE u[k].n = n /\ u[k].i = k
      <3>1. PICK m : m = a + k
        OBVIOUS
      <3>2. p + k - 1 \in 1..((j - 1) - e) /\ e + (p + k - 1) = m
        BY <1>1, <1>3, <1>4, <2>1, <2>2, <3>1
      <3>3. m \in 1..Len(s) /\ a < m /\ m <= j /\ m - a = k
        BY <1>1, <1>3, <1>4, <2>1, <3>1
      <3>4. u[k] = s[m]
        <4>1. t[p + k - 1] = s[e + (p + k - 1)]
          BY <1>6, <3>2
        <4>2. QED
          BY <2>8, <3>2, <4>1
      <3>5. s[m].n = n /\ s[m].i = m - a
        BY <1>4, <3>3
      <3>6. QED
        BY <3>3, <3>4, <3>5
    <2>10. Slcan!Message1(t) = <<n>>
      <3>1. DOMAIN u = 1..4
        BY <2>8
      <3>2. ~ \E k \in DOMAIN u : u[k].n # t[p].n \/ u[k].i # k
        BY <2>4, <2>9, <3>1
      <3>3. p # 0 /\ t[p].c # "F" /\ Len(u) = t[p].len - 1 /\ t[p].n = n
        BY <2>3, <2>4, <2>5, <2>8
      <3>4. Slcan!Message1(t) =
              IF p = 0 THEN << >>
              ELSE IF t[p].c = "F" THEN IF Len(u) >= 3 THEN <<Slcan!Torn>> ELSE << >>
              ELSE IF Len(u) # t[p].len - 1 THEN << >>
              ELSE IF \E k \in DOMAIN u : u[k].n # t[p].n \/ u[k].i # k THEN <<Slcan!Torn>>
              ELSE <<t[p].n>>
        BY <2>7, Message1Is DEF u
      <3>5. QED
        BY <3>2, <3>3, <3>4
    <2>11. b[j] = n /\ n = b[e] + 1
      <3>1. Numbers(s[a + 1], b[(a + 1) - 1], b[a + 1])
        BY <2>3 DEF Numbered
      <3>2. (a + 1) - 1 = a
        BY <1>3
      <3>3. n = b[a] + 1 /\ b[a + 1] = n
        BY <1>9, <2>4, <3>1, <3>2 DEF Numbers
      <3>4. b[j] = b[a + 1]
        <4>1. a + 1 \in 0..Len(s) /\ j \in (a + 1)..Len(s)
          BY <1>1, <2>3
        <4>2. ASSUME NEW k \in 1..Len(s), a + 1 < k, k <= j PROVE s[k].i # 1
          <5>1. s[k].i = k - a
            BY <1>4, <2>3, <4>2
          <5>2. QED
            BY <1>4, <4>2, <5>1
        <4>3. QED
          BY <1>1, <4>1, <4>2, NumbersStay
      <3>5. QED
        BY <1>7, <3>3, <3>4
    <2>12. Run(b[e] + 1, b[j]) = <<n>>
      <3>1. Run(n, n) = <<n>> \o Run(n + 1, n)
        BY <1>9, RunHead
      <3>2. Run(n + 1, n) = << >>
        BY EmptyRun
      <3>3. <<n>> \o << >> = <<n>>
        OBVIOUS
      <3>4. QED
        BY <2>11, <3>1, <3>2, <3>3
    <2>13. QED
      BY <2>10, <2>12 DEF t
  <1>10. QED
    BY <1>8, <1>9

\* The last return among the first j units is at e, 0 if there is none.
IsLast(s, e, j) == e \in 0..j /\ (e > 0 => s[e].c = "cr") /\ NoReturn(s, e, j + 1)

\* Behind it is a line that has no return yet.
LastReturn(s, j) == CHOOSE e \in 0..j : IsLast(s, e, j)

\* There is one such place.
LEMMA LastReturnFacts ==
  ASSUME NEW s \in Seq(Unit), NEW j \in 0..Len(s)
  PROVE  /\ LastReturn(s, j) \in 0..j /\ IsLast(s, LastReturn(s, j), j)
         /\ \A e \in 0..j : IsLast(s, e, j) => e = LastReturn(s, j)
  <1> DEFINE S == {m \in Nat : m <= Len(s) => \E e \in 0..m : IsLast(s, e, m)}
  <1>1. Len(s) \in Nat
    OBVIOUS
  <1>2. 0 \in S
    <2>1. IsLast(s, 0, 0)
      BY <1>1 DEF IsLast, NoReturn
    <2>2. QED
      BY <2>1
  <1>3. ASSUME NEW m \in Nat, m \in S PROVE m + 1 \in S
    <2>1. SUFFICES ASSUME m + 1 <= Len(s) PROVE \E e \in 0..(m + 1) : IsLast(s, e, m + 1)
      OBVIOUS
    <2>2. CASE s[m + 1].c = "cr"
      <3>1. NoReturn(s, m + 1, (m + 1) + 1)
        BY <1>1 DEF NoReturn
      <3>2. IsLast(s, m + 1, m + 1)
        BY <2>2, <3>1 DEF IsLast
      <3>3. QED
        BY <3>2
    <2>3. CASE s[m + 1].c # "cr"
      <3>1. PICK e \in 0..m : IsLast(s, e, m)
        BY <1>1, <1>3, <2>1
      <3>2. NoReturn(s, e, (m + 1) + 1)
        <4>1. NoReturn(s, e, m + 1)
          BY <3>1 DEF IsLast
        <4>2. ASSUME NEW k \in 1..Len(s), e < k, k < (m + 1) + 1 PROVE s[k].c # "cr"
          <5>1. k < m + 1 \/ k = m + 1
            BY <1>1, <4>2
          <5>2. QED
            BY <2>3, <4>1, <4>2, <5>1 DEF NoReturn
        <4>3. QED
          BY <4>2 DEF NoReturn
      <3>3. e \in 0..(m + 1)
        OBVIOUS
      <3>4. IsLast(s, e, m + 1)
        BY <3>1, <3>2, <3>3 DEF IsLast
      <3>5. QED
        BY <3>3, <3>4
    <2>4. QED
      BY <2>2, <2>3
  <1>4. j \in S
    <2> HIDE DEF S
    <2>1. Nat \subseteq S
      BY <1>2, <1>3, Induction
    <2>2. QED
      BY <1>1, <2>1
  <1>5. \E e \in 0..j : IsLast(s, e, j)
    BY <1>1, <1>4
  <1>6. PICK f : f = LastReturn(s, j)
    OBVIOUS
  <1>7. f \in 0..j /\ IsLast(s, f, j)
    BY <1>5, <1>6 DEF LastReturn
  <1>8. ASSUME NEW e \in 0..j, IsLast(s, e, j) PROVE e = f
    <2>1. ~(e < f)
      <3>1. SUFFICES ASSUME e < f PROVE FALSE
        OBVIOUS
      <3>2. f \in 1..Len(s) /\ f > 0 /\ f < j + 1
        BY <1>1, <1>7, <3>1
      <3>3. s[f].c = "cr"
        BY <1>7, <3>2 DEF IsLast
      <3>4. NoReturn(s, e, j + 1)
        BY <1>8 DEF IsLast
      <3>5. QED
        BY <3>1, <3>2, <3>3, <3>4 DEF NoReturn
    <2>2. ~(f < e)
      <3>1. SUFFICES ASSUME f < e PROVE FALSE
        OBVIOUS
      <3>2. e \in 1..Len(s) /\ e > 0 /\ e < j + 1
        BY <1>1, <1>7, <3>1
      <3>3. s[e].c = "cr"
        BY <1>8, <3>2 DEF IsLast
      <3>4. NoReturn(s, f, j + 1)
        BY <1>7 DEF IsLast
      <3>5. QED
        BY <3>1, <3>2, <3>3, <3>4 DEF NoReturn
    <2>3. QED
      BY <1>7, <2>1, <2>2
  <1>9. QED
    BY <1>6, <1>7, <1>8

\* A return is the last one of the units up to it, other units leave it where it was.
LEMMA LastReturnNext ==
  ASSUME NEW s \in Seq(Unit), NEW j \in 0..Len(s), j + 1 <= Len(s)
  PROVE  LastReturn(s, j + 1) = IF s[j + 1].c = "cr" THEN j + 1 ELSE LastReturn(s, j)
  <1>1. Len(s) \in Nat /\ j + 1 \in 0..Len(s) /\ j + 1 \in 0..(j + 1)
    OBVIOUS
  <1>2. CASE s[j + 1].c = "cr"
    <2>1. NoReturn(s, j + 1, (j + 1) + 1)
      BY <1>1 DEF NoReturn
    <2>2. IsLast(s, j + 1, j + 1)
      BY <1>1, <1>2, <2>1 DEF IsLast
    <2>3. j + 1 = LastReturn(s, j + 1)
      BY <1>1, <2>2, LastReturnFacts
    <2>4. QED
      BY <1>2, <2>3
  <1>3. CASE s[j + 1].c # "cr"
    <2>1. PICK e : e = LastReturn(s, j)
      OBVIOUS
    <2>2. e \in 0..j /\ IsLast(s, e, j)
      BY <2>1, LastReturnFacts
    <2>3. NoReturn(s, e, (j + 1) + 1)
      <3>1. NoReturn(s, e, j + 1)
        BY <2>2 DEF IsLast
      <3>2. ASSUME NEW k \in 1..Len(s), e < k, k < (j + 1) + 1 PROVE s[k].c # "cr"
        <4>1. k < j + 1 \/ k = j + 1
          BY <1>1, <3>2
        <4>2. QED
          BY <1>3, <3>1, <3>2, <4>1 DEF NoReturn
      <3>3. QED
        BY <3>2 DEF NoReturn
    <2>4. e \in 0..(j + 1)
      BY <2>2
    <2>5. IsLast(s, e, j + 1)
      BY <2>2, <2>3, <2>4 DEF IsLast
    <2>6. e = LastReturn(s, j + 1)
      BY <1>1, <2>4, <2>5, LastReturnFacts
    <2>7. QED
      BY <1>3, <2>1, <2>6
  <1>4. QED
    BY <1>2, <1>3

\* A line is read as its frames, the first one with the piece that a flush left.
LEMMA LineMessage ==
  ASSUME NEW s, SlcanStream(s), Ends(s), NEW b, Numbered(s, b),
         NEW j \in 1..Len(s), s[j].c = "cr", NEW e \in 0..(j - 1),
         NoReturn(s, e, j), e > 0 => s[e].c = "cr"
  PROVE  Slcan!Message1(SubSeq(s, e + 1, j - 1))
           = (IF e = 0 THEN Piece(s) ELSE << >>) \o Run(b[e] + 1, b[j])
  <1>1. Stream(s) /\ s \in Seq(Unit) /\ Len(s) \in Nat
    BY SlcanStreamIs
  <1>2. b[e] \in Nat /\ b[j] \in Nat
    <2>1. e \in 0..Len(s) /\ j \in 0..Len(s)
      BY <1>1
    <2>2. QED
      BY <2>1 DEF Numbered
  <1>3. Run(b[e] + 1, b[j]) \in Seq(Nat)
    <2>1. b[e] + 1 \in Nat
      BY <1>2
    <2>2. QED
      BY <1>2, <2>1, RunFacts
  <1>4. << >> \o Run(b[e] + 1, b[j]) = Run(b[e] + 1, b[j])
    BY <1>3, ConcatEmptySeq
  <1>5. CASE e > 0
    <2>1. s[e + 1].i = 1
      <3>1. e \in 1..Len(s) /\ e + 1 <= Len(s)
        BY <1>1, <1>5
      <3>2. s[e].i = s[e].len
        BY <1>5, <3>1, SlcanAt
      <3>3. Follows(s[e], s[e + 1])
        BY <1>1, <3>1 DEF Stream
      <3>4. s[e].i \in 1..5
        BY <1>1, <3>1, UnitAt
      <3>5. QED
        BY <3>2, <3>3, <3>4 DEF Follows
    <2>2. Slcan!Message1(SubSeq(s, e + 1, j - 1)) = Run(b[e] + 1, b[j])
      BY <2>1, LineIs
    <2>3. e # 0
      BY <1>5
    <2>4. QED
      BY <1>4, <2>2, <2>3, Zenon
  <1>6. CASE e = 0 /\ s[1].i = 1
    <2>1. Begins(s)
      BY <1>6 DEF Begins
    <2>2. Piece(s) = << >>
      BY <1>1, <2>1, NoPiece
    <2>3. s[e + 1].i = 1
      BY <1>6
    <2>4. Slcan!Message1(SubSeq(s, e + 1, j - 1)) = Run(b[e] + 1, b[j])
      BY <2>3, LineIs
    <2>5. QED
      BY <1>4, <1>6, <2>2, <2>4
  <1>7. CASE e = 0 /\ s[1].i # 1
    <2>1. Len(s) > 0
      BY <1>1
    <2>2. PICK m \in 1..Len(s) : /\ s[m].i = s[m].len /\ s[m].len > 1
                                 /\ \A k \in 1..m : s[k].i # 1
                                 /\ \A k \in 1..m : k < m => s[k].i < s[k].len
      BY <1>1, <1>7, <2>1, FirstEnd
    <2>3. s[m].c = "cr"
      BY <2>2, SlcanAt
    <2>4. ~(m < j)
      BY <1>7, <2>3 DEF NoReturn
    <2>5. ~(j < m)
      <3>1. SUFFICES ASSUME j < m PROVE FALSE
        OBVIOUS
      <3>2. j \in 1..m
        BY <1>1, <3>1
      <3>3. s[j].i < s[j].len
        BY <2>2, <3>1, <3>2
      <3>4. s[j].i = s[j].len
        BY SlcanAt
      <3>5. s[j].i \in 1..5
        BY <1>1, UnitAt
      <3>6. QED
        BY <3>3, <3>4, <3>5
    <2>6. m = j
      BY <1>1, <2>4, <2>5
    <2>7. \A k \in 1..j : s[k].i # 1
      BY <2>2, <2>6
    <2>8. Piece(s) = Slcan!Message1(SubSeq(s, 1, j - 1))
      <3>1. s[j].i = s[j].len
        BY <2>2, <2>6
      <3>2. QED
        BY <1>1, <2>7, <3>1, PieceIs
    <2>9. b[j] = b[0]
      <3>1. 0 \in 0..Len(s) /\ j \in 0..Len(s)
        BY <1>1
      <3>2. \A k \in 1..Len(s) : 0 < k /\ k <= j => s[k].i # 1
        <4>1. \A k \in 1..Len(s) : k <= j => k \in 1..j
          BY <1>1
        <4>2. QED
          BY <2>7, <4>1
      <3>3. QED
        BY <1>1, <3>1, <3>2, NumbersStay
    <2>10. Run(b[0] + 1, b[0]) = << >>
      BY <1>2, <1>7, EmptyRun
    <2>11. Piece(s) \o << >> = Piece(s)
      <3>1. Piece(s) \in {<< >>, <<Torn>>} /\ Torn \in Nat
        BY PieceIsTorn DEF Torn
      <3>2. Piece(s) \in Seq(Nat)
        <4>1. << >> \in Seq(Nat) /\ <<Torn>> \in Seq(Nat)
          BY <3>1
        <4>2. QED
          BY <3>1, <4>1, Zenon
      <3>3. QED
        BY <3>2, ConcatEmptySeq
    <2>12. Run(b[e] + 1, b[j]) = << >>
      BY <1>7, <2>9, <2>10
    <2>13. SubSeq(s, e + 1, j - 1) = SubSeq(s, 1, j - 1)
      BY <1>7
    <2>14. QED
      BY <1>7, <2>8, <2>11, <2>12, <2>13
  <1>8. e > 0 \/ e = 0
    OBVIOUS
  <1>9. QED
    BY <1>5, <1>6, <1>7, <1>8, Zenon

\* What recv_many() of the slcan driver has made of the first j units.
Read(s, b, j) ==
  [frames |-> (IF LastReturn(s, j) = 0 THEN << >> ELSE Piece(s)) \o Run(b[0] + 1, b[LastReturn(s, j)]),
   part |-> SubSeq(s, LastReturn(s, j) + 1, j)]

\* A piece is read as numbers of frames.
LEMMA PieceIsSeq ==
  ASSUME NEW s, SlcanStream(s), Ends(s)
  PROVE  Piece(s) \in Seq(Nat)
  <1>1. Piece(s) \in {<< >>, <<Torn>>} /\ Torn \in Nat
    BY PieceIsTorn DEF Torn
  <1>2. << >> \in Seq(Nat) /\ <<Torn>> \in Seq(Nat)
    BY <1>1
  <1>3. QED
    BY <1>1, <1>2, Zenon

\* One character more, as recv_many() takes it.
LEMMA ReadNext ==
  ASSUME NEW s, SlcanStream(s), Ends(s), NEW b, Numbered(s, b), NEW j \in 0..Len(s), j + 1 <= Len(s)
  PROVE  Read(s, b, j + 1) =
           IF s[j + 1].c = "cr"
           THEN [frames |-> Read(s, b, j).frames \o Slcan!Message1(Read(s, b, j).part), part |-> << >>]
           ELSE [frames |-> Read(s, b, j).frames, part |-> Append(Read(s, b, j).part, s[j + 1])]
  <1>1. Stream(s) /\ s \in Seq(Unit) /\ Len(s) \in Nat
    BY SlcanStreamIs
  <1>2. PICK e : e = LastReturn(s, j)
    OBVIOUS
  <1>3. e \in 0..j /\ IsLast(s, e, j)
    BY <1>1, <1>2, LastReturnFacts
  <1>4. LastReturn(s, j + 1) = IF s[j + 1].c = "cr" THEN j + 1 ELSE e
    BY <1>1, <1>2, LastReturnNext
  <1>5. PICK fr, pt : fr = (IF e = 0 THEN << >> ELSE Piece(s)) \o Run(b[0] + 1, b[e])
                      /\ pt = SubSeq(s, e + 1, j)
    OBVIOUS
  <1>6. Read(s, b, j) = [frames |-> fr, part |-> pt]
    BY <1>2, <1>5 DEF Read
  <1>7. Read(s, b, j).frames = fr /\ Read(s, b, j).part = pt
    BY <1>6
  <1>8. CASE s[j + 1].c = "cr"
    <2>1. Slcan!Message1(pt) = (IF e = 0 THEN Piece(s) ELSE << >>) \o Run(b[e] + 1, b[j + 1])
      <3>1. j + 1 \in 1..Len(s) /\ e \in 0..((j + 1) - 1) /\ (j + 1) - 1 = j
        BY <1>1, <1>3
      <3>2. NoReturn(s, e, j + 1) /\ (e > 0 => s[e].c = "cr")
        BY <1>3 DEF IsLast
      <3>3. Slcan!Message1(SubSeq(s, e + 1, (j + 1) - 1))
              = (IF e = 0 THEN Piece(s) ELSE << >>) \o Run(b[e] + 1, b[j + 1])
        BY <1>8, <3>1, <3>2, LineMessage
      <3>4. QED
        BY <1>5, <3>1, <3>3
    <2>2. b[0] \in Nat /\ b[e] \in Nat /\ b[j + 1] \in Nat /\ b[0] <= b[e] /\ b[e] <= b[j + 1]
      <3>1. 0 \in 0..Len(s) /\ e \in 0..Len(s) /\ j + 1 \in e..Len(s)
        BY <1>1, <1>3
      <3>2. b[0] \in Nat /\ b[e] \in Nat /\ b[0] <= b[e]
        BY <1>1, <3>1, NumbersGrow
      <3>3. b[j + 1] \in Nat /\ b[e] <= b[j + 1]
        BY <1>1, <3>1, NumbersGrow
      <3>4. QED
        BY <3>2, <3>3
    <2>3. PICK x \in Nat, y \in Nat, z \in Nat : x = b[0] /\ y = b[e] /\ z = b[j + 1]
      BY <2>2
    <2>4. x + 1 \in Nat /\ x + 1 <= y + 1 /\ y <= z /\ y + 1 \in Nat
      BY <2>2, <2>3
    <2>5. /\ Run(x + 1, y) \in Seq(Nat) /\ Run(y + 1, z) \in Seq(Nat) /\ Run(x + 1, z) \in Seq(Nat)
          /\ Run(x + 1, y) \o Run(y + 1, z) = Run(x + 1, z)
      BY <2>4, RunFacts, RunCat
    <2>6. Piece(s) \in Seq(Nat)
      BY PieceIsSeq
    <2>7. fr \o Slcan!Message1(pt) = Piece(s) \o Run(x + 1, z)
      <3>1. CASE e = 0
        <4>1. Run(x + 1, x) = << >>
          BY EmptyRun
        <4>2. fr = << >>
          <5>1. y = x
            BY <2>3, <3>1
          <5>2. fr = << >> \o << >>
            BY <1>5, <2>3, <3>1, <4>1
          <5>3. << >> \o << >> = << >>
            OBVIOUS
          <5>4. QED
            BY <5>2, <5>3
        <4>3. Slcan!Message1(pt) = Piece(s) \o Run(x + 1, z)
          BY <2>1, <2>3, <3>1
        <4>4. Piece(s) \o Run(x + 1, z) \in Seq(Nat)
          BY <2>5, <2>6, ConcatProperties
        <4>5. << >> \o (Piece(s) \o Run(x + 1, z)) = Piece(s) \o Run(x + 1, z)
          BY <4>4, ConcatEmptySeq
        <4>6. QED
          BY <4>2, <4>3, <4>5
      <3>2. CASE e # 0
        <4>1. fr = Piece(s) \o Run(x + 1, y)
          BY <1>5, <2>3, <3>2
        <4>2. Slcan!Message1(pt) = Run(y + 1, z)
          <5>1. << >> \o Run(y + 1, z) = Run(y + 1, z)
            BY <2>5, ConcatEmptySeq
          <5>2. Slcan!Message1(pt) = << >> \o Run(y + 1, z)
            BY <2>1, <2>3, <3>2
          <5>3. QED
            BY <5>1, <5>2
        <4>3. (Piece(s) \o Run(x + 1, y)) \o Run(y + 1, z) = Piece(s) \o (Run(x + 1, y) \o Run(y + 1, z))
          <5>1. Run(x + 1, y) \in Seq(Nat) /\ Run(y + 1, z) \in Seq(Nat)
            BY <2>5
          <5>2. QED
            BY <2>6, <5>1, ConcatAssociative, SMTT(30)
        <4>4. QED
          BY <2>5, <4>1, <4>2, <4>3
      <3>3. QED
        BY <3>1, <3>2
    <2>8. j + 1 # 0 /\ LastReturn(s, j + 1) = j + 1
      BY <1>4, <1>8
    <2>9. SubSeq(s, (j + 1) + 1, j + 1) = << >>
      <3>1. j + 1 < (j + 1) + 1 /\ j + 1 \in Int /\ (j + 1) + 1 \in Int
        OBVIOUS
      <3>2. QED
        BY <3>1, SubSeqEmpty
    <2>10. Read(s, b, j + 1) = [frames |-> Piece(s) \o Run(x + 1, z), part |-> << >>]
      BY <2>3, <2>8, <2>9 DEF Read
    <2>11. QED
      BY <1>7, <1>8, <2>7, <2>10
  <1>9. CASE s[j + 1].c # "cr"
    <2>1. LastReturn(s, j + 1) = e
      BY <1>4, <1>9
    <2>2. SubSeq(s, e + 1, j + 1) = Append(pt, s[j + 1])
      <3> DEFINE m == e + 1
                 n == j + 1
      <3>1. m \in 1..Len(s) /\ n \in m..Len(s) /\ n - 1 = j
        BY <1>1, <1>3
      <3>2. SubSeq(s, m, n) = SubSeq(s, m, n - 1) \o <<s[n]>>
        BY <1>1, <3>1, SubSeqRecursiveSecond
      <3>3. pt \in Seq(Unit) /\ s[n] \in Unit
        <4>1. m \in 1..(Len(s) + 1) /\ j \in (m - 1)..Len(s) /\ n \in 1..Len(s)
          BY <1>1, <1>3
        <4>2. SubSeq(s, m, j) \in Seq(Unit)
          BY <1>1, <4>1, PartFacts
        <4>3. s[n] \in Unit
          BY <1>1, <4>1, UnitAt
        <4>4. QED
          BY <1>5, <4>2, <4>3
      <3>4. Append(pt, s[n]) = pt \o <<s[n]>>
        BY <3>3, AppendIsConcat
      <3>5. QED
        BY <1>5, <3>1, <3>2, <3>4
    <2>3. Read(s, b, j + 1) = [frames |-> fr, part |-> Append(pt, s[j + 1])]
      BY <1>5, <2>1, <2>2 DEF Read
    <2>4. QED
      BY <1>7, <1>9, <2>3
  <1>10. QED
    BY <1>8, <1>9

\* Character by character, recv_many() makes of the units what Read says.
LEMMA LinesAre ==
  ASSUME NEW s, SlcanStream(s), Ends(s), NEW b, Numbered(s, b),
         NEW x \in Nat, NEW pt, pt = SubSeq(s, 1, x), NoReturn(s, 0, x + 1),
         NEW chars \in Seq(Unit), x + Len(chars) <= Len(s),
         \A m \in 1..Len(chars) : chars[m] = s[x + m]
  PROVE  Slcan!Lines(pt, chars) = Read(s, b, x + Len(chars))
  <1> DEFINE M == Len(chars)
             start == [frames |-> << >>, part |-> pt]
             next(r, j) == IF chars[j].c = "cr"
                           THEN [frames |-> r.frames \o Slcan!Message1(r.part), part |-> << >>]
                           ELSE [frames |-> r.frames, part |-> Append(r.part, chars[j])]
             Eq(f) == f = [j \in 0..M |-> IF j = 0 THEN start ELSE next(f[j - 1], j)]
             g == [j \in 0..M |-> Read(s, b, x + j)]
  <1>1. Stream(s) /\ s \in Seq(Unit) /\ Len(s) \in Nat /\ M \in Nat
    BY SlcanStreamIs
  <1>2. g = [j \in 0..M |-> g[j]] /\ \A j \in 0..M : g[j] = Read(s, b, x + j)
    OBVIOUS
  <1> HIDE DEF g
  <1>3. g[0] = start
    <2>1. IsLast(s, 0, x)
      BY DEF IsLast
    <2>2. 0 \in 0..x /\ x \in 0..Len(s)
      BY <1>1
    <2>3. 0 = LastReturn(s, x)
      BY <1>1, <2>1, <2>2, LastReturnFacts
    <2>4. b[0] \in Nat
      <3>1. 0 \in 0..Len(s)
        BY <1>1
      <3>2. QED
        BY <3>1 DEF Numbered
    <2>5. Run(b[0] + 1, b[0]) = << >>
      BY <2>4, EmptyRun
    <2>6. Read(s, b, x) = [frames |-> << >> \o << >>, part |-> SubSeq(s, 0 + 1, x)]
      BY <2>3, <2>5 DEF Read
    <2>7. << >> \o << >> = << >> /\ 0 + 1 = 1
      OBVIOUS
    <2>8. 0 \in 0..M /\ x + 0 = x
      BY <1>1
    <2>9. QED
      BY <1>2, <2>6, <2>7, <2>8
  <1>4. ASSUME NEW j \in 0..M, j # 0 PROVE g[j] = next(g[j - 1], j)
    <2>1. PICK i : i = x + (j - 1)
      OBVIOUS
    <2>2. i \in 0..Len(s) /\ i + 1 <= Len(s) /\ i + 1 = x + j /\ j - 1 \in 0..M /\ j \in 1..M
      BY <1>1, <1>4, <2>1
    <2>3. chars[j] = s[i + 1]
      BY <2>2
    <2>4. g[j] = Read(s, b, i + 1) /\ g[j - 1] = Read(s, b, i)
      BY <1>2, <2>1, <2>2
    <2>5. Read(s, b, i + 1) =
            IF s[i + 1].c = "cr"
            THEN [frames |-> Read(s, b, i).frames \o Slcan!Message1(Read(s, b, i).part), part |-> << >>]
            ELSE [frames |-> Read(s, b, i).frames, part |-> Append(Read(s, b, i).part, s[i + 1])]
      BY <2>2, ReadNext
    <2>6. QED
      BY <2>3, <2>4, <2>5
  <1> HIDE DEF next
  <1>5. Eq(g)
    <2>1. \A j \in 0..M : g[j] = IF j = 0 THEN start ELSE next(g[j - 1], j)
      BY <1>3, <1>4
    <2>2. QED
      BY <1>2, <2>1
  <1>6. ASSUME NEW f, Eq(f)
        PROVE  f[M] = g[M]
    <2> DEFINE S == {m \in Nat : m <= M => f[m] = g[m]}
    <2>1. \A j \in 0..M : f[j] = IF j = 0 THEN start ELSE next(f[j - 1], j)
      BY <1>6
    <2>2. 0 \in S
      <3>1. 0 \in 0..M
        BY <1>1
      <3>2. f[0] = start
        BY <2>1, <3>1
      <3>3. QED
        BY <1>3, <3>2
    <2>3. ASSUME NEW m \in Nat, m \in S PROVE m + 1 \in S
      <3>1. SUFFICES ASSUME m + 1 <= M PROVE f[m + 1] = g[m + 1]
        OBVIOUS
      <3>2. m + 1 \in 0..M /\ m + 1 # 0 /\ (m + 1) - 1 = m /\ m <= M
        <4>1. m <= M /\ m + 1 <= M /\ M \in Nat
          BY <1>1, <3>1
        <4> HIDE DEF M, S, Eq
        <4>2. QED
          BY <4>1
      <3>3. f[m] = g[m]
        BY <2>3, <3>2
      <3>4. f[m + 1] = next(f[m], m + 1)
        BY <2>1, <3>2
      <3>5. g[m + 1] = next(g[m], m + 1)
        BY <1>4, <3>2
      <3>6. QED
        BY <3>3, <3>4, <3>5
    <2>4. M \in S
      <3> HIDE DEF S
      <3>1. QED
        BY <1>1, <2>2, <2>3, Induction
    <2>5. QED
      BY <1>1, <2>4
  <1>7. Slcan!Lines(pt, chars) = (CHOOSE f : Eq(f))[M]
    BY DEF Slcan!Lines, next
  <1> HIDE DEF Eq
  <1>8. Eq(CHOOSE f : Eq(f))
    BY <1>5
  <1>9. Slcan!Lines(pt, chars) = g[M]
    BY <1>6, <1>7, <1>8
  <1>10. g[M] = Read(s, b, x + M)
    BY <1>1, <1>2
  <1>11. QED
    BY <1>9, <1>10

-----------------------------------------------------------------------------
(* What is no frame.                                                        *)

\* The units that are of no frame.
NoisyAt(s) == {j \in DOMAIN s : s[j].n = 0}

\* They can be counted.
LEMMA NoisyIs ==
  ASSUME NEW s \in Seq(Unit)
  PROVE  /\ NoisyAt(s) = {j \in 1..Len(s) : s[j].n = 0}
         /\ IsFiniteSet(NoisyAt(s)) /\ Noisy(s) = Cardinality(NoisyAt(s)) /\ Noisy(s) \in Nat
  <1>1. DOMAIN s = 1..Len(s) /\ Len(s) \in Nat
    OBVIOUS
  <1>2. NoisyAt(s) = {j \in 1..Len(s) : s[j].n = 0}
    BY <1>1 DEF NoisyAt
  <1>3. IsFiniteSet(1..Len(s))
    BY <1>1, FS_Interval
  <1>4. NoisyAt(s) \in SUBSET (1..Len(s))
    BY <1>2
  <1>5. IsFiniteSet(NoisyAt(s))
    BY <1>3, <1>4, FS_Subset
  <1>6. Noisy(s) = Cardinality(NoisyAt(s))
    BY DEF Noisy, NoisyAt
  <1>7. QED
    BY <1>2, <1>5, <1>6, FS_CardinalityType

\* Units put behind others add at most themselves.
LEMMA NoisyAppend ==
  ASSUME NEW s \in Seq(Unit), NEW t \in Seq(Unit)
  PROVE  /\ Noisy(s \o t) <= Noisy(s) + Len(t)
         /\ (\A k \in 1..Len(t) : t[k].n > 0) => Noisy(s \o t) <= Noisy(s)
  <1> DEFINE u == s \o t
             L == Len(s)
             M == Len(t)
             A == NoisyAt(s)
             B == (L + 1)..(L + M)
             C == NoisyAt(u)
  <1>1. L \in Nat /\ M \in Nat
    OBVIOUS
  <1>2. /\ u \in Seq(Unit) /\ Len(u) = L + M
        /\ \A k \in 1..L : u[k] = s[k]
        /\ \A k \in 1..M : u[L + k] = t[k]
    BY CatFacts
  <1> HIDE DEF u
  <1>3. /\ A = {j \in 1..L : s[j].n = 0} /\ IsFiniteSet(A) /\ Noisy(s) = Cardinality(A) /\ Noisy(s) \in Nat
    BY NoisyIs
  <1>4. /\ C = {j \in 1..(L + M) : u[j].n = 0} /\ IsFiniteSet(C) /\ Noisy(u) = Cardinality(C) /\ Noisy(u) \in Nat
    BY <1>2, NoisyIs
  <1>5. IsFiniteSet(B) /\ Cardinality(B) = M
    <2>1. L + 1 \in Int /\ L + M \in Int
      BY <1>1
    <2>2. IsFiniteSet(B) /\ Cardinality(B) = IF L + 1 > L + M THEN 0 ELSE (L + M) - (L + 1) + 1
      BY <2>1, FS_Interval
    <2> HIDE DEF B
    <2>3. QED
      BY <1>1, <2>2
  <1>6. C \subseteq A \cup B
    <2>1. ASSUME NEW j \in C PROVE j \in A \cup B
      <3>1. j \in 1..(L + M) /\ u[j].n = 0
        BY <1>4
      <3>2. CASE j <= L
        <4>1. j \in 1..L /\ u[j] = s[j]
          BY <1>1, <1>2, <3>1, <3>2
        <4>2. QED
          BY <1>3, <3>1, <4>1
      <3>3. CASE j > L
        <4>1. j \in B
          BY <1>1, <3>1, <3>3
        <4>2. QED
          BY <4>1
      <3>4. QED
        BY <1>1, <3>1, <3>2, <3>3
    <2>2. QED
      BY <2>1
  <1>7. (\A k \in 1..M : t[k].n > 0) => C \subseteq A
    <2>1. ASSUME \A k \in 1..M : t[k].n > 0, NEW j \in C PROVE j \in A
      <3>1. j \in 1..(L + M) /\ u[j].n = 0
        BY <1>4
      <3>2. CASE j <= L
        <4>1. j \in 1..L /\ u[j] = s[j]
          BY <1>1, <1>2, <3>1, <3>2
        <4>2. QED
          BY <1>3, <3>1, <4>1
      <3>3. CASE j > L
        <4>1. PICK k \in 1..M : j = L + k
          <5>1. j - L \in 1..M /\ j = L + (j - L)
            BY <1>1, <3>1, <3>3
          <5>2. QED
            BY <5>1
        <4>2. u[j] = t[k] /\ t[k].n > 0
          BY <1>2, <2>1, <4>1
        <4>3. QED
          BY <3>1, <4>2
      <3>4. QED
        BY <1>1, <3>1, <3>2, <3>3
    <2>2. QED
      BY <2>1
  <1> HIDE DEF A, B, C
  <1>8. Cardinality(A \cup B) <= Cardinality(A) + Cardinality(B) /\ IsFiniteSet(A \cup B)
    <2>1. /\ IsFiniteSet(A \cup B)
          /\ Cardinality(A \cup B) = Cardinality(A) + Cardinality(B) - Cardinality(A \cap B)
      BY <1>3, <1>5, FS_Union
    <2>2. IsFiniteSet(A \cap B)
      BY <1>3, FS_Intersection
    <2>3. Cardinality(A \cap B) \in Nat /\ Cardinality(A) \in Nat
      BY <1>3, <2>2, FS_CardinalityType
    <2>4. QED
      BY <1>1, <1>5, <2>1, <2>3
  <1>9. Noisy(u) <= Noisy(s) + M
    <2>1. Cardinality(C) <= Cardinality(A \cup B)
      <3>1. C \in SUBSET (A \cup B)
        BY <1>6
      <3>2. QED
        BY <1>8, <3>1, FS_Subset
    <2>2. Cardinality(A \cup B) \in Nat
      BY <1>8, FS_CardinalityType
    <2>3. QED
      BY <1>1, <1>3, <1>4, <1>5, <1>8, <2>1, <2>2
  <1>10. C \subseteq A => Noisy(u) <= Noisy(s)
    <2>1. SUFFICES ASSUME C \subseteq A PROVE Noisy(u) <= Noisy(s)
      OBVIOUS
    <2>2. C \in SUBSET A
      BY <2>1
    <2>3. Cardinality(C) <= Cardinality(A)
      BY <1>3, <2>2, FS_Subset
    <2>4. QED
      BY <1>3, <1>4, <2>3
  <1>11. QED
    BY <1>7, <1>9, <1>10 DEF u

\* A rest has no more of them.
LEMMA NoisyRest ==
  ASSUME NEW s \in Seq(Unit), NEW e \in 0..Len(s)
  PROVE  Noisy(SubSeq(s, e + 1, Len(s))) <= Noisy(s)
  <1> DEFINE t == SubSeq(s, e + 1, Len(s))
             L == Len(s)
             A == NoisyAt(s)
             B == NoisyAt(t)
             f == [k \in B |-> e + k]
  <1>1. L \in Nat
    OBVIOUS
  <1>2. t \in Seq(Unit) /\ Len(t) = L - e /\ \A k \in 1..(L - e) : t[k] = s[e + k]
    <2>1. /\ e + 1 \in 1..(L + 1) /\ L \in ((e + 1) - 1)..L /\ L - (e + 1) + 1 = L - e
          /\ \A k \in 1..(L - e) : (e + 1) + k - 1 = e + k
      BY <1>1
    <2>2. /\ t \in Seq(Unit) /\ Len(t) = L - (e + 1) + 1
          /\ \A k \in 1..(L - (e + 1) + 1) : t[k] = s[(e + 1) + k - 1]
      BY <2>1, PartFacts
    <2> HIDE DEF t
    <2>3. QED
      BY <2>1, <2>2
  <1> HIDE DEF t
  <1>3. A = {j \in 1..L : s[j].n = 0} /\ IsFiniteSet(A) /\ Noisy(s) = Cardinality(A)
    BY NoisyIs
  <1>4. B = {j \in 1..(L - e) : t[j].n = 0} /\ Noisy(t) = Cardinality(B)
    BY <1>2, NoisyIs
  <1> HIDE DEF A, B
  <1>5. f \in Injection(B, A)
    <2>1. ASSUME NEW k \in B PROVE e + k \in A
      <3>1. k \in 1..(L - e) /\ t[k].n = 0 /\ t[k] = s[e + k]
        BY <1>2, <1>4
      <3>2. e + k \in 1..L
        BY <1>1, <3>1
      <3>3. QED
        BY <1>3, <3>1, <3>2
    <2>2. \A j, k \in B : f[j] = f[k] => j = k
      <3>1. \A k \in B : f[k] = e + k /\ k \in Nat
        BY <1>4
      <3> HIDE DEF f
      <3>2. QED
        BY <1>1, <3>1
    <2>3. f \in [B -> A]
      BY <2>1
    <2> HIDE DEF f
    <2>4. QED
      BY <2>2, <2>3 DEF Injection, IsInjective
  <1> HIDE DEF f
  <1>6. Cardinality(B) <= Cardinality(A)
    BY <1>3, <1>5, FS_Injection
  <1>7. QED
    BY <1>3, <1>4, <1>6 DEF t

\* Between two returns there is one message at most, beside what rings the bell.
LEMMA KeptLength ==
  ASSUME NEW s, SlcanStream(s), NEW j \in 0..Len(s)
  PROVE  j - LastReturn(s, j) <= Noisy(s) + 4
  <1>1. Stream(s) /\ s \in Seq(Unit) /\ Len(s) \in Nat
    BY SlcanStreamIs
  <1>2. PICK e : e = LastReturn(s, j)
    OBVIOUS
  <1>3. e \in 0..j /\ NoReturn(s, e, j + 1)
    BY <1>1, <1>2, LastReturnFacts DEF IsLast
  <1> DEFINE A == NoisyAt(s)
             B == (e + 1)..(j - 4)
  <1>4. A = {k \in 1..Len(s) : s[k].n = 0} /\ IsFiniteSet(A) /\ Noisy(s) = Cardinality(A) /\ Noisy(s) \in Nat
    BY <1>1, NoisyIs
  <1>5. ASSUME NEW k \in B PROVE k \in A
    <2>1. k \in 1..Len(s) /\ e < k /\ k <= j - 4
      BY <1>1, <1>3
    <2>2. SUFFICES ASSUME s[k].n # 0 PROVE FALSE
      BY <1>4, <2>1
    <2>3. PICK x \in 1..5 : x = s[k].i
      BY <1>1, <2>1, UnitAt
    <2>4. s[k].len = 5
      <3>1. s[k].n \in Nat
        BY <1>1, <2>1, UnitAt
      <3>2. s[k].n > 0
        BY <2>2, <3>1
      <3>3. QED
        BY <2>1, <3>2, SlcanAt
    <2>5. PICK d, m : d = 5 - x /\ m = k + d
      OBVIOUS
    <2>6. d \in Nat /\ k + d = m /\ m \in 1..Len(s) /\ e < m /\ m < j + 1 /\ k + d <= Len(s) /\ x + d = 5
      BY <1>1, <1>3, <2>1, <2>5
    <2>7. s[k].i + d <= s[k].len
      BY <2>3, <2>4, <2>6
    <2>8. s[k + d].i = s[k].i + d /\ s[k + d].len = s[k].len
      BY <1>1, <2>1, <2>6, <2>7, MessageGoesOn
    <2>9. s[m].i = 5 /\ s[m].len = 5
      BY <2>3, <2>4, <2>6, <2>8
    <2>10. s[m].c = "cr"
      BY <2>6, <2>9, SlcanAt
    <2>11. QED
      BY <1>3, <2>6, <2>10 DEF NoReturn
  <1>6. Cardinality(B) = IF e + 1 > j - 4 THEN 0 ELSE (j - 4) - (e + 1) + 1
    <2>1. e + 1 \in Int /\ j - 4 \in Int
      BY <1>3
    <2>2. QED
      BY <2>1, FS_Interval
  <1> HIDE DEF A, B
  <1>7. Cardinality(B) <= Cardinality(A)
    <2>1. B \in SUBSET A
      BY <1>5
    <2>2. QED
      BY <1>4, <2>1, FS_Subset
  <1>8. j - e <= Noisy(s) + 4
    BY <1>3, <1>4, <1>6, <1>7
  <1>9. QED
    BY <1>2, <1>8

-----------------------------------------------------------------------------
(* Drivers that are given whole frames.                                     *)

\* The numbers of units each of which is a frame.
LEMMA EachIsFrame ==
  ASSUME NEW s \in Seq(Unit), NEW b, Numbered(s, b), \A j \in 1..Len(s) : s[j].i = 1 /\ s[j].n > 0
  PROVE  [j \in DOMAIN s |-> s[j].n] = Run(b[0] + 1, b[Len(s)])
  <1> DEFINE L == Len(s)
             S == {m \in Nat : m <= L => b[m] = b[0] + m}
             t == [j \in DOMAIN s |-> s[j].n]
  <1>1. L \in Nat /\ DOMAIN s = 1..L /\ b[0] \in Nat
    <2>1. L \in Nat /\ DOMAIN s = 1..L /\ 0 \in 0..L
      OBVIOUS
    <2>2. QED
      BY <2>1 DEF Numbered
  <1>2. ASSUME NEW j \in 1..L PROVE s[j].n = b[j - 1] + 1 /\ b[j] = s[j].n
    <2>1. Numbers(s[j], b[j - 1], b[j])
      BY DEF Numbered
    <2>2. QED
      BY <2>1 DEF Numbers
  <1>3. 0 \in S
    BY <1>1
  <1>4. ASSUME NEW m \in Nat, m \in S PROVE m + 1 \in S
    <2>1. SUFFICES ASSUME m + 1 <= L PROVE b[m + 1] = b[0] + (m + 1)
      OBVIOUS
    <2>2. m + 1 \in 1..L /\ (m + 1) - 1 = m /\ m <= L
      BY <1>1, <2>1
    <2>3. b[m] = b[0] + m
      BY <1>4, <2>2
    <2>4. b[m + 1] = b[m] + 1
      BY <1>2, <2>2
    <2>5. PICK x \in Nat : x = b[0]
      BY <1>1
    <2>6. b[m + 1] = (x + m) + 1
      BY <2>3, <2>4, <2>5
    <2>7. (x + m) + 1 = x + (m + 1)
      OBVIOUS
    <2>8. QED
      BY <2>5, <2>6, <2>7
  <1>5. Nat \subseteq S
    <2> HIDE DEF S
    <2>1. QED
      BY <1>3, <1>4, Induction
  <1>6. \A m \in 0..L : b[m] = b[0] + m
    BY <1>1, <1>5
  <1> HIDE DEF S
  <1>7. ASSUME NEW j \in 1..L PROVE s[j].n = (b[0] + 1) + j - 1
    <2>1. b[j] = b[0] + j
      BY <1>1, <1>6
    <2>2. QED
      BY <1>1, <1>2, <2>1
  <1>8. b[L] - (b[0] + 1) + 1 = L
    <2>1. b[L] = b[0] + L
      BY <1>1, <1>6
    <2>2. QED
      BY <1>1, <2>1
  <1>9. Run(b[0] + 1, b[L]) = [m \in 1..L |-> (b[0] + 1) + m - 1]
    BY <1>8 DEF Run
  <1>10. t = [j \in 1..L |-> (b[0] + 1) + j - 1]
    BY <1>1, <1>7
  <1>11. QED
    BY <1>9, <1>10

\* The frames of canlib's queue are received as they are.
LEMMA CanlibIs ==
  ASSUME NEW s \in Seq(Unit), Len(s) > 0
  PROVE  Other!CanlibRecv(s) = [j \in DOMAIN s |-> s[j].n]
  <1> DEFINE u == Tail(s)
             v == [j \in DOMAIN u |-> u[j].n]
             t == [j \in DOMAIN s |-> s[j].n]
             L == Len(s)
  <1>1. /\ L \in Nat /\ DOMAIN s = 1..L /\ s # << >> /\ \A j \in 1..L : s[j].n \in Nat
    <2>1. L \in Nat /\ DOMAIN s = 1..L /\ s # << >> /\ \A j \in 1..L : s[j] \in Unit
      OBVIOUS
    <2>2. QED
      BY <2>1, UnitFields
  <1>2. u \in Seq(Unit) /\ Len(u) = L - 1 /\ \A j \in 1..(L - 1) : u[j] = s[j + 1]
    <2>1. u \in Seq(Unit) /\ Len(u) = L - 1 /\ \A i \in 1..Len(u) : u[i] = s[i + 1]
      BY <1>1, HeadTailProperties
    <2>2. QED
      BY <2>1
  <1> HIDE DEF u
  <1>3. DOMAIN u = 1..(L - 1)
    BY <1>2
  <1>4. v = [j \in 1..(L - 1) |-> s[j + 1].n]
    BY <1>2, <1>3
  <1>5. v \in Seq(Nat) /\ Len(v) = L - 1 /\ \A j \in 1..(L - 1) : v[j] = s[j + 1].n
    <2>1. \A j \in 1..(L - 1) : s[j + 1].n \in Nat
      BY <1>1
    <2>2. L - 1 \in Nat
      BY <1>1
    <2> HIDE DEF v, L
    <2>3. QED
      BY <1>4, <2>1, <2>2
  <1>6. t \in Seq(Nat) /\ Len(t) = L /\ \A j \in 1..L : t[j] = s[j].n
    BY <1>1
  <1> DEFINE h == <<s[1].n>>
             w == h \o v
  <1>7. h \in Seq(Nat) /\ Len(h) = 1 /\ h[1] = s[1].n
    BY <1>1
  <1> HIDE DEF v, t, h
  <1>8. w \in Seq(Nat) /\ Len(w) = 1 + (L - 1)
        /\ (\A k \in 1..1 : w[k] = h[k]) /\ \A k \in 1..(L - 1) : w[1 + k] = v[k]
    BY <1>5, <1>7, CatFacts
  <1> HIDE DEF w
  <1>9. ASSUME NEW k \in 1..L PROVE w[k] = t[k]
    <2>1. CASE k = 1
      BY <1>6, <1>7, <1>8, <2>1
    <2>2. CASE k # 1
      <3>1. PICK m : m = k - 1
        OBVIOUS
      <3>2. m \in 1..(L - 1) /\ 1 + m = k /\ m + 1 = k
        BY <1>1, <2>2, <3>1
      <3>3. w[1 + m] = v[m] /\ v[m] = s[m + 1].n
        BY <1>5, <1>8, <3>2
      <3>4. QED
        BY <1>6, <3>2, <3>3
    <2>3. QED
      BY <2>1, <2>2
  <1>10. Len(w) = L
    BY <1>1, <1>8
  <1>11. w = t
    BY <1>6, <1>8, <1>9, <1>10, SeqEqual
  <1>12. Other!CanlibRecv(s) = w
    BY DEF Other!CanlibRecv, Other!SocketRecv, w, v, h, u
  <1>13. QED
    BY <1>11, <1>12 DEF t

\* The other drivers count the frames among units in the same way.
LEMMA OtherFramesIn == \A s : Other!FramesIn(s) = FramesIn(s)
  BY DEF Other!FramesIn, FramesIn
-----------------------------------------------------------------------------
(* What open() holds before each of its steps.                              *)

\* What open() of each driver has taken before its step p.
Holds(kd, p) ==
  CASE kd = "vector" -> IF p <= 1 THEN {} ELSE IF p <= 3 THEN {"ctx"}
                        ELSE IF p <= 6 THEN {"ctx", "dev"} ELSE {"iface", "dev", "ctx"}
    [] kd = "slcan" -> IF p <= 1 THEN {} ELSE IF p <= 2 THEN {"port"} ELSE {"port", "tty"}
    [] kd = "socket" -> IF p <= 4 THEN {} ELSE {"fd"}
    [] kd = "xl" -> IF p <= 4 THEN {} ELSE IF p <= 7 THEN {"xlport"} ELSE {"xlport", "event"}
    [] kd = "canlib" -> IF p <= 2 THEN {} ELSE {"hnd"}
    [] OTHER -> {}

\* A call of an adapter's open(): what it takes, what its early return leaves, what
\* it drops.
StepKeeps(kd, p, step) ==
  /\ step.needed \in BOOLEAN
  /\ Holds(kd, p) \cup step.takes \subseteq Holds(kd, p + 1)
  /\ kd = "slcan" => Holds(kd, p) \cup step.takes = Holds(kd, p + 1) /\ (step.needed \/ step.takes = {})
  /\ step.needed => CASE kd = "slcan" -> Holds(kd, p) \ step.frees \in {{}, {"port", "tty"}}
                      [] kd = "xl" -> Holds(kd, p) \ step.frees \subseteq {"event"}
                      [] OTHER -> Holds(kd, p) \subseteq step.frees
  /\ step.drops = "some" => kd = "slcan"

\* What StepKeeps asks of a call.
Call(step, takes, needed, frees, drops) ==
  /\ step = [field \in {"do", "takes", "needed", "frees", "tries", "bus", "drops"} |-> step[field]]
  /\ step.takes = takes /\ step.needed = needed /\ step.frees = frees /\ step.drops = drops

\* The kinds of calls open() is made of.
LEMMA CallsAre ==
  ASSUME NEW do, NEW frees
  PROVE  /\ Call(Takes(do, frees), {do}, TRUE, frees, "nothing")
         /\ Call(Must(do, frees), {}, TRUE, frees, "nothing")
         /\ Call(May(do), {}, FALSE, {}, "nothing")
  BY DEF Takes, Must, May, Step, Call

\* What is said of a call in addition leaves the rest of it alone.
LEMMA CallsWith ==
  ASSUME NEW takes, NEW needed, NEW frees, NEW drops, NEW times, NEW step,
         Call(step, takes, needed, frees, drops)
  PROVE  /\ Call(Tried(times, step), takes, needed, frees, drops)
         /\ Call(PutsOn(step), takes, needed, frees, drops)
         /\ Call(TakesOff(step), takes, needed, frees, drops)
         /\ Call(DropsAll(step), takes, needed, frees, "all")
         /\ Call(DropsWhole(step), takes, needed, frees, "whole")
         /\ Call(DropsSome(step), takes, needed, frees, "some")
  <1>1. Call(Tried(times, step), takes, needed, frees, drops)
    BY DEF Tried, Call
  <1>2. Call(PutsOn(step), takes, needed, frees, drops)
    BY DEF PutsOn, Call
  <1>3. Call(TakesOff(step), takes, needed, frees, drops)
    BY DEF TakesOff, Call
  <1>4. Call(DropsAll(step), takes, needed, frees, "all")
    BY DEF DropsAll, Call
  <1>5. Call(DropsWhole(step), takes, needed, frees, "whole")
    BY DEF DropsWhole, Call
  <1>6. Call(DropsSome(step), takes, needed, frees, "some")
    BY DEF DropsSome, Call
  <1>7. QED
    BY <1>1, <1>2, <1>3, <1>4, <1>5, <1>6

\* Holds, kind by kind.
LEMMA HoldsAre ==
  ASSUME NEW p
  PROVE  /\ Holds("vector", p) = IF p <= 1 THEN {} ELSE IF p <= 3 THEN {"ctx"}
                                 ELSE IF p <= 6 THEN {"ctx", "dev"} ELSE {"iface", "dev", "ctx"}
         /\ Holds("slcan", p) = IF p <= 1 THEN {} ELSE IF p <= 2 THEN {"port"} ELSE {"port", "tty"}
         /\ Holds("socket", p) = IF p <= 4 THEN {} ELSE {"fd"}
         /\ Holds("xl", p) = IF p <= 4 THEN {} ELSE IF p <= 7 THEN {"xlport"} ELSE {"xlport", "event"}
         /\ Holds("canlib", p) = IF p <= 2 THEN {} ELSE {"hnd"}
         /\ Holds("mock", p) = {} /\ Holds("echo", p) = {}
  BY DEF Holds

\* The nine steps of the slcan driver's open().
LEMMA SlcanSteps ==
  ASSUME NEW p \in DOMAIN Slcan!OpenSteps
  PROVE  p \in 1..9 /\ StepKeeps("slcan", p, Slcan!OpenSteps[p])
  <1> DEFINE a == Takes("port", {})
             b == Takes("tty", {"port"})
             c == May("configure")
             d == TakesOff(May("C"))
             e == Must("S", {})
             f == May("M")
             g == May("m")
             h == PutsOn(Must("O", {}))
             i == DropsSome(May("flush"))
             steps == Slcan!OpenSteps
  <1> SUFFICES p \in 1..9 /\ StepKeeps("slcan", p, steps[p])
    OBVIOUS
  <1>1. steps = <<a, b, c, d, e, f, g, h, i>>
    BY DEF Slcan!OpenSteps, Slcan!Must, Slcan!May, Slcan!Takes, Slcan!PutsOn, Slcan!TakesOff,
           Slcan!DropsSome, Slcan!Step, Must, May, Takes, PutsOn, TakesOff, DropsSome, Step
  <1>2. Call(a, {"port"}, TRUE, {}, "nothing")
    BY CallsAre
  <1>3. Call(b, {"tty"}, TRUE, {"port"}, "nothing")
    BY CallsAre
  <1>4. Call(c, {}, FALSE, {}, "nothing")
    BY CallsAre
  <1>5. Call(d, {}, FALSE, {}, "nothing")
    BY CallsAre, CallsWith
  <1>6. Call(e, {}, TRUE, {}, "nothing")
    BY CallsAre
  <1>7. Call(f, {}, FALSE, {}, "nothing")
    BY CallsAre
  <1>8. Call(g, {}, FALSE, {}, "nothing")
    BY CallsAre
  <1>9. Call(h, {}, TRUE, {}, "nothing")
    BY CallsAre, CallsWith
  <1>10. Call(i, {}, FALSE, {}, "some")
    BY CallsAre, CallsWith
  <1> HIDE DEF a, b, c, d, e, f, g, h, i
  <1>11. p \in 1..9 /\ steps[1] = a /\ steps[2] = b /\ steps[3] = c /\ steps[4] = d /\ steps[5] = e /\ steps[6] = f /\ steps[7] = g /\ steps[8] = h /\ steps[9] = i
    BY <1>1
  <1> HIDE DEF steps
  <1>12. CASE p = 1
    <2>1. /\ steps[p].takes = {"port"} /\ steps[p].needed = TRUE
          /\ steps[p].frees = {}
      BY <1>2, <1>11, <1>12 DEF Call
    <2>2. Holds("slcan", p) = {} /\ Holds("slcan", p + 1) = {"port"}
      BY <1>12, HoldsAre
    <2>3. QED
      BY <1>11, <2>1, <2>2 DEF StepKeeps
  <1>13. CASE p = 2
    <2>1. /\ steps[p].takes = {"tty"} /\ steps[p].needed = TRUE
          /\ steps[p].frees = {"port"}
      BY <1>3, <1>11, <1>13 DEF Call
    <2>2. Holds("slcan", p) = {"port"} /\ Holds("slcan", p + 1) = {"port", "tty"}
      BY <1>13, HoldsAre
    <2>3. QED
      BY <1>11, <2>1, <2>2 DEF StepKeeps
  <1>14. CASE p \in {5, 8}
    <2>1. /\ steps[p].takes = {} /\ steps[p].needed = TRUE
          /\ steps[p].frees = {}
      BY <1>6, <1>9, <1>11, <1>14 DEF Call
    <2>2. Holds("slcan", p) = {"port", "tty"} /\ Holds("slcan", p + 1) = {"port", "tty"}
      BY <1>14, HoldsAre
    <2>3. QED
      BY <1>11, <2>1, <2>2 DEF StepKeeps
  <1>15. CASE p \in {3, 4, 6, 7, 9}
    <2>1. /\ steps[p].takes = {} /\ steps[p].needed = FALSE
          /\ steps[p].frees = {}
      BY <1>4, <1>5, <1>7, <1>8, <1>10, <1>11, <1>15 DEF Call
    <2>2. Holds("slcan", p) = {"port", "tty"} /\ Holds("slcan", p + 1) = {"port", "tty"}
      BY <1>15, HoldsAre
    <2>3. QED
      BY <1>11, <2>1, <2>2 DEF StepKeeps
  <1>16. QED
    BY <1>11, <1>12, <1>13, <1>14, <1>15

\* The eight steps of the SocketCAN driver's open().
LEMMA SocketSteps ==
  ASSUME NEW p \in DOMAIN Other!SocketSteps
  PROVE  p \in 1..8 /\ StepKeeps("socket", p, Other!SocketSteps[p])
  <1> DEFINE a == May("link_down")
             b == May("link_type")
             c == Must("link_up", {})
             d == Takes("fd", {})
             e == Must("if_index", {"fd"})
             f == PutsOn(Must("bind", {"fd"}))
             g == May("err_filter")
             h == May("fd_frames")
             steps == Other!SocketSteps
  <1> SUFFICES p \in 1..8 /\ StepKeeps("socket", p, steps[p])
    OBVIOUS
  <1>1. steps = <<a, b, c, d, e, f, g, h>>
    BY DEF Other!SocketSteps, Other!Must, Other!May, Other!Takes, Other!PutsOn, Other!Step,
           Must, May, Takes, PutsOn, Step
  <1>2. Call(a, {}, FALSE, {}, "nothing")
    BY CallsAre
  <1>3. Call(b, {}, FALSE, {}, "nothing")
    BY CallsAre
  <1>4. Call(c, {}, TRUE, {}, "nothing")
    BY CallsAre
  <1>5. Call(d, {"fd"}, TRUE, {}, "nothing")
    BY CallsAre
  <1>6. Call(e, {}, TRUE, {"fd"}, "nothing")
    BY CallsAre
  <1>7. Call(f, {}, TRUE, {"fd"}, "nothing")
    BY CallsAre, CallsWith
  <1>8. Call(g, {}, FALSE, {}, "nothing")
    BY CallsAre
  <1>9. Call(h, {}, FALSE, {}, "nothing")
    BY CallsAre
  <1> HIDE DEF a, b, c, d, e, f, g, h
  <1>10. p \in 1..8 /\ steps[1] = a /\ steps[2] = b /\ steps[3] = c /\ steps[4] = d /\ steps[5] = e /\ steps[6] = f /\ steps[7] = g /\ steps[8] = h
    BY <1>1
  <1> HIDE DEF steps
  <1>11. CASE p \in {1, 2}
    <2>1. /\ steps[p].takes = {} /\ steps[p].needed = FALSE
          /\ steps[p].frees = {} /\ steps[p].drops # "some"
      BY <1>2, <1>3, <1>10, <1>11 DEF Call
    <2>2. Holds("socket", p) = {} /\ Holds("socket", p + 1) = {}
      BY <1>11, HoldsAre
    <2>3. QED
      BY <1>10, <2>1, <2>2 DEF StepKeeps
  <1>12. CASE p = 3
    <2>1. /\ steps[p].takes = {} /\ steps[p].needed = TRUE
          /\ steps[p].frees = {} /\ steps[p].drops # "some"
      BY <1>4, <1>10, <1>12 DEF Call
    <2>2. Holds("socket", p) = {} /\ Holds("socket", p + 1) = {}
      BY <1>12, HoldsAre
    <2>3. QED
      BY <1>10, <2>1, <2>2 DEF StepKeeps
  <1>13. CASE p = 4
    <2>1. /\ steps[p].takes = {"fd"} /\ steps[p].needed = TRUE
          /\ steps[p].frees = {} /\ steps[p].drops # "some"
      BY <1>5, <1>10, <1>13 DEF Call
    <2>2. Holds("socket", p) = {} /\ Holds("socket", p + 1) = {"fd"}
      BY <1>13, HoldsAre
    <2>3. QED
      BY <1>10, <2>1, <2>2 DEF StepKeeps
  <1>14. CASE p \in {5, 6}
    <2>1. /\ steps[p].takes = {} /\ steps[p].needed = TRUE
          /\ steps[p].frees = {"fd"} /\ steps[p].drops # "some"
      BY <1>6, <1>7, <1>10, <1>14 DEF Call
    <2>2. Holds("socket", p) = {"fd"} /\ Holds("socket", p + 1) = {"fd"}
      BY <1>14, HoldsAre
    <2>3. QED
      BY <1>10, <2>1, <2>2 DEF StepKeeps
  <1>15. CASE p \in {7, 8}
    <2>1. /\ steps[p].takes = {} /\ steps[p].needed = FALSE
          /\ steps[p].frees = {} /\ steps[p].drops # "some"
      BY <1>8, <1>9, <1>10, <1>15 DEF Call
    <2>2. Holds("socket", p) = {"fd"} /\ Holds("socket", p + 1) = {"fd"}
      BY <1>15, HoldsAre
    <2>3. QED
      BY <1>10, <2>1, <2>2 DEF StepKeeps
  <1>16. QED
    BY <1>10, <1>11, <1>12, <1>13, <1>14, <1>15

\* The nine steps of the XL driver's open().
LEMMA XlSteps ==
  ASSUME NEW p \in DOMAIN Other!XlSteps
  PROVE  p \in 1..9 /\ StepKeeps("xl", p, Other!XlSteps[p])
  <1> DEFINE a == Must("driver", {})
             b == Must("config", {})
             c == Must("channel", {})
             d == Takes("xlport", {})
             e == May("output")
             f == May("bitrate")
             g == [May("event") EXCEPT !.takes = {"event"}]
             h == DropsAll(May("flush"))
             i == PutsOn(Must("activate", {"xlport"}))
             steps == Other!XlSteps
  <1> SUFFICES p \in 1..9 /\ StepKeeps("xl", p, steps[p])
    OBVIOUS
  <1>1. steps = <<a, b, c, d, e, f, g, h, i>>
    BY DEF Other!XlSteps, Other!Must, Other!May, Other!Takes, Other!PutsOn, Other!DropsAll,
           Other!Step, Must, May, Takes, PutsOn, DropsAll, Step
  <1>2. Call(a, {}, TRUE, {}, "nothing")
    BY CallsAre
  <1>3. Call(b, {}, TRUE, {}, "nothing")
    BY CallsAre
  <1>4. Call(c, {}, TRUE, {}, "nothing")
    BY CallsAre
  <1>5. Call(d, {"xlport"}, TRUE, {}, "nothing")
    BY CallsAre
  <1>6. Call(e, {}, FALSE, {}, "nothing")
    BY CallsAre
  <1>7. Call(f, {}, FALSE, {}, "nothing")
    BY CallsAre
  <1>8. Call(g, {"event"}, FALSE, {}, "nothing")
    BY DEF Call, May, Step
  <1>9. Call(h, {}, FALSE, {}, "all")
    BY CallsAre, CallsWith
  <1>10. Call(i, {}, TRUE, {"xlport"}, "nothing")
    BY CallsAre, CallsWith
  <1> HIDE DEF a, b, c, d, e, f, g, h, i
  <1>11. p \in 1..9 /\ steps[1] = a /\ steps[2] = b /\ steps[3] = c /\ steps[4] = d /\ steps[5] = e /\ steps[6] = f /\ steps[7] = g /\ steps[8] = h /\ steps[9] = i
    BY <1>1
  <1> HIDE DEF steps
  <1>12. CASE p \in {1, 2, 3}
    <2>1. /\ steps[p].takes = {} /\ steps[p].needed = TRUE
          /\ steps[p].frees = {} /\ steps[p].drops # "some"
      BY <1>2, <1>3, <1>4, <1>11, <1>12 DEF Call
    <2>2. Holds("xl", p) = {} /\ Holds("xl", p + 1) = {}
      BY <1>12, HoldsAre
    <2>3. QED
      BY <1>11, <2>1, <2>2 DEF StepKeeps
  <1>13. CASE p = 4
    <2>1. /\ steps[p].takes = {"xlport"} /\ steps[p].needed = TRUE
          /\ steps[p].frees = {} /\ steps[p].drops # "some"
      BY <1>5, <1>11, <1>13 DEF Call
    <2>2. Holds("xl", p) = {} /\ Holds("xl", p + 1) = {"xlport"}
      BY <1>13, HoldsAre
    <2>3. QED
      BY <1>11, <2>1, <2>2 DEF StepKeeps
  <1>14. CASE p \in {5, 6}
    <2>1. /\ steps[p].takes = {} /\ steps[p].needed = FALSE
          /\ steps[p].frees = {} /\ steps[p].drops # "some"
      BY <1>6, <1>7, <1>11, <1>14 DEF Call
    <2>2. Holds("xl", p) = {"xlport"} /\ Holds("xl", p + 1) = {"xlport"}
      BY <1>14, HoldsAre
    <2>3. QED
      BY <1>11, <2>1, <2>2 DEF StepKeeps
  <1>15. CASE p = 7
    <2>1. /\ steps[p].takes = {"event"} /\ steps[p].needed = FALSE
          /\ steps[p].frees = {} /\ steps[p].drops # "some"
      BY <1>8, <1>11, <1>15 DEF Call
    <2>2. Holds("xl", p) = {"xlport"} /\ Holds("xl", p + 1) = {"xlport", "event"}
      BY <1>15, HoldsAre
    <2>3. QED
      BY <1>11, <2>1, <2>2 DEF StepKeeps
  <1>16. CASE p = 8
    <2>1. /\ steps[p].takes = {} /\ steps[p].needed = FALSE
          /\ steps[p].frees = {} /\ steps[p].drops # "some"
      BY <1>9, <1>11, <1>16 DEF Call
    <2>2. Holds("xl", p) = {"xlport", "event"} /\ Holds("xl", p + 1) = {"xlport", "event"}
      BY <1>16, HoldsAre
    <2>3. QED
      BY <1>11, <2>1, <2>2 DEF StepKeeps
  <1>17. CASE p = 9
    <2>1. /\ steps[p].takes = {} /\ steps[p].needed = TRUE
          /\ steps[p].frees = {"xlport"} /\ steps[p].drops # "some"
      BY <1>10, <1>11, <1>17 DEF Call
    <2>2. Holds("xl", p) = {"xlport", "event"} /\ Holds("xl", p + 1) = {"xlport", "event"}
      BY <1>17, HoldsAre
    <2>3. QED
      BY <1>11, <2>1, <2>2 DEF StepKeeps
  <1>18. QED
    BY <1>11, <1>12, <1>13, <1>14, <1>15, <1>16, <1>17

\* The five steps of the canlib driver's open().
LEMMA CanlibSteps ==
  ASSUME NEW p \in DOMAIN Other!CanlibSteps
  PROVE  p \in 1..5 /\ StepKeeps("canlib", p, Other!CanlibSteps[p])
  <1> DEFINE a == Must("load", {})
             b == Takes("hnd", {})
             c == Must("bus_params", {"hnd"})
             d == May("output")
             e == PutsOn(Must("bus_on", {"hnd"}))
             steps == Other!CanlibSteps
  <1> SUFFICES p \in 1..5 /\ StepKeeps("canlib", p, steps[p])
    OBVIOUS
  <1>1. steps = <<a, b, c, d, e>>
    BY DEF Other!CanlibSteps, Other!Must, Other!May, Other!Takes, Other!PutsOn, Other!Step,
           Must, May, Takes, PutsOn, Step
  <1>2. Call(a, {}, TRUE, {}, "nothing")
    BY CallsAre
  <1>3. Call(b, {"hnd"}, TRUE, {}, "nothing")
    BY CallsAre
  <1>4. Call(c, {}, TRUE, {"hnd"}, "nothing")
    BY CallsAre
  <1>5. Call(d, {}, FALSE, {}, "nothing")
    BY CallsAre
  <1>6. Call(e, {}, TRUE, {"hnd"}, "nothing")
    BY CallsAre, CallsWith
  <1> HIDE DEF a, b, c, d, e
  <1>7. p \in 1..5 /\ steps[1] = a /\ steps[2] = b /\ steps[3] = c /\ steps[4] = d /\ steps[5] = e
    BY <1>1
  <1> HIDE DEF steps
  <1>8. CASE p = 1
    <2>1. /\ steps[p].takes = {} /\ steps[p].needed = TRUE
          /\ steps[p].frees = {} /\ steps[p].drops # "some"
      BY <1>2, <1>7, <1>8 DEF Call
    <2>2. Holds("canlib", p) = {} /\ Holds("canlib", p + 1) = {}
      BY <1>8, HoldsAre
    <2>3. QED
      BY <1>7, <2>1, <2>2 DEF StepKeeps
  <1>9. CASE p = 2
    <2>1. /\ steps[p].takes = {"hnd"} /\ steps[p].needed = TRUE
          /\ steps[p].frees = {} /\ steps[p].drops # "some"
      BY <1>3, <1>7, <1>9 DEF Call
    <2>2. Holds("canlib", p) = {} /\ Holds("canlib", p + 1) = {"hnd"}
      BY <1>9, HoldsAre
    <2>3. QED
      BY <1>7, <2>1, <2>2 DEF StepKeeps
  <1>10. CASE p \in {3, 5}
    <2>1. /\ steps[p].takes = {} /\ steps[p].needed = TRUE
          /\ steps[p].frees = {"hnd"} /\ steps[p].drops # "some"
      BY <1>4, <1>6, <1>7, <1>10 DEF Call
    <2>2. Holds("canlib", p) = {"hnd"} /\ Holds("canlib", p + 1) = {"hnd"}
      BY <1>10, HoldsAre
    <2>3. QED
      BY <1>7, <2>1, <2>2 DEF StepKeeps
  <1>11. CASE p = 4
    <2>1. /\ steps[p].takes = {} /\ steps[p].needed = FALSE
          /\ steps[p].frees = {} /\ steps[p].drops # "some"
      BY <1>5, <1>7, <1>11 DEF Call
    <2>2. Holds("canlib", p) = {"hnd"} /\ Holds("canlib", p + 1) = {"hnd"}
      BY <1>11, HoldsAre
    <2>3. QED
      BY <1>7, <2>1, <2>2 DEF StepKeeps
  <1>12. QED
    BY <1>7, <1>8, <1>9, <1>10, <1>11

\* The mock adapters open in one step.
LEMMA MockSteps ==
  ASSUME NEW p \in DOMAIN Other!MockSteps, NEW kd \in {"mock", "echo"}
  PROVE  p = 1 /\ StepKeeps(kd, p, Other!MockSteps[p])
  <1> DEFINE a == DropsAll(PutsOn(May("mock")))
  <1>1. Other!MockSteps = <<a>>
    BY DEF Other!MockSteps, Other!May, Other!PutsOn, Other!DropsAll, Other!Step, May, PutsOn, DropsAll, Step
  <1>2. Call(a, {}, FALSE, {}, "all")
    BY CallsAre, CallsWith
  <1> HIDE DEF a
  <1>3. p = 1 /\ Other!MockSteps[p] = a
    BY <1>1
  <1>4. a.takes = {} /\ a.needed = FALSE /\ a.drops # "some"
    BY <1>2 DEF Call
  <1>5. Holds(kd, p) = {} /\ Holds(kd, p + 1) = {}
    BY HoldsAre
  <1>6. StepKeeps(kd, p, a)
    BY <1>4, <1>5 DEF StepKeeps
  <1>7. QED
    BY <1>3, <1>6

\* The calls of the Vector driver's open() that take nothing, after those that find
\* the device.
Plain(step) == /\ step.takes = {} /\ step.needed \in BOOLEAN /\ step.drops # "some"
               /\ step.needed => step.frees = {"iface", "dev", "ctx"}

\* Calls that take nothing are of this form.
LEMMA PlainCalls ==
  ASSUME NEW step, NEW drops, drops # "some",
         Call(step, {}, FALSE, {}, drops) \/ Call(step, {}, TRUE, {"iface", "dev", "ctx"}, drops)
  PROVE  Plain(step)
  BY DEF Call, Plain

\* Loading the firmware takes nothing.
LEMMA FirmwareCalls ==
  /\ DOMAIN Vector!Firmware = 1..8
  /\ \A j \in 1..8 : Plain(Vector!Firmware[j])
  <1> DEFINE all == {"iface", "dev", "ctx"}
             a == Must("get_bootcode_info", all)
             b == Must("download_main", all)
             c == Tried(10, Must("get_firmware_info", all))
             d == Must("download_fpga", all)
             e == Must("get_firmware_info", all)
             f == Must("set_rx_evt_transfer_mode", all)
             g == May("get_transceiver_info")
             h == DropsWhole(Tried(10, May("fpga_wait")))
             steps == Vector!Firmware
  <1>1. steps = <<a, b, c, d, e, f, g, h>>
    BY DEF Vector!Firmware, Vector!All, Vector!Must, Vector!May, Vector!Tried, Vector!DropsWhole, Vector!Step,
           Must, May, Tried, DropsWhole, Step
  <1>2. Call(a, {}, TRUE, all, "nothing") /\ Call(b, {}, TRUE, all, "nothing")
    BY CallsAre
  <1>3. Call(c, {}, TRUE, all, "nothing")
    BY CallsAre, CallsWith
  <1>4. /\ Call(d, {}, TRUE, all, "nothing") /\ Call(e, {}, TRUE, all, "nothing")
        /\ Call(f, {}, TRUE, all, "nothing") /\ Call(g, {}, FALSE, {}, "nothing")
    BY CallsAre
  <1>5. Call(h, {}, FALSE, {}, "whole")
    BY CallsAre, CallsWith
  <1> HIDE DEF a, b, c, d, e, f, g, h
  <1>6. /\ DOMAIN steps = 1..8
        /\ steps[1] = a /\ steps[2] = b /\ steps[3] = c /\ steps[4] = d
        /\ steps[5] = e /\ steps[6] = f /\ steps[7] = g /\ steps[8] = h
    BY <1>1
  <1> HIDE DEF steps
  <1>7. /\ Plain(a) /\ Plain(b) /\ Plain(c) /\ Plain(d) /\ Plain(e) /\ Plain(f) /\ Plain(g) /\ Plain(h)
    BY <1>2, <1>3, <1>4, <1>5, PlainCalls
  <1>8. DOMAIN steps = 1..8 /\ \A j \in 1..8 : Plain(steps[j])
    BY <1>6, <1>7
  <1>9. QED
    BY <1>8 DEF steps

\* Setting up the channel takes nothing.
LEMMA ChannelCalls ==
  /\ DOMAIN Vector!Channel = 1..12
  /\ \A j \in 1..12 : Plain(Vector!Channel[j])
  <1> DEFINE all == {"iface", "dev", "ctx"}
             a == Must("start_firmware_op", all)
             b == May("read_core_frequency")
             c == May("read_canxl_caps")
             d == May("read_default_config")
             e == Must("set_output_mode", all)
             f == Must("set_chip_param", all)
             g == Must("set_transceiver_mode", all)
             h == PutsOn(Must("activate_channel", all))
             steps == Vector!Channel
  <1>1. steps = <<a, b, c>> \o [ch \in 1..5 |-> d] \o <<e, f, g, h>>
    BY DEF Vector!Channel, Vector!All, Vector!Must, Vector!May, Vector!PutsOn, Vector!Step,
           Must, May, PutsOn, Step
  <1>2. /\ Call(a, {}, TRUE, all, "nothing") /\ Call(b, {}, FALSE, {}, "nothing")
        /\ Call(c, {}, FALSE, {}, "nothing") /\ Call(d, {}, FALSE, {}, "nothing")
        /\ Call(e, {}, TRUE, all, "nothing") /\ Call(f, {}, TRUE, all, "nothing")
        /\ Call(g, {}, TRUE, all, "nothing")
    BY CallsAre
  <1>3. Call(h, {}, TRUE, all, "nothing")
    BY CallsAre, CallsWith
  <1> HIDE DEF a, b, c, d, e, f, g, h
  <1>4. Plain(a) /\ Plain(b) /\ Plain(c) /\ Plain(d) /\ Plain(e) /\ Plain(f) /\ Plain(g) /\ Plain(h)
    BY <1>2, <1>3, PlainCalls
  <1> DEFINE S == {a, b, c, d, e, f, g, h}
             s == <<a, b, c>>
             t == [ch \in 1..5 |-> d]
             u == <<e, f, g, h>>
  <1>5. s \in Seq(S) /\ Len(s) = 3 /\ t \in Seq(S) /\ Len(t) = 5 /\ u \in Seq(S) /\ Len(u) = 4
    OBVIOUS
  <1>6. \A step \in S : Plain(step)
    BY <1>4
  <1> HIDE DEF S, s, t, u
  <1> DEFINE st == s \o t
  <1>7. st \in Seq(S) /\ Len(st) = 8
    <2>1. st \in Seq(S) /\ Len(st) = Len(s) + Len(t)
      BY <1>5, CatFacts, Zenon
    <2>2. QED
      BY <1>5, <2>1
  <1> HIDE DEF st
  <1>8. st \o u \in Seq(S) /\ Len(st \o u) = 12
    <2>1. st \o u \in Seq(S) /\ Len(st \o u) = Len(st) + Len(u)
      BY <1>5, <1>7, CatFacts, Zenon
    <2>2. QED
      BY <1>5, <1>7, <2>1
  <1>9. steps = st \o u
    BY <1>1 DEF s, t, u, st
  <1> HIDE DEF steps
  <1>10. steps \in Seq(S) /\ Len(steps) = 12
    BY <1>8, <1>9
  <1>11. DOMAIN steps = 1..12 /\ \A j \in 1..12 : Plain(steps[j])
    <2>1. DOMAIN steps = 1..Len(steps) /\ \A j \in 1..Len(steps) : steps[j] \in S
      BY <1>10, LenProperties, ElementOfSeq
    <2>2. QED
      BY <1>6, <1>10, <2>1
  <1>12. QED
    BY <1>11 DEF steps

\* Finding the device takes the context, the device and its interface, one by one.
LEMMA FindCalls ==
  /\ DOMAIN Vector!Find = 1..7
  /\ \A p \in 1..7 : StepKeeps("vector", p, Vector!Find[p])
  <1> DEFINE a == Takes("ctx", {})
             b == Must("find", {"ctx"})
             c == Takes("dev", {"ctx"})
             d == May("reset")
             e == May("set_configuration")
             f == Takes("iface", {"dev", "ctx"})
             g == May("flush")
             steps == Vector!Find
  <1>1. steps = <<a, b, c, d, e, f, g>>
    BY DEF Vector!Find, Vector!Must, Vector!May, Vector!Takes, Vector!Step, Must, May, Takes, Step
  <1>2. /\ Call(a, {"ctx"}, TRUE, {}, "nothing") /\ Call(b, {}, TRUE, {"ctx"}, "nothing")
        /\ Call(c, {"dev"}, TRUE, {"ctx"}, "nothing") /\ Call(d, {}, FALSE, {}, "nothing")
        /\ Call(e, {}, FALSE, {}, "nothing") /\ Call(f, {"iface"}, TRUE, {"dev", "ctx"}, "nothing")
        /\ Call(g, {}, FALSE, {}, "nothing")
    BY CallsAre
  <1> HIDE DEF a, b, c, d, e, f, g
  <1>3. /\ DOMAIN steps = 1..7
        /\ steps[1] = a /\ steps[2] = b /\ steps[3] = c /\ steps[4] = d
        /\ steps[5] = e /\ steps[6] = f /\ steps[7] = g
    BY <1>1
  <1> HIDE DEF steps
  <1>4. ASSUME NEW p \in 1..7 PROVE StepKeeps("vector", p, steps[p])
    <2>1. CASE p = 1
      <3>1. /\ steps[p].takes = {"ctx"} /\ steps[p].needed = TRUE
            /\ steps[p].frees = {} /\ steps[p].drops # "some"
        BY <1>2, <1>3, <2>1 DEF Call
      <3>2. Holds("vector", p) = {} /\ Holds("vector", p + 1) = {"ctx"}
        BY <2>1, HoldsAre
      <3>3. QED
        BY <3>1, <3>2 DEF StepKeeps
    <2>2. CASE p = 2
      <3>1. /\ steps[p].takes = {} /\ steps[p].needed = TRUE
            /\ steps[p].frees = {"ctx"} /\ steps[p].drops # "some"
        BY <1>2, <1>3, <2>2 DEF Call
      <3>2. Holds("vector", p) = {"ctx"} /\ Holds("vector", p + 1) = {"ctx"}
        BY <2>2, HoldsAre
      <3>3. QED
        BY <3>1, <3>2 DEF StepKeeps
    <2>3. CASE p = 3
      <3>1. /\ steps[p].takes = {"dev"} /\ steps[p].needed = TRUE
            /\ steps[p].frees = {"ctx"} /\ steps[p].drops # "some"
        BY <1>2, <1>3, <2>3 DEF Call
      <3>2. Holds("vector", p) = {"ctx"} /\ Holds("vector", p + 1) = {"ctx", "dev"}
        BY <2>3, HoldsAre
      <3>3. QED
        BY <3>1, <3>2 DEF StepKeeps
    <2>4. CASE p \in {4, 5, 7}
      <3>1. /\ steps[p].takes = {} /\ steps[p].needed = FALSE /\ steps[p].drops # "some"
        BY <1>2, <1>3, <2>4 DEF Call
      <3>2. Holds("vector", p) = Holds("vector", p + 1)
        BY <2>4, HoldsAre
      <3>3. QED
        BY <3>1, <3>2 DEF StepKeeps
    <2>5. CASE p = 6
      <3>1. /\ steps[p].takes = {"iface"} /\ steps[p].needed = TRUE
            /\ steps[p].frees = {"dev", "ctx"} /\ steps[p].drops # "some"
        BY <1>2, <1>3, <2>5 DEF Call
      <3>2. Holds("vector", p) = {"ctx", "dev"} /\ Holds("vector", p + 1) = {"iface", "dev", "ctx"}
        BY <2>5, HoldsAre
      <3>3. QED
        BY <3>1, <3>2 DEF StepKeeps
    <2>6. QED
      BY <2>1, <2>2, <2>3, <2>4, <2>5
  <1>5. QED
    BY <1>3, <1>4 DEF steps

\* Past the sixth step everything is held, and nothing more is taken.
LEMMA PlainStep ==
  ASSUME NEW p \in Nat, p > 6, NEW step, Plain(step)
  PROVE  StepKeeps("vector", p, step)
  <1>1. Holds("vector", p) = {"iface", "dev", "ctx"} /\ Holds("vector", p + 1) = {"iface", "dev", "ctx"}
    BY HoldsAre
  <1>2. QED
    BY <1>1 DEF StepKeeps, Plain

\* Where the elements of three sequences in a row are.
LEMMA InARow ==
  ASSUME NEW S, NEW s \in Seq(S), NEW t \in Seq(S), NEW u \in Seq(S), NEW all, all = (s \o t) \o u
  PROVE  /\ DOMAIN all = 1..(Len(s) + Len(t) + Len(u))
         /\ \A p \in DOMAIN all : p <= Len(s) => all[p] = s[p]
         /\ \A p \in DOMAIN all : p > Len(s) /\ p <= Len(s) + Len(t) => all[p] = t[p - Len(s)]
         /\ \A p \in DOMAIN all : p > Len(s) + Len(t) => all[p] = u[p - (Len(s) + Len(t))]
  <1>1. PICK st : st = s \o t
    OBVIOUS
  <1>2. /\ st \in Seq(S) /\ Len(st) = Len(s) + Len(t)
        /\ \A k \in 1..(Len(s) + Len(t)) : st[k] = IF k <= Len(s) THEN s[k] ELSE t[k - Len(s)]
    BY <1>1, ConcatProperties
  <1>3. all = st \o u
    BY <1>1
  <1>4. /\ all \in Seq(S) /\ Len(all) = Len(st) + Len(u)
        /\ \A k \in 1..(Len(st) + Len(u)) : all[k] = IF k <= Len(st) THEN st[k] ELSE u[k - Len(st)]
    <2>1. st \in Seq(S)
      BY <1>2
    <2>2. QED
      BY <1>3, <2>1, ConcatProperties
  <1>5. PICK i \in Nat, j \in Nat, k \in Nat : i = Len(s) /\ j = Len(t) /\ k = Len(u)
    OBVIOUS
  <1>6. DOMAIN all = 1..(i + j + k) /\ Len(st) = i + j /\ Len(all) = (i + j) + k
    <2>1. DOMAIN all = 1..Len(all)
      BY <1>4, LenProperties
    <2>2. QED
      BY <1>2, <1>4, <1>5, <2>1
  <1>7. ASSUME NEW p \in 1..(i + j + k)
        PROVE  /\ p <= i => all[p] = s[p]
               /\ p > i /\ p <= i + j => all[p] = t[p - i]
               /\ p > i + j => all[p] = u[p - (i + j)]
    <2>1. all[p] = IF p <= i + j THEN st[p] ELSE u[p - (i + j)]
      BY <1>4, <1>5, <1>6
    <2>2. p <= i + j => st[p] = IF p <= i THEN s[p] ELSE t[p - i]
      BY <1>2, <1>5
    <2>3. p <= i => p <= i + j
      OBVIOUS
    <2>4. QED
      BY <2>1, <2>2, <2>3
  <1>8. QED
    BY <1>5, <1>6, <1>7

\* The twenty-seven steps of the Vector driver's open().
LEMMA VectorSteps ==
  ASSUME NEW p \in DOMAIN Vector!OpenSteps
  PROVE  p \in 1..27 /\ StepKeeps("vector", p, Vector!OpenSteps[p])
  <1> DEFINE s == Vector!Find
             t == Vector!Firmware
             u == Vector!Channel
             S == {s[j] : j \in 1..7} \cup {t[j] : j \in 1..8} \cup {u[j] : j \in 1..12}
             all == (s \o t) \o u
  <1>1. s \in Seq(S) /\ Len(s) = 7
    BY FindCalls DEF Vector!Find
  <1>2. t \in Seq(S) /\ Len(t) = 8
    BY FirmwareCalls DEF Vector!Firmware
  <1>3. u \in Seq(S) /\ Len(u) = 12
    BY ChannelCalls DEF Vector!Channel
  <1>4. Vector!OpenSteps = all
    BY DEF Vector!OpenSteps
  <1>5. p \in DOMAIN all
    BY <1>4
  <1> HIDE DEF S, s, t, u, all
  <1>6. /\ DOMAIN all = 1..(Len(s) + Len(t) + Len(u))
        /\ p <= Len(s) => all[p] = s[p]
        /\ p > Len(s) /\ p <= Len(s) + Len(t) => all[p] = t[p - Len(s)]
        /\ p > Len(s) + Len(t) => all[p] = u[p - (Len(s) + Len(t))]
    <2>1. all = (s \o t) \o u /\ s \in Seq(S) /\ t \in Seq(S) /\ u \in Seq(S)
      BY <1>1, <1>2, <1>3 DEF all
    <2>2. QED
      BY <1>5, <2>1, InARow
  <1>7. /\ p \in 1..27
        /\ p \in 1..7 => all[p] = s[p]
        /\ p \in 8..15 => all[p] = t[p - 7] /\ p - 7 \in 1..8
        /\ p \in 16..27 => all[p] = u[p - 15] /\ p - 15 \in 1..12
    <2>1. p \in 1..27
      BY <1>1, <1>2, <1>3, <1>5, <1>6
    <2>2. p <= 7 => all[p] = s[p]
      BY <1>1, <1>6
    <2>3. p > 7 /\ p <= 15 => all[p] = t[p - 7]
      BY <1>1, <1>2, <1>6
    <2>4. p > 15 => all[p] = u[p - 15]
      BY <1>1, <1>2, <1>6
    <2> HIDE DEF all
    <2>5. QED
      BY <2>1, <2>2, <2>3, <2>4
  <1>8. p \in 1..7 => StepKeeps("vector", p, all[p])
    BY <1>7, FindCalls DEF s
  <1>9. p \in 8..15 => Plain(all[p])
    BY <1>7, FirmwareCalls DEF t
  <1>10. p \in 16..27 => Plain(all[p])
    BY <1>7, ChannelCalls DEF u
  <1>11. StepKeeps("vector", p, all[p])
    BY <1>7, <1>8, <1>9, <1>10, PlainStep
  <1>12. QED
    BY <1>4, <1>7, <1>11

\* The calls of every kind.
LEMMA StepsKeep ==
  ASSUME kind \in AllKinds, NEW p \in DOMAIN OpenSteps
  PROVE  p \in Nat /\ p > 0 /\ StepKeeps(kind, p, OpenSteps[p])
  <1>1. CASE kind = "vector"
    <2>1. OpenSteps = Vector!OpenSteps
      BY <1>1 DEF OpenSteps
    <2>2. QED
      BY <1>1, <2>1, VectorSteps
  <1>2. CASE kind = "slcan"
    <2>1. OpenSteps = Slcan!OpenSteps
      BY <1>2 DEF OpenSteps
    <2>2. QED
      BY <1>2, <2>1, SlcanSteps
  <1>3. CASE kind = "socket"
    <2>1. OpenSteps = Other!SocketSteps
      BY <1>3 DEF OpenSteps
    <2>2. QED
      BY <1>3, <2>1, SocketSteps
  <1>4. CASE kind = "xl"
    <2>1. OpenSteps = Other!XlSteps
      BY <1>4 DEF OpenSteps
    <2>2. QED
      BY <1>4, <2>1, XlSteps
  <1>5. CASE kind = "canlib"
    <2>1. OpenSteps = Other!CanlibSteps
      BY <1>5 DEF OpenSteps
    <2>2. QED
      BY <1>5, <2>1, CanlibSteps
  <1>6. CASE kind \in {"mock", "echo"}
    <2>1. OpenSteps = Other!MockSteps
      BY <1>6 DEF OpenSteps
    <2>2. QED
      BY <1>6, <2>1, MockSteps
  <1>7. QED
    BY <1>1, <1>2, <1>3, <1>4, <1>5, <1>6 DEF AllKinds

-----------------------------------------------------------------------------
(* What is on the way.                                                      *)

\* A unit as a device of each kind sends it.
KindUnit(kd, u) == CASE kd = "vector" -> VectorUnit(u)
                     [] kd = "slcan" -> SlcanUnit(u)
                     [] kd = "xl" -> u.len = 1
                     [] OTHER -> u.len = 1 /\ u.n > 0

\* A stream from a device of each kind.
KindStream(kd, s) == Stream(s) /\ \A j \in 1..Len(s) : KindUnit(kd, s[j])

\* A message as a device of each kind sends it.
KindMessage(kd, t, n) == IsMessage(t, n) /\ \A j \in 1..Len(t) : KindUnit(kd, t[j])

\* KindUnit, kind by kind.
LEMMA KindUnitIs ==
  ASSUME NEW u
  PROVE  /\ KindUnit("vector", u) = VectorUnit(u)
         /\ KindUnit("slcan", u) = SlcanUnit(u)
         /\ KindUnit("xl", u) = (u.len = 1)
         /\ \A kd \in {"socket", "canlib", "mock", "echo"} : KindUnit(kd, u) = (u.len = 1 /\ u.n > 0)
  BY DEF KindUnit

\* Message() is a message.
LEMMA MessageOf ==
  ASSUME NEW n \in Nat, NEW len \in 1..5
  PROVE  IsMessage(Message(n, len), n) /\ Len(Message(n, len)) = len
  <1> DEFINE t == Message(n, len)
  <1>1. t = [i \in 1..len |-> [n |-> n, i |-> i, len |-> len]]
    BY DEF Message
  <1>2. t \in Seq(Unit)
    BY <1>1 DEF Unit
  <1>3. Len(t) = len /\ \A j \in 1..len : t[j].n = n /\ t[j].i = j /\ t[j].len = len
    BY <1>1
  <1> HIDE DEF t
  <1>4. IsMessage(t, n)
    BY <1>2, <1>3 DEF IsMessage
  <1>5. QED
    BY <1>3, <1>4 DEF t

\* So is a text of characters.
LEMMA TextOf ==
  ASSUME NEW n \in Nat, NEW x \in Seq(Classes), Len(x) \in 1..5
  PROVE  /\ IsMessage(Slcan!Text(n, x), n) /\ Len(Slcan!Text(n, x)) = Len(x)
         /\ \A j \in 1..Len(x) : Slcan!Text(n, x)[j].c = x[j]
  <1> DEFINE t == Slcan!Text(n, x)
             L == Len(x)
  <1>1. t = [i \in 1..L |-> [n |-> n, i |-> i, len |-> L, c |-> x[i]]]
    BY DEF Slcan!Text
  <1>2. L \in 1..5 /\ \A i \in 1..L : x[i] \in Classes
    OBVIOUS
  <1> HIDE DEF L
  <1>3. t \in Seq(Unit)
    BY <1>1, <1>2 DEF Unit
  <1>4. Len(t) = L /\ \A j \in 1..L : t[j].n = n /\ t[j].i = j /\ t[j].len = L /\ t[j].c = x[j]
    BY <1>1, <1>2
  <1> HIDE DEF t
  <1>5. IsMessage(t, n)
    BY <1>2, <1>3, <1>4 DEF IsMessage
  <1>6. QED
    BY <1>4, <1>5 DEF t, L

\* A frame of an slcan adapter, and what it says beside frames.
LEMMA SlcanUnits ==
  /\ \A n \in Nat : n > 0 => KindMessage("slcan", Slcan!Units(n), n)
  /\ KindMessage("slcan", Slcan!Answer, 0) /\ Len(Slcan!Answer) = 2
  /\ KindMessage("slcan", Slcan!Bell, 0) /\ Len(Slcan!Bell) = 1
  <1>1. ASSUME NEW n \in Nat, n > 0 PROVE KindMessage("slcan", Slcan!Units(n), n)
    <2>1. PICK y \in {"F", "hex"} : Slcan!Units(n) = Slcan!Text(n, <<"cmd", y, y, y, "cr">>)
      BY DEF Slcan!Units
    <2>2. PICK x : x = <<"cmd", y, y, y, "cr">>
      OBVIOUS
    <2>3. /\ x \in Seq(Classes) /\ Len(x) = 5 /\ x[1] = "cmd" /\ x[5] = "cr"
          /\ x[2] \in {"F", "hex"} /\ x[3] \in {"F", "hex"} /\ x[4] \in {"F", "hex"}
      BY <2>2 DEF Classes
    <2>4. PICK t : t = Slcan!Text(n, x)
      OBVIOUS
    <2>5. IsMessage(t, n) /\ Len(t) = 5 /\ \A j \in 1..5 : t[j].c = x[j]
      <3>1. x \in Seq(Classes) /\ Len(x) \in 1..5
        BY <2>3
      <3>2. /\ IsMessage(Slcan!Text(n, x), n) /\ Len(Slcan!Text(n, x)) = Len(x)
            /\ \A j \in 1..Len(x) : Slcan!Text(n, x)[j].c = x[j]
        BY <3>1, TextOf, Zenon
      <3>3. QED
        BY <2>3, <2>4, <3>2
    <2>6. ASSUME NEW j \in 1..5 PROVE SlcanUnit(t[j])
      <3>1. t[j].n = n /\ t[j].i = j /\ t[j].len = 5 /\ t[j].c = x[j]
        BY <2>5 DEF IsMessage
      <3>2. (j = 1 => t[j].c = "cmd") /\ (j = 5 => t[j].c = "cr")
            /\ (j \in 2..4 => t[j].c \in {"F", "hex"})
        <4>1. CASE j = 1
          BY <2>3, <3>1, <4>1
        <4>2. CASE j = 5
          BY <2>3, <3>1, <4>2
        <4>3. CASE j \in 2..4
          <5>1. j = 2 \/ j = 3 \/ j = 4
            BY <4>3
          <5>2. QED
            BY <2>3, <3>1, <4>3, <5>1
        <4>4. QED
          BY <4>1, <4>2, <4>3
      <3>3. QED
        BY <1>1, <3>1, <3>2 DEF SlcanUnit
    <2>7. QED
      BY <2>1, <2>2, <2>4, <2>5, <2>6, KindUnitIs DEF KindMessage
  <1>2. KindMessage("slcan", Slcan!Answer, 0) /\ Len(Slcan!Answer) = 2
    <2>1. PICK x : x = <<"other", "cr">>
      OBVIOUS
    <2>2. x \in Seq(Classes) /\ Len(x) = 2 /\ x[1] = "other" /\ x[2] = "cr"
      BY <2>1 DEF Classes
    <2>3. PICK t : t = Slcan!Text(0, x)
      OBVIOUS
    <2>4. IsMessage(t, 0) /\ Len(t) = 2 /\ \A j \in 1..2 : t[j].c = x[j]
      BY <2>2, <2>3, TextOf
    <2>5. ASSUME NEW j \in 1..2 PROVE SlcanUnit(t[j])
      <3>1. t[j].n = 0 /\ t[j].i = j /\ t[j].len = 2 /\ t[j].c = x[j]
        BY <2>4 DEF IsMessage
      <3>2. QED
        BY <2>2, <3>1 DEF SlcanUnit
    <2>6. Slcan!Answer = t
      BY <2>1, <2>3 DEF Slcan!Answer
    <2>7. QED
      BY <2>4, <2>5, <2>6, KindUnitIs DEF KindMessage
  <1>3. KindMessage("slcan", Slcan!Bell, 0) /\ Len(Slcan!Bell) = 1
    <2>1. PICK x : x = <<"other">>
      OBVIOUS
    <2>2. x \in Seq(Classes) /\ Len(x) = 1 /\ x[1] = "other"
      BY <2>1 DEF Classes
    <2>3. PICK t : t = Slcan!Text(0, x)
      OBVIOUS
    <2>4. IsMessage(t, 0) /\ Len(t) = 1 /\ \A j \in 1..1 : t[j].c = x[j]
      BY <2>2, <2>3, TextOf
    <2>5. ASSUME NEW j \in 1..1 PROVE SlcanUnit(t[j])
      <3>1. t[j].n = 0 /\ t[j].i = 1 /\ t[j].len = 1 /\ t[j].c = "other"
        BY <2>2, <2>4 DEF IsMessage
      <3>2. QED
        BY <3>1 DEF SlcanUnit
    <2>6. Slcan!Bell = t
      BY <2>1, <2>3 DEF Slcan!Bell
    <2>7. QED
      BY <2>4, <2>5, <2>6, KindUnitIs DEF KindMessage
  <1>4. QED
    BY <1>1, <1>2, <1>3

\* What the device of this kind sends.
LEMMA UnitsAre ==
  ASSUME kind \in AllKinds, NEW n \in Nat, n > 0
  PROVE  KindMessage(kind, Units(n), n)
  <1>1. CASE kind = "vector"
    <2>1. Units(n) = Message(n, 3)
      BY <1>1 DEF Units, Vector!Units, Vector!Message, Message
    <2>2. IsMessage(Units(n), n) /\ Len(Units(n)) = 3
      BY <2>1, MessageOf
    <2>3. ASSUME NEW j \in 1..3 PROVE VectorUnit(Units(n)[j])
      BY <2>2 DEF IsMessage, VectorUnit
    <2>4. QED
      BY <1>1, <2>2, <2>3, KindUnitIs DEF KindMessage
  <1>2. CASE kind = "slcan"
    <2>1. Units(n) = Slcan!Units(n)
      BY <1>2 DEF Units
    <2>2. QED
      BY <1>2, <2>1, SlcanUnits
  <1>3. CASE kind \notin {"vector", "slcan"}
    <2>1. Units(n) = Message(n, 1)
      BY <1>3 DEF Units, Other!Units, Other!Message, Message
    <2>2. IsMessage(Units(n), n) /\ Len(Units(n)) = 1
      BY <2>1, MessageOf
    <2>3. ASSUME NEW j \in 1..1 PROVE Units(n)[j].len = 1 /\ Units(n)[j].n > 0
      BY <2>2 DEF IsMessage
    <2>4. ASSUME NEW j \in 1..1 PROVE KindUnit(kind, Units(n)[j])
      BY <1>3, <2>3, KindUnitIs DEF AllKinds
    <2>5. QED
      BY <2>2, <2>4 DEF KindMessage
  <1>4. QED
    BY <1>1, <1>2, <1>3

\* What is no frame is a message of one or two units.
LEMMA NoiseIs ==
  ASSUME kind \in AllKinds, NEW t \in Noise
  PROVE  KindMessage(kind, t, 0) /\ Len(t) \in 1..2
  <1>1. CASE kind = "vector"
    <2>1. t = Message(0, 2)
      BY <1>1 DEF Noise, Vector!Other, Vector!Message, Message
    <2>2. IsMessage(t, 0) /\ Len(t) = 2
      BY <2>1, MessageOf
    <2>3. ASSUME NEW j \in 1..2 PROVE VectorUnit(t[j])
      BY <2>2 DEF IsMessage, VectorUnit
    <2>4. QED
      BY <1>1, <2>2, <2>3, KindUnitIs DEF KindMessage
  <1>2. CASE kind = "slcan"
    <2>1. t = Slcan!Answer \/ t = Slcan!Bell
      BY <1>2 DEF Noise
    <2>2. QED
      BY <1>2, <2>1, SlcanUnits
  <1>3. CASE kind = "xl"
    <2>1. t = Message(0, 1)
      BY <1>3 DEF Noise, Other!Units, Other!Message, Message
    <2>2. IsMessage(t, 0) /\ Len(t) = 1
      BY <2>1, MessageOf
    <2>3. ASSUME NEW j \in 1..1 PROVE KindUnit(kind, t[j])
      <3>1. t[j].len = 1
        BY <2>2 DEF IsMessage
      <3>2. QED
        BY <1>3, <3>1, KindUnitIs
    <2>4. QED
      BY <2>2, <2>3 DEF KindMessage
  <1>4. kind \in {"vector", "slcan", "xl"}
    BY DEF Noise
  <1>5. QED
    BY <1>1, <1>2, <1>3, <1>4

\* The frames that begin in s are those from w + 1 to x.
Between(s, w, x) == \E b : Numbered(s, b) /\ b[0] = w /\ b[Len(s)] = x

\* What is on its way from a device to the application: whole messages, but for
\* the first one, of which an slcan adapter's flush may have left a part.
Way(kd, s, w, x) ==
  /\ KindStream(kd, s) /\ Ends(s)
  /\ kd # "slcan" => Begins(s)
  /\ Between(s, w, x)
  /\ Noisy(s) <= MaxNoise + 1

\* The constants are numbers.
LEMMA MaxNoiseIsNat == MaxNoise \in Nat /\ AccumMax \in Nat /\ AccumMax >= MaxNoise + 5
                       /\ BatchSize \in Nat /\ BatchSize > 0
  BY AdapterConstants

\* The frames among the units are a row of numbers.
LEMMA BetweenFacts ==
  ASSUME NEW s \in Seq(Unit), NEW w, NEW x, Between(s, w, x)
  PROVE  w \in Nat /\ x \in Nat /\ w <= x /\ FramesIn(s) = Run(w + 1, x)
  <1>1. PICK b : Numbered(s, b) /\ b[0] = w /\ b[Len(s)] = x
    BY DEF Between
  <1>2. 0 \in 0..Len(s) /\ Len(s) \in 0..Len(s)
    OBVIOUS
  <1>3. w \in Nat /\ x \in Nat /\ w <= x
    BY <1>1, <1>2, NumbersGrow
  <1>4. FramesIn(s) = Run(w + 1, x)
    BY <1>1, FramesInIs
  <1>5. QED
    BY <1>3, <1>4

\* Nothing on the way is the way of no frame.
LEMMA WayEmpty ==
  ASSUME NEW kd, NEW x \in Nat
  PROVE  Way(kd, << >>, x, x)
  <1> DEFINE s == << >>
             b == [j \in 0..0 |-> x]
  <1>1. s \in Seq(Unit) /\ Len(s) = 0
    OBVIOUS
  <1> HIDE DEF s
  <1>2. KindStream(kd, s) /\ Ends(s) /\ Begins(s)
    BY <1>1 DEF KindStream, Stream, Ends, Begins
  <1>3. Numbered(s, b) /\ b[0] = x
    BY <1>1 DEF Numbered
  <1>4. Between(s, x, x)
    BY <1>1, <1>3 DEF Between
  <1>5. Noisy(s) <= MaxNoise + 1
    <2>1. Noisy(s) = Cardinality(NoisyAt(s)) /\ NoisyAt(s) = {}
      <3>1. Noisy(s) = Cardinality(NoisyAt(s)) /\ NoisyAt(s) = {j \in 1..Len(s) : s[j].n = 0}
        BY <1>1, NoisyIs
      <3>2. 1..Len(s) = {}
        BY <1>1
      <3>3. QED
        BY <3>1, <3>2
    <2>2. Noisy(s) = 0
      BY <2>1, FS_EmptySet
    <2>3. QED
      BY <2>2, MaxNoiseIsNat
  <1>6. QED
    BY <1>2, <1>4, <1>5 DEF Way, s

\* Behind the end of a message; with an slcan adapter, from anywhere.
LEMMA WayRest ==
  ASSUME NEW kd, NEW s, NEW w, NEW x, Way(kd, s, w, x), NEW b, Numbered(s, b), b[Len(s)] = x,
         NEW e \in 0..Len(s), e > 0 /\ kd # "slcan" => s[e].i = s[e].len
  PROVE  Way(kd, SubSeq(s, e + 1, Len(s)), b[e], x)
  <1> DEFINE L == Len(s)
             t == SubSeq(s, e + 1, L)
  <1>1. Stream(s) /\ s \in Seq(Unit) /\ L \in Nat /\ (\A j \in 1..L : KindUnit(kd, s[j]))
        /\ Ends(s) /\ (kd # "slcan" => Begins(s)) /\ Noisy(s) <= MaxNoise + 1
    BY DEF Way, KindStream, Stream
  <1>2. e + 1 \in 1..(L + 1) /\ L \in ((e + 1) - 1)..L /\ L - (e + 1) + 1 = L - e
    BY <1>1
  <1>3. t \in Seq(Unit) /\ Len(t) = L - e /\ \A k \in 1..(L - e) : t[k] = s[(e + 1) + k - 1]
    <2>1. t \in Seq(Unit) /\ Len(t) = L - (e + 1) + 1 /\ \A k \in 1..(L - (e + 1) + 1) : t[k] = s[(e + 1) + k - 1]
      BY <1>1, <1>2, PartFacts
    <2>2. QED
      BY <1>2, <2>1
  <1>4. Stream(t)
    BY <1>1, <1>2, PartOfStream
  <1> HIDE DEF t, L
  <1>5. \A k \in 1..(L - e) : (e + 1) + k - 1 \in 1..L
    BY <1>1, <1>2
  <1>6. KindStream(kd, t)
    BY <1>1, <1>3, <1>4, <1>5 DEF KindStream
  <1>7. Ends(t)
    <2>1. SUFFICES ASSUME Len(t) > 0 PROVE t[Len(t)].i = t[Len(t)].len
      BY DEF Ends
    <2>2. L - e \in 1..(L - e) /\ (e + 1) + (L - e) - 1 = L /\ L > 0
      <3>1. L \in Nat /\ e + 1 \in 1..(L + 1) /\ L - e > 0
        BY <1>1, <1>2, <1>3, <2>1
      <3>2. QED
        BY <3>1
    <2>3. t[L - e] = s[L]
      BY <1>3, <2>2
    <2>4. s[L].i = s[L].len
      BY <1>1, <2>2 DEF Ends, L
    <2>5. QED
      BY <1>3, <2>3, <2>4
  <1>8. kd # "slcan" => Begins(t)
    <2>1. SUFFICES ASSUME kd # "slcan" PROVE Begins(t)
      OBVIOUS
    <2>2. (e > 0 => s[e].i = s[e].len) /\ (e = 0 => Begins(s))
      BY <1>1, <2>1
    <2>3. QED
      BY <1>1, <2>2, BehindTheEnd DEF t, L
  <1>9. Between(t, b[e], x)
    <2> DEFINE c == [k \in 0..(L - (e + 1) + 1) |-> b[(e + 1) - 1 + k]]
    <2>1. Numbered(t, c)
      BY <1>1, <1>2, PartNumbered DEF t, L
    <2>2. c = [k \in 0..(L - e) |-> b[e + k]]
      BY <1>1, <1>2
    <2>3. 0 \in 0..(L - e) /\ e + 0 = e /\ L - e \in 0..(L - e) /\ e + (L - e) = L
      BY <1>1, <1>2
    <2>4. c[0] = b[e] /\ c[L - e] = b[L]
      BY <2>2, <2>3
    <2> HIDE DEF c
    <2>5. c[Len(t)] = x
      BY <1>3, <2>4 DEF L
    <2>6. QED
      BY <2>1, <2>4, <2>5 DEF Between
  <1>10. Noisy(t) <= MaxNoise + 1
    <2>1. Noisy(t) <= Noisy(s)
      BY <1>1, NoisyRest DEF t, L
    <2>2. Noisy(t) \in Nat /\ Noisy(s) \in Nat
      BY <1>1, <1>3, NoisyIs
    <2>3. QED
      BY <1>1, <2>1, <2>2, MaxNoiseIsNat
  <1>11. QED
    BY <1>6, <1>7, <1>8, <1>9, <1>10 DEF Way, t, L

\* The next message.
LEMMA WayOn ==
  ASSUME NEW kd, NEW s, NEW w, NEW x, Way(kd, s, w, x), NEW n \in Nat, NEW t, KindMessage(kd, t, n),
         n > 0 => n = x + 1, n = 0 => Noisy(s) < MaxNoise /\ Len(t) \in 1..2
  PROVE  Way(kd, s \o t, w, IF n > 0 THEN n ELSE x) /\ Piece(s \o t) = Piece(s)
  <1>1. /\ Stream(s) /\ s \in Seq(Unit) /\ (\A j \in 1..Len(s) : KindUnit(kd, s[j])) /\ Ends(s)
        /\ (kd # "slcan" => Begins(s)) /\ Between(s, w, x) /\ Noisy(s) <= MaxNoise + 1
    BY DEF Way, KindStream, Stream
  <1>2. /\ Stream(t) /\ t \in Seq(Unit) /\ Begins(t) /\ Ends(t) /\ IsMessage(t, n)
        /\ \A j \in 1..Len(t) : KindUnit(kd, t[j])
    BY MessageIsStream DEF KindMessage, Stream
  <1>3. Stream(s \o t) /\ Ends(s \o t) /\ (Begins(s) => Begins(s \o t)) /\ Piece(s \o t) = Piece(s)
    BY <1>1, <1>2, StreamAppend, PieceStays
  <1>4. KindStream(kd, s \o t)
    <2> DEFINE v == s \o t
    <2>1. /\ Len(v) = Len(s) + Len(t) /\ Len(s) \in Nat /\ Len(t) \in Nat
          /\ (\A k \in 1..Len(s) : v[k] = s[k]) /\ \A k \in 1..Len(t) : v[Len(s) + k] = t[k]
      BY <1>1, <1>2, CatFacts
    <2> HIDE DEF v
    <2>2. ASSUME NEW j \in 1..Len(v) PROVE KindUnit(kd, v[j])
      <3>1. CASE j <= Len(s)
        BY <1>1, <2>1, <3>1
      <3>2. CASE j > Len(s)
        <4>1. PICK k : k = j - Len(s)
          OBVIOUS
        <4>2. k \in 1..Len(t) /\ Len(s) + k = j
          BY <2>1, <3>2, <4>1
        <4>3. v[j] = t[k]
          BY <2>1, <4>2
        <4>4. QED
          BY <1>2, <4>2, <4>3
      <3>3. QED
        BY <2>1, <3>1, <3>2
    <2>3. QED
      BY <1>3, <2>2 DEF KindStream, v
  <1>5. Between(s \o t, w, IF n > 0 THEN n ELSE x)
    <2>1. PICK b : Numbered(s, b) /\ b[0] = w /\ b[Len(s)] = x
      BY <1>1 DEF Between
    <2>2. x \in Nat
      BY <1>1, BetweenFacts
    <2>3. PICK c : Numbered(t, c) /\ c[0] = x /\ c[Len(t)] = IF n > 0 THEN n ELSE x
      BY <1>2, <2>2, MessageNumbered
    <2>4. PICK d : Numbered(s \o t, d) /\ d[0] = b[0] /\ d[Len(s \o t)] = c[Len(t)]
      BY <1>1, <1>2, <2>1, <2>3, NumberedAppend
    <2>5. QED
      BY <2>1, <2>3, <2>4 DEF Between
  <1>6. Noisy(s \o t) <= MaxNoise + 1
    <2>1. /\ Noisy(s \o t) <= Noisy(s) + Len(t)
          /\ (\A k \in 1..Len(t) : t[k].n > 0) => Noisy(s \o t) <= Noisy(s)
      BY <1>1, <1>2, NoisyAppend
    <2>2. Noisy(s) \in Nat /\ Noisy(s \o t) \in Nat /\ MaxNoise \in Nat
      <3>1. s \o t \in Seq(Unit)
        BY <1>3 DEF Stream
      <3>2. QED
        BY <1>1, <3>1, NoisyIs, MaxNoiseIsNat
    <2>3. CASE n > 0
      <3>1. \A k \in 1..Len(t) : t[k].n > 0
        BY <1>2, <2>3 DEF IsMessage
      <3>2. QED
        BY <1>1, <2>1, <2>2, <3>1
    <2>4. CASE n = 0
      <3>1. PICK l \in 1..2 : l = Len(t)
        BY <2>4
      <3>2. Noisy(s \o t) <= Noisy(s) + l /\ Noisy(s) < MaxNoise
        BY <2>1, <2>4, <3>1
      <3>3. QED
        BY <2>2, <3>2
    <2>5. QED
      BY <2>3, <2>4
  <1>7. QED
    BY <1>1, <1>3, <1>4, <1>5, <1>6 DEF Way

-----------------------------------------------------------------------------
(* Receiving.                                                               *)

\* What a driver keeps from one call of recv_many() to the next: a message that is
\* not whole, or a line without its return.
Kept(kd, pt) == CASE kd = "vector" -> EndOf(pt) = 0
                  [] kd = "slcan" -> NoReturn(pt, 0, Len(pt) + 1)
                  [] OTHER -> pt = << >>

\* What is received before the first frame that begins.
PieceOf(kd, s) == IF kd = "slcan" THEN Piece(s) ELSE << >>

\* Of the way s recv_many() has seen the first k units. It returns the frames up
\* to the end of a message, unit e, and keeps the rest of the k.
Receives(kd, s, b, k, r) ==
  \E e \in 0..k :
    /\ e > 0 => s[e].i = s[e].len
    /\ r = [frames |-> (IF e = 0 THEN << >> ELSE PieceOf(kd, s)) \o Run(b[0] + 1, b[e]),
            part |-> SubSeq(s, e + 1, k)]
    /\ Kept(kd, SubSeq(s, e + 1, k))

\* Kept, kind by kind.
LEMMA KeptIs ==
  ASSUME NEW pt
  PROVE  /\ Kept("vector", pt) = (EndOf(pt) = 0)
         /\ Kept("slcan", pt) = NoReturn(pt, 0, Len(pt) + 1)
         /\ \A kd \in {"socket", "xl", "canlib", "mock", "echo"} : Kept(kd, pt) = (pt = << >>)
  BY DEF Kept

\* Nothing put before a sequence leaves it.
LEMMA NothingBefore ==
  ASSUME NEW q \in Seq(Nat)
  PROVE  << >> \o q = q
  BY ConcatEmptySeq

\* The first k units of the way.
First(s, b, k, v, c) == /\ v = SubSeq(s, 1, k) /\ Stream(v) /\ v \in Seq(Unit) /\ Len(v) = k
                        /\ \A j \in 1..k : v[j] = s[j]
                        /\ Numbered(v, c) /\ \A j \in 0..k : c[j] = b[j]

\* The first k units are of the frames up to some number, the rest of those behind it.
LEMMA FirstUnits ==
  ASSUME NEW s \in Seq(Unit), Stream(s), NEW b, Numbered(s, b), NEW k \in 0..Len(s)
  PROVE  \E v, c : First(s, b, k, v, c)
  <1> DEFINE v == SubSeq(s, 1, k)
             c == [j \in 0..(k - 1 + 1) |-> b[1 - 1 + j]]
  <1>1. k \in Nat /\ Len(s) \in Nat /\ 1 \in 1..(Len(s) + 1) /\ k \in (1 - 1)..Len(s) /\ k - 1 + 1 = k
    OBVIOUS
  <1>2. Stream(v) /\ Numbered(v, c)
    BY <1>1, PartOfStream, PartNumbered
  <1>3. v \in Seq(Unit) /\ Len(v) = k - 1 + 1 /\ \A j \in 1..(k - 1 + 1) : v[j] = s[1 + j - 1]
    BY <1>1, PartFacts
  <1>4. \A j \in 0..k : c[j] = b[j]
    <2>1. ASSUME NEW j \in 0..k PROVE c[j] = b[j]
      <3>1. 1 - 1 + j = j /\ j \in 0..(k - 1 + 1)
        BY <1>1
      <3>2. QED
        BY <3>1
    <2>2. QED
      BY <2>1
  <1> HIDE DEF v, c
  <1>5. \A j \in 1..k : v[j] = s[j]
    <2>1. ASSUME NEW j \in 1..k PROVE v[j] = s[j]
      <3>1. j \in 1..(k - 1 + 1) /\ 1 + j - 1 = j
        BY <1>1
      <3>2. QED
        BY <1>3, <3>1
    <2>2. QED
      BY <2>1
  <1>6. Len(v) = k
    BY <1>1, <1>3
  <1>7. QED
    BY <1>2, <1>3, <1>4, <1>5, <1>6 DEF v, First

\* The Vector driver receives the frames whose messages are whole, and keeps the rest.
LEMMA VectorReceives ==
  ASSUME NEW pt \in Seq(Unit), NEW ln \in Seq(Unit), NEW w, NEW x, Way("vector", pt \o ln, w, x),
         NEW b, Numbered(pt \o ln, b), EndOf(pt) = 0, NEW k \in 1..Len(ln)
  PROVE  Receives("vector", pt \o ln, b, Len(pt) + k, Vector!Recv(pt, SubSeq(ln, 1, k)))
  <1> DEFINE s == pt \o ln
             K == Len(pt) + k
  <1>1. /\ Stream(s) /\ s \in Seq(Unit) /\ Begins(s)
        /\ \A j \in 1..Len(s) : VectorUnit(s[j])
    <2>1. Stream(s) /\ s \in Seq(Unit) /\ Begins(s) /\ \A j \in 1..Len(s) : KindUnit("vector", s[j])
      BY DEF Way, KindStream, Stream
    <2>2. QED
      BY <2>1, KindUnitIs
  <1>2. K \in Nat /\ K \in 0..Len(s) /\ Len(pt) \in Nat /\ Len(s) \in Nat /\ K > 0
    <2>1. Len(s) = Len(pt) + Len(ln) /\ Len(pt) \in Nat /\ Len(ln) \in Nat /\ k \in Nat /\ k <= Len(ln) /\ k > 0
      BY CatFacts
    <2> HIDE DEF s
    <2>2. QED
      BY <2>1
  <1>3. pt \o SubSeq(ln, 1, k) = SubSeq(s, 1, K)
    <2>1. k \in 0..Len(ln)
      OBVIOUS
    <2>2. QED
      BY <2>1, CatPart
  <1>4. SubSeq(ln, 1, k) \in Seq(Unit)
    BY PartFacts
  <1> HIDE DEF s, K
  <1>5. PICK v, c : First(s, b, K, v, c)
    <2>1. Numbered(s, b)
      BY DEF s
    <2>2. QED
      BY <1>1, <1>2, <2>1, FirstUnits
  <1>6. /\ v = SubSeq(s, 1, K) /\ Stream(v) /\ v \in Seq(Unit) /\ Len(v) = K
        /\ \A j \in 1..K : v[j] = s[j]
        /\ Numbered(v, c) /\ \A j \in 0..K : c[j] = b[j]
    BY <1>5 DEF First
  <1>7. VectorStream(v) /\ Begins(v)
    <2>1. ASSUME NEW j \in 1..Len(v) PROVE VectorUnit(v[j])
      BY <1>1, <1>2, <1>6
    <2>2. Begins(v)
      BY <1>1, <1>2, <1>6 DEF Begins
    <2>3. QED
      BY <1>6, <2>1, <2>2 DEF VectorStream
  <1>8. Vector!Recv(pt, SubSeq(ln, 1, k)) =
          [frames |-> Run(c[0] + 1, c[EndOf(v)]), part |-> SubSeq(v, EndOf(v) + 1, Len(v))]
    <2>1. PICK ws \in Seq(Unit) : ws = SubSeq(ln, 1, k)
      BY <1>4
    <2>2. v = pt \o ws
      BY <1>3, <1>6, <2>1
    <2>3. VectorStream(pt \o ws) /\ Begins(pt \o ws) /\ Numbered(pt \o ws, c)
      BY <1>6, <1>7, <2>2
    <2>4. Vector!Recv(pt, ws) = [frames |-> Run(c[0] + 1, c[EndOf(pt \o ws)]),
                                 part |-> SubSeq(pt \o ws, EndOf(pt \o ws) + 1, Len(pt \o ws))]
      BY <2>3, VectorRecvIs, Zenon
    <2>5. QED
      BY <2>1, <2>2, <2>4
  <1>9. PICK e \in 0..K : e = EndOf(v) /\ (e > 0 => v[e].i = v[e].len)
    BY <1>6, <1>7, EndOfFacts
  <1>10. c[0] = b[0] /\ c[e] = b[e] /\ (e > 0 => s[e].i = s[e].len)
    <2>1. 0 \in 0..K /\ e \in 0..K /\ (e > 0 => e \in 1..K)
      BY <1>2, <1>9
    <2>2. c[0] = b[0] /\ c[e] = b[e]
      BY <1>6, <2>1
    <2>3. e > 0 => v[e] = s[e]
      BY <1>6, <2>1
    <2>4. QED
      BY <1>9, <2>2, <2>3
  <1>11. SubSeq(v, e + 1, K) = SubSeq(s, e + 1, K)
    <2>1. /\ 1 \in 1..(Len(s) + 1) /\ K \in (1 - 1)..Len(s)
          /\ e + 1 \in 1..(K - 1 + 2) /\ K \in ((e + 1) - 1)..(K - 1 + 1)
          /\ 1 + (e + 1) - 1 = e + 1 /\ 1 + K - 1 = K
      BY <1>2, <1>9
    <2>2. SubSeq(SubSeq(s, 1, K), e + 1, K) = SubSeq(s, 1 + (e + 1) - 1, 1 + K - 1)
      BY <1>1, <2>1, SubSub
    <2>3. QED
      BY <1>6, <2>1, <2>2
  <1>12. EndOf(SubSeq(s, e + 1, K)) = 0
    <2>1. EndOf(SubSeq(v, e + 1, Len(v))) = EndOf(v) - e
      BY <1>6, <1>9, EndOfRest
    <2>2. e - e = 0
      BY <1>9
    <2>3. QED
      BY <1>6, <1>9, <1>11, <2>1, <2>2
  <1>13. Run(b[0] + 1, b[e]) = << >> \o Run(b[0] + 1, b[e])
    <2>1. b[0] \in Nat /\ b[e] \in Nat
      BY <1>2, <1>9 DEF Numbered, s
    <2>2. Run(b[0] + 1, b[e]) \in Seq(Nat)
      <3>1. PICK y \in Nat, z \in Nat : y = b[0] + 1 /\ z = b[e]
        BY <2>1
      <3>2. Run(y, z) \in Seq(Nat)
        BY RunFacts
      <3>3. QED
        BY <3>1, <3>2
    <2>3. QED
      BY <2>2, NothingBefore
  <1>14. (IF e = 0 THEN << >> ELSE PieceOf("vector", s)) = << >>
    BY DEF PieceOf
  <1>15. Vector!Recv(pt, SubSeq(ln, 1, k)) =
           [frames |-> (IF e = 0 THEN << >> ELSE PieceOf("vector", s)) \o Run(b[0] + 1, b[e]),
            part |-> SubSeq(s, e + 1, K)]
    BY <1>6, <1>8, <1>9, <1>10, <1>11, <1>13, <1>14
  <1>16. Kept("vector", SubSeq(s, e + 1, K))
    BY <1>12, KeptIs
  <1>17. QED
    BY <1>9, <1>10, <1>15, <1>16 DEF Receives, s, K

\* No line is too long: it is a frame's, and what an adapter says without a return.
LEMMA SlcanReceives ==
  ASSUME NEW pt \in Seq(Unit), NEW ln \in Seq(Unit), NEW w, NEW x, Way("slcan", pt \o ln, w, x),
         NEW b, Numbered(pt \o ln, b), NoReturn(pt, 0, Len(pt) + 1), NEW k \in 1..Len(ln)
  PROVE  Receives("slcan", pt \o ln, b, Len(pt) + k, Slcan!Recv(pt, SubSeq(ln, 1, k)))
  <1>1. PICK s : s = pt \o ln
    OBVIOUS
  <1>2. PICK y \in Nat : y = Len(pt)
    OBVIOUS
  <1>3. PICK K : K = y + k
    OBVIOUS
  <1>4. PICK chars : chars = SubSeq(ln, 1, k)
    OBVIOUS
  <1>5. /\ SlcanStream(s) /\ Stream(s) /\ s \in Seq(Unit) /\ Ends(s) /\ Numbered(s, b)
        /\ Noisy(s) <= MaxNoise + 1
    <2>1. Stream(s) /\ s \in Seq(Unit) /\ Ends(s) /\ Noisy(s) <= MaxNoise + 1
          /\ \A j \in 1..Len(s) : KindUnit("slcan", s[j])
      BY <1>1 DEF Way, KindStream, Stream
    <2>2. \A j \in 1..Len(s) : SlcanUnit(s[j])
      BY <2>1, KindUnitIs
    <2>3. Numbered(s, b)
      BY <1>1
    <2>4. QED
      BY <2>1, <2>2, <2>3 DEF SlcanStream
  <1>6. /\ Len(s) = y + Len(ln) /\ Len(s) \in Nat /\ k \in Nat /\ k > 0 /\ k <= Len(ln) /\ Len(ln) \in Nat
        /\ (\A j \in 1..y : s[j] = pt[j]) /\ \A j \in 1..Len(ln) : s[y + j] = ln[j]
    BY <1>1, <1>2, CatFacts
  <1>7. K \in Nat /\ K \in 0..Len(s) /\ y + k = K /\ K <= Len(s)
    BY <1>2, <1>3, <1>6
  <1>8. chars \in Seq(Unit) /\ Len(chars) = k /\ \A m \in 1..k : chars[m] = s[y + m]
    <2>1. chars \in Seq(Unit) /\ Len(chars) = k - 1 + 1 /\ \A m \in 1..(k - 1 + 1) : chars[m] = ln[1 + m - 1]
      BY <1>4, <1>6, PartFacts
    <2>2. k - 1 + 1 = k /\ \A m \in 1..k : 1 + m - 1 = m /\ m \in 1..Len(ln)
      BY <1>6
    <2>3. QED
      BY <1>6, <2>1, <2>2
  <1>9. pt = SubSeq(s, 1, y) /\ NoReturn(s, 0, y + 1)
    <2>1. pt = SubSeq(s, 1, y)
      BY <1>1, <1>2, CatParts
    <2>2. ASSUME NEW j \in 1..Len(s), 0 < j, j < y + 1 PROVE s[j].c # "cr"
      <3>1. j \in 1..y
        BY <1>2, <1>6, <2>2
      <3>2. pt[j].c # "cr"
        BY <1>2, <3>1 DEF NoReturn
      <3>3. QED
        BY <1>6, <3>1, <3>2
    <2>3. QED
      BY <2>1, <2>2 DEF NoReturn
  <1>10. Slcan!Lines(pt, chars) = Read(s, b, K)
    <2>1. \A m \in 1..Len(chars) : chars[m] = s[y + m]
      BY <1>8
    <2>2. y + Len(chars) <= Len(s) /\ y + Len(chars) = K
      BY <1>7, <1>8
    <2>3. Slcan!Lines(pt, chars) = Read(s, b, y + Len(chars))
      BY <1>5, <1>8, <1>9, <2>1, <2>2, LinesAre, Zenon
    <2>4. QED
      BY <2>2, <2>3
  <1>11. PICK e : e = LastReturn(s, K)
    OBVIOUS
  <1>12. e \in 0..K /\ IsLast(s, e, K)
    BY <1>5, <1>7, <1>11, LastReturnFacts
  <1>13. PICK rest : rest = SubSeq(s, e + 1, K)
    OBVIOUS
  <1>14. rest \in Seq(Unit) /\ Len(rest) = K - e /\ \A j \in 1..(K - e) : rest[j] = s[e + j]
    <2>1. e + 1 \in 1..(Len(s) + 1) /\ K \in ((e + 1) - 1)..Len(s) /\ K - (e + 1) + 1 = K - e
      BY <1>7, <1>12
    <2>2. rest \in Seq(Unit) /\ Len(rest) = K - (e + 1) + 1
          /\ \A j \in 1..(K - (e + 1) + 1) : rest[j] = s[(e + 1) + j - 1]
      BY <1>5, <1>13, <2>1, PartFacts
    <2>3. \A j \in 1..(K - e) : (e + 1) + j - 1 = e + j
      BY <1>7, <1>12
    <2>4. QED
      BY <2>1, <2>2, <2>3
  <1>15. Len(rest) <= AccumMax
    <2>1. K - e <= Noisy(s) + 4
      BY <1>5, <1>7, <1>11, KeptLength
    <2>2. Noisy(s) \in Nat
      BY <1>5, NoisyIs
    <2>3. K - e \in Nat
      BY <1>7, <1>12
    <2>4. QED
      BY <1>5, <1>14, <2>1, <2>2, <2>3, MaxNoiseIsNat
  <1>16. Read(s, b, K) = [frames |-> (IF e = 0 THEN << >> ELSE Piece(s)) \o Run(b[0] + 1, b[e]), part |-> rest]
    BY <1>11, <1>13 DEF Read
  <1>17. Slcan!Recv(pt, chars) = Read(s, b, K)
    <2>1. Read(s, b, K).part = rest
      BY <1>16
    <2>2. ~(Len(rest) > AccumMax)
      <3>1. Len(rest) \in Nat
        BY <1>14
      <3>2. QED
        BY <1>15, <3>1, MaxNoiseIsNat
    <2>3. QED
      BY <1>10, <2>1, <2>2 DEF Slcan!Recv
  <1>18. e > 0 => s[e].i = s[e].len
    <2>1. SUFFICES ASSUME e > 0 PROVE s[e].i = s[e].len
      OBVIOUS
    <2>2. s[e].c = "cr" /\ e \in 1..Len(s)
      BY <1>7, <1>12, <2>1 DEF IsLast
    <2>3. QED
      BY <1>5, <2>2, SlcanAt
  <1>19. NoReturn(rest, 0, Len(rest) + 1)
    <2>1. ASSUME NEW j \in 1..Len(rest), 0 < j, j < Len(rest) + 1 PROVE rest[j].c # "cr"
      <3>1. j \in 1..(K - e)
        BY <1>14
      <3>2. e + j \in 1..Len(s) /\ e < e + j /\ e + j < K + 1
        BY <1>7, <1>12, <3>1
      <3>3. s[e + j].c # "cr"
        BY <1>12, <3>2 DEF IsLast, NoReturn
      <3>4. QED
        BY <1>14, <3>1, <3>3
    <2>2. QED
      BY <2>1 DEF NoReturn
  <1>20. Kept("slcan", rest)
    BY <1>19, KeptIs
  <1>21. PieceOf("slcan", s) = Piece(s)
    BY DEF PieceOf
  <1>22. Slcan!Recv(pt, chars) =
           [frames |-> (IF e = 0 THEN << >> ELSE PieceOf("slcan", s)) \o Run(b[0] + 1, b[e]),
            part |-> SubSeq(s, e + 1, K)]
    BY <1>13, <1>16, <1>17, <1>21
  <1>23. Receives("slcan", s, b, K, Slcan!Recv(pt, chars))
    BY <1>12, <1>13, <1>18, <1>20, <1>22 DEF Receives
  <1>24. QED
    BY <1>1, <1>2, <1>3, <1>4, <1>23

\* The drivers that are given whole frames.
LEMMA OthersReceive ==
  ASSUME NEW kd \in {"socket", "xl", "canlib", "mock", "echo"},
         NEW s, NEW w, NEW x, Way(kd, s, w, x), NEW b, Numbered(s, b),
         NEW k \in 1..Len(s), kd = "mock" => k <= BatchSize
  PROVE  LET v == SubSeq(s, 1, k)
         IN Receives(kd, s, b, k, Whole(CASE kd = "socket" -> Other!SocketRecv(v)
                                         [] kd = "xl" -> Other!XlRecv(v)
                                         [] kd = "canlib" -> Other!CanlibRecv(v)
                                         [] kd = "mock" -> Other!MockRecv(v)
                                         [] kd = "echo" -> Other!EchoRecv(v)))
  <1>1. /\ Stream(s) /\ s \in Seq(Unit) /\ Len(s) \in Nat
        /\ \A j \in 1..Len(s) : KindUnit(kd, s[j])
    BY DEF Way, KindStream, Stream
  <1>2. k \in 0..Len(s) /\ k \in 1..Len(s) /\ k \in Nat /\ k > 0
    BY <1>1
  <1>3. PICK v, c : First(s, b, k, v, c)
    BY <1>1, <1>2, FirstUnits
  <1>4. /\ v = SubSeq(s, 1, k) /\ Stream(v) /\ v \in Seq(Unit) /\ Len(v) = k
        /\ \A j \in 1..k : v[j] = s[j]
        /\ Numbered(v, c) /\ \A j \in 0..k : c[j] = b[j]
    BY <1>3 DEF First
  <1>5. ASSUME NEW j \in 1..k PROVE KindUnit(kd, v[j]) /\ v[j].i = 1 /\ v[j].len = 1
    <2>1. j \in 1..Len(s) /\ j \in 1..Len(v)
      BY <1>1, <1>2, <1>4
    <2>2. KindUnit(kd, v[j])
      BY <1>1, <1>4, <2>1
    <2>3. v[j].len = 1
      <3>1. CASE kd = "xl"
        BY <2>2, <3>1, KindUnitIs
      <3>2. CASE kd # "xl"
        BY <2>2, <3>2, KindUnitIs
      <3>3. QED
        BY <3>1, <3>2
    <2>4. v[j].i \in 1..5 /\ v[j].i <= v[j].len
      BY <1>4, <2>1, UnitAt
    <2>5. QED
      BY <2>2, <2>3, <2>4
  <1>6. c[0] = b[0] /\ c[k] = b[k]
    <2>1. 0 \in 0..k /\ k \in 0..k
      BY <1>2
    <2>2. QED
      BY <1>4, <2>1
  <1>7. b[0] \in Nat /\ b[k] \in Nat /\ Run(b[0] + 1, b[k]) \in Seq(Nat)
    <2>1. b[0] \in Nat /\ b[k] \in Nat
      BY <1>1, <1>2 DEF Numbered
    <2>2. PICK y \in Nat, z \in Nat : y = b[0] + 1 /\ z = b[k]
      BY <2>1
    <2>3. Run(y, z) \in Seq(Nat)
      BY RunFacts
    <2>4. QED
      BY <2>1, <2>2, <2>3
  <1>8. FramesIn(v) = Run(b[0] + 1, b[k])
    <2>1. FramesIn(v) = Run(c[0] + 1, c[Len(v)])
      BY <1>4, FramesInIs
    <2>2. QED
      BY <1>4, <1>6, <2>1
  <1>9. kd # "xl" => [j \in DOMAIN v |-> v[j].n] = Run(b[0] + 1, b[k])
    <2>1. SUFFICES ASSUME kd # "xl" PROVE [j \in DOMAIN v |-> v[j].n] = Run(b[0] + 1, b[k])
      OBVIOUS
    <2>2. ASSUME NEW j \in 1..Len(v) PROVE v[j].i = 1 /\ v[j].n > 0
      <3>1. j \in 1..k
        BY <1>4
      <3>2. KindUnit(kd, v[j]) /\ v[j].i = 1
        BY <1>5, <3>1
      <3>3. v[j].n > 0
        BY <2>1, <3>2, KindUnitIs
      <3>4. QED
        BY <3>2, <3>3
    <2>3. [j \in DOMAIN v |-> v[j].n] = Run(c[0] + 1, c[Len(v)])
      BY <1>4, <2>2, EachIsFrame
    <2>4. QED
      BY <1>4, <1>6, <2>3
  <1> DEFINE recv == CASE kd = "socket" -> Other!SocketRecv(v)
                       [] kd = "xl" -> Other!XlRecv(v)
                       [] kd = "canlib" -> Other!CanlibRecv(v)
                       [] kd = "mock" -> Other!MockRecv(v)
                       [] kd = "echo" -> Other!EchoRecv(v)
  <1>10. recv = Run(b[0] + 1, b[k])
    <2>1. CASE kd = "socket"
      BY <1>9, <2>1 DEF Other!SocketRecv
    <2>2. CASE kd = "xl"
      BY <1>8, <2>2, OtherFramesIn DEF Other!XlRecv
    <2>3. CASE kd = "canlib"
      <3>1. Other!CanlibRecv(v) = [j \in DOMAIN v |-> v[j].n]
        BY <1>2, <1>4, CanlibIs
      <3>2. QED
        BY <1>9, <2>3, <3>1
    <2>4. CASE kd = "mock"
      <3>1. DOMAIN v \cap 1..BatchSize = DOMAIN v
        <4>1. DOMAIN v = 1..k
          BY <1>4
        <4>2. QED
          BY <1>2, <2>4, <4>1, MaxNoiseIsNat
      <3>2. QED
        BY <1>9, <2>4, <3>1 DEF Other!MockRecv
    <2>5. CASE kd = "echo"
      BY <1>9, <2>5 DEF Other!SocketRecv, Other!EchoRecv
    <2>6. QED
      BY <2>1, <2>2, <2>3, <2>4, <2>5
  <1> HIDE DEF recv
  <1>11. Receives(kd, s, b, k, Whole(recv))
    <2>1. SubSeq(s, k + 1, k) = << >>
      BY <1>1, <1>2
    <2>2. s[k].i = s[k].len
      <3>1. k \in 1..k
        BY <1>2
      <3>2. QED
        BY <1>4, <1>5, <3>1
    <2>3. (IF k = 0 THEN << >> ELSE PieceOf(kd, s)) = << >>
      BY DEF PieceOf
    <2>4. << >> \o Run(b[0] + 1, b[k]) = Run(b[0] + 1, b[k])
      BY <1>7, NothingBefore
    <2>5. Whole(recv) = [frames |-> (IF k = 0 THEN << >> ELSE PieceOf(kd, s)) \o Run(b[0] + 1, b[k]),
                         part |-> SubSeq(s, k + 1, k)]
      BY <1>10, <2>1, <2>3, <2>4 DEF Whole
    <2>6. Kept(kd, SubSeq(s, k + 1, k))
      BY <2>1, KeptIs
    <2>7. k \in 0..k
      BY <1>2
    <2>8. QED
      BY <2>2, <2>5, <2>6, <2>7 DEF Receives
  <1>12. QED
    BY <1>4, <1>11 DEF recv

-----------------------------------------------------------------------------
(* What is due to the application.                                          *)

\* What is due to the application of the units on the way s.
DueOf(kd, s) == PieceOf(kd, s) \o FramesIn(s)

\* Due is DueOf of an open adapter's way.
LEMMA DueIsDueOf == Due = IF open THEN DueOf(kind, part \o line) ELSE << >>
  BY DEF Due, DueOf, PieceOf

\* A piece is at most the one number that stands for a torn frame.
LEMMA PieceOfIs ==
  ASSUME NEW kd, NEW s, NEW w, NEW x, Way(kd, s, w, x)
  PROVE  /\ PieceOf(kd, s) \in {<< >>} \cup (IF kd = "slcan" THEN {<<Torn>>} ELSE {})
         /\ PieceOf(kd, s) \in Seq(Nat)
  <1>1. CASE kd = "slcan"
    <2>1. \A j \in 1..Len(s) : KindUnit("slcan", s[j])
      BY <1>1 DEF Way, KindStream
    <2>2. SlcanStream(s) /\ Ends(s)
      BY <1>1, <2>1, KindUnitIs DEF Way, KindStream, SlcanStream
    <2>3. Piece(s) \in {<< >>, <<Torn>>} /\ Piece(s) \in Seq(Nat)
      BY <2>2, PieceIsTorn, PieceIsSeq
    <2>4. QED
      BY <1>1, <2>3 DEF PieceOf
  <1>2. CASE kd # "slcan"
    BY <1>2 DEF PieceOf
  <1>3. QED
    BY <1>1, <1>2

\* Due are the piece, if there is one, and the frames on the way in their order.
LEMMA DueOfIs ==
  ASSUME NEW kd, NEW s, NEW w, NEW x, Way(kd, s, w, x)
  PROVE  /\ w \in Nat /\ x \in Nat /\ w <= x /\ s \in Seq(Unit)
         /\ Run(w + 1, x) \in Seq(Nat)
         /\ DueOf(kd, s) = PieceOf(kd, s) \o Run(w + 1, x) /\ DueOf(kd, s) \in Seq(Nat)
  <1>1. s \in Seq(Unit) /\ Between(s, w, x)
    BY DEF Way, KindStream, Stream
  <1>2. w \in Nat /\ x \in Nat /\ w <= x /\ FramesIn(s) = Run(w + 1, x)
    BY <1>1, BetweenFacts
  <1>3. Run(w + 1, x) \in Seq(Nat)
    <2>1. w + 1 \in Nat
      BY <1>2
    <2>2. QED
      BY <1>2, <2>1, RunFacts
  <1>4. PieceOf(kd, s) \in Seq(Nat)
    BY PieceOfIs
  <1>5. DueOf(kd, s) = PieceOf(kd, s) \o Run(w + 1, x)
    BY <1>2 DEF DueOf
  <1>6. PieceOf(kd, s) \o Run(w + 1, x) \in Seq(Nat)
    BY <1>3, <1>4, CatFacts
  <1>7. QED
    BY <1>1, <1>2, <1>3, <1>5, <1>6

\* recv_many(), having seen the first k units of s, returns r: the rest of the way
\* begins behind frame y, and what is due was that of the rest, behind r's frames.
Hands(kd, s, x, k, r, y) ==
  LET rest == r.part \o SubSeq(s, k + 1, Len(s))
  IN /\ Way(kd, rest, y, x)
     /\ r.part \in Seq(Unit) /\ Kept(kd, r.part)
     /\ r.frames \in Seq(Nat) /\ DueOf(kd, s) = r.frames \o DueOf(kd, rest)

\* Whatever is received was due first, and the rest stays due.
LEMMA ReceivedWas ==
  ASSUME NEW kd, NEW s, NEW w, NEW x, Way(kd, s, w, x), NEW b, Numbered(s, b), b[Len(s)] = x,
         NEW k \in 0..Len(s), NEW r, Receives(kd, s, b, k, r)
  PROVE  \E y : Hands(kd, s, x, k, r, y)
  <1>1. PICK e \in 0..k :
          /\ e > 0 => s[e].i = s[e].len
          /\ r = [frames |-> (IF e = 0 THEN << >> ELSE PieceOf(kd, s)) \o Run(b[0] + 1, b[e]),
                  part |-> SubSeq(s, e + 1, k)]
          /\ Kept(kd, SubSeq(s, e + 1, k))
    BY DEF Receives
  <1>2. PICK f : f = (IF e = 0 THEN << >> ELSE PieceOf(kd, s)) \o Run(b[0] + 1, b[e])
    OBVIOUS
  <1>3. PICK pt : pt = SubSeq(s, e + 1, k)
    OBVIOUS
  <1>4. r.frames = f /\ r.part = pt /\ Kept(kd, pt)
    <2>1. r = [frames |-> f, part |-> pt]
      BY <1>1, <1>2, <1>3
    <2>2. r.frames = f /\ r.part = pt
      BY <2>1
    <2>3. QED
      BY <1>1, <1>3, <2>2
  <1>5. Stream(s) /\ s \in Seq(Unit) /\ Len(s) \in Nat /\ (kd # "slcan" => Begins(s))
    BY DEF Way, KindStream, Stream
  <1>6. e \in 0..Len(s) /\ e \in Nat /\ k \in Nat
    BY <1>5
  <1>7. PICK rest : rest = SubSeq(s, e + 1, Len(s))
    OBVIOUS
  <1>8. pt \in Seq(Unit) /\ pt \o SubSeq(s, k + 1, Len(s)) = rest
    <2>1. /\ e + 1 \in 1..(Len(s) + 1) /\ k \in ((e + 1) - 1)..Len(s) /\ Len(s) \in k..Len(s)
      BY <1>5, <1>6
    <2>2. pt \in Seq(Unit)
      BY <1>3, <1>5, <2>1, PartFacts
    <2>3. SubSeq(s, e + 1, k) \o SubSeq(s, k + 1, Len(s)) = SubSeq(s, e + 1, Len(s))
      BY <1>5, <2>1, ConcatAdjacentSubSeq
    <2>4. QED
      BY <1>3, <1>7, <2>2, <2>3
  <1>9. Way(kd, rest, b[e], x)
    BY <1>1, <1>6, <1>7, WayRest
  <1>10. PICK w0 \in Nat, y \in Nat : w0 = b[0] /\ y = b[e] /\ w0 <= y /\ y <= x /\ x \in Nat
    <2>1. 0 \in 0..Len(s) /\ e \in 0..Len(s)
      BY <1>5, <1>6
    <2>2. b[0] \in Nat /\ b[e] \in Nat /\ b[0] <= b[e]
      BY <1>5, <1>6, <2>1, NumbersGrow
    <2>3. b[e] <= x /\ x \in Nat
      BY <1>9, DueOfIs
    <2>4. QED
      BY <2>2, <2>3
  <1>11. DueOf(kd, s) = PieceOf(kd, s) \o Run(w0 + 1, x) /\ PieceOf(kd, s) \in Seq(Nat)
    <2>1. FramesIn(s) = Run(b[0] + 1, x)
      BY <1>5, FramesInIs
    <2>2. QED
      BY <1>10, <2>1, PieceOfIs DEF DueOf
  <1>12. DueOf(kd, rest) = PieceOf(kd, rest) \o Run(y + 1, x) /\ PieceOf(kd, rest) \in Seq(Nat)
    <2>1. Way(kd, rest, y, x)
      BY <1>9, <1>10
    <2>2. DueOf(kd, rest) = PieceOf(kd, rest) \o Run(y + 1, x)
      <3>1. PICK w1 : w1 = y
        OBVIOUS
      <3>2. Way(kd, rest, w1, x)
        BY <2>1, <3>1
      <3>3. DueOf(kd, rest) = PieceOf(kd, rest) \o Run(w1 + 1, x)
        BY <3>2, DueOfIs
      <3>4. QED
        BY <3>1, <3>3
    <2>3. PieceOf(kd, rest) \in Seq(Nat)
      BY <2>1, PieceOfIs
    <2>4. QED
      BY <2>2, <2>3
  <1>13. /\ Run(w0 + 1, y) \in Seq(Nat) /\ Run(y + 1, x) \in Seq(Nat)
         /\ Run(w0 + 1, y) \o Run(y + 1, x) = Run(w0 + 1, x)
    <2>1. w0 + 1 \in Nat /\ y + 1 \in Nat /\ w0 + 1 <= y + 1
      <3>1. w0 <= y
        BY <1>10
      <3>2. QED
        BY <3>1
    <2>2. Run(w0 + 1, y) \in Seq(Nat) /\ Run(y + 1, x) \in Seq(Nat)
      BY <1>10, <2>1, RunFacts
    <2>3. PICK i \in Nat : i = w0 + 1 /\ i <= y + 1
      BY <2>1
    <2>4. Run(i, y) \o Run(y + 1, x) = Run(i, x)
      <3>1. i \in Nat /\ y \in Nat /\ x \in Nat /\ i <= y + 1 /\ y <= x
        BY <1>10, <2>3
      <3>2. QED
        BY <3>1, RunCat, Zenon
    <2>5. QED
      BY <2>2, <2>3, <2>4
  <1>14. f \in Seq(Nat) /\ DueOf(kd, s) = f \o DueOf(kd, rest)
    <2>1. CASE e = 0
      <3>1. f = << >>
        <4>1. Run(b[0] + 1, b[0]) = << >>
          BY <1>10, EmptyRun
        <4>2. << >> \o << >> = << >>
          OBVIOUS
        <4>3. QED
          BY <1>2, <2>1, <4>1, <4>2
      <3>2. rest = s
        <4>1. SubSeq(s, 1, Len(s)) = s
          BY <1>5, SubSeqFull
        <4>2. e + 1 = 1
          BY <2>1
        <4>3. QED
          BY <1>7, <4>1, <4>2
      <3>3. DueOf(kd, s) \in Seq(Nat)
        BY DueOfIs
      <3>4. << >> \o DueOf(kd, s) = DueOf(kd, s)
        BY <3>3, NothingBefore
      <3>5. QED
        BY <3>1, <3>2, <3>4
    <2>2. CASE e > 0
      <3>1. f = PieceOf(kd, s) \o Run(w0 + 1, y)
        <4>1. e # 0
          BY <1>6, <2>2
        <4>2. QED
          BY <1>2, <1>10, <4>1
      <3>2. Begins(rest)
        <4>1. e = 0 => Begins(s)
          BY <2>2
        <4>2. QED
          BY <1>1, <1>5, <1>6, <1>7, <4>1, BehindTheEnd
      <3>3. PieceOf(kd, rest) = << >>
        <4>1. rest \in Seq(Unit)
          BY <1>9, DueOfIs
        <4>2. Piece(rest) = << >>
          BY <3>2, <4>1, NoPiece
        <4>3. QED
          BY <4>2 DEF PieceOf
      <3>4. DueOf(kd, rest) = Run(y + 1, x)
        BY <1>12, <1>13, <3>3, NothingBefore
      <3>5. f \in Seq(Nat)
        BY <1>11, <1>13, <3>1, CatFacts
      <3>6. (PieceOf(kd, s) \o Run(w0 + 1, y)) \o Run(y + 1, x)
              = PieceOf(kd, s) \o (Run(w0 + 1, y) \o Run(y + 1, x))
        <4>1. PICK g, h, i : g = PieceOf(kd, s) /\ h = Run(w0 + 1, y) /\ i = Run(y + 1, x)
          OBVIOUS
        <4>2. PICK S : S = Nat
          OBVIOUS
        <4>3. g \in Seq(S) /\ h \in Seq(S) /\ i \in Seq(S)
          BY <1>11, <1>13, <4>1, <4>2
        <4>4. (g \o h) \o i = g \o (h \o i)
          BY <4>3, ConcatAssociative, SMTT(30)
        <4>5. QED
          BY <4>1, <4>4
      <3>7. QED
        BY <1>11, <1>13, <3>1, <3>4, <3>5, <3>6
    <2>3. e = 0 \/ e > 0
      BY <1>6
    <2>4. QED
      BY <2>1, <2>2, <2>3
  <1>15. QED
    BY <1>4, <1>8, <1>9, <1>14 DEF Hands

\* The two sequences a sequence is made of.
LEMMA Halves ==
  ASSUME NEW S, NEW s \in Seq(S), NEW t \in Seq(S)
  PROVE  /\ SubSeq(s \o t, 1, Len(s)) = s
         /\ SubSeq(s \o t, Len(s) + 1, Len(s \o t)) = t
         /\ s # << >> => SubSeq(s \o t, 1, 1) = <<Head(s)>> /\ Len(s) \in 1..Len(s \o t)
  <1>1. PICK u : u = s \o t
    OBVIOUS
  <1>2. /\ u \in Seq(S) /\ Len(u) = Len(s) + Len(t) /\ Len(s) \in Nat /\ Len(t) \in Nat
        /\ \A k \in 1..Len(s) : u[k] = s[k]
        /\ \A k \in 1..Len(t) : u[Len(s) + k] = t[k]
    BY <1>1, CatFacts
  <1>3. PICK a : a = SubSeq(u, 1, Len(s))
    OBVIOUS
  <1>4. a \in Seq(S) /\ Len(a) = Len(s) /\ \A i \in 1..Len(s) : a[i] = s[i]
    <2>1. \A i \in 1..Len(s) : u[i] \in S
      BY <1>2
    <2>2. /\ a \in Seq(S) /\ Len(a) = IF 1 <= Len(s) THEN Len(s) - 1 + 1 ELSE 0
          /\ \A i \in 1..(Len(s) - 1 + 1) : a[i] = u[1 + i - 1]
      BY <1>2, <1>3, <2>1, SubSeqProperties
    <2>3. Len(s) - 1 + 1 = Len(s) /\ \A i \in 1..Len(s) : 1 + i - 1 = i
      BY <1>2
    <2>4. QED
      BY <1>2, <2>2, <2>3
  <1>5. a = s
    BY <1>4, SeqEqual
  <1>6. PICK c : c = SubSeq(u, Len(s) + 1, Len(u))
    OBVIOUS
  <1>7. c \in Seq(S) /\ Len(c) = Len(t) /\ \A i \in 1..Len(t) : c[i] = t[i]
    <2>1. \A i \in (Len(s) + 1)..Len(u) : u[i] \in S
      BY <1>2
    <2>2. /\ c \in Seq(S) /\ Len(c) = IF Len(s) + 1 <= Len(u) THEN Len(u) - (Len(s) + 1) + 1 ELSE 0
          /\ \A i \in 1..(Len(u) - (Len(s) + 1) + 1) : c[i] = u[Len(s) + 1 + i - 1]
      BY <1>2, <1>6, <2>1, SubSeqProperties
    <2>3. Len(u) - (Len(s) + 1) + 1 = Len(t) /\ \A i \in 1..Len(t) : Len(s) + 1 + i - 1 = Len(s) + i
      BY <1>2
    <2>4. QED
      BY <1>2, <2>2, <2>3
  <1>8. c = t
    BY <1>7, SeqEqual
  <1>9. ASSUME s # << >> PROVE SubSeq(u, 1, 1) = <<Head(s)>> /\ Len(s) \in 1..Len(u)
    <2>1. Len(s) > 0 /\ Head(s) = s[1]
      BY <1>2, <1>9
    <2>2. u[1] = s[1]
      BY <1>2, <2>1
    <2>3. SubSeq(u, 1, 1) = <<u[1]>>
      <3>1. PICK d : d = SubSeq(u, 1, 1)
        OBVIOUS
      <3>2. \A i \in 1..1 : u[i] \in S
        BY <1>2, <2>1
      <3>3. d \in Seq(S) /\ Len(d) = 1 /\ d[1] = u[1]
        <4>1. d \in Seq(S) /\ Len(d) = 1 - 1 + 1 /\ \A i \in 1..(1 - 1 + 1) : d[i] = u[1 + i - 1]
          BY <3>1, <3>2, SubSeqProperties
        <4>2. QED
          BY <4>1
      <3>4. <<u[1]>> \in Seq(S) /\ Len(<<u[1]>>) = 1 /\ <<u[1]>>[1] = u[1]
        BY <3>2
      <3>5. d = <<u[1]>>
        BY <3>3, <3>4, SeqEqual
      <3>6. QED
        BY <3>1, <3>5
    <2>4. QED
      BY <1>2, <2>1, <2>2, <2>3
  <1>10. QED
    BY <1>1, <1>3, <1>5, <1>6, <1>8, <1>9

\* open() is a list of calls.
LEMMA StepsMany ==
  ASSUME kind \in AllKinds
  PROVE  Len(OpenSteps) \in Nat
  <1>1. Len(Slcan!OpenSteps) = 9
    BY DEF Slcan!OpenSteps
  <1>2. Len(Other!SocketSteps) = 8
    BY DEF Other!SocketSteps
  <1>3. Len(Other!XlSteps) = 9
    BY DEF Other!XlSteps
  <1>4. Len(Other!CanlibSteps) = 5
    BY DEF Other!CanlibSteps
  <1>5. Len(Other!MockSteps) = 1
    BY DEF Other!MockSteps
  <1>6. Len(Vector!OpenSteps) \in Nat
    <2> DEFINE s == Vector!Find
               t == Vector!Firmware
               u == Vector!Channel
               S == {s[j] : j \in 1..7} \cup {t[j] : j \in 1..8} \cup {u[j] : j \in 1..12}
    <2>1. s \in Seq(S)
      BY FindCalls DEF Vector!Find
    <2>2. t \in Seq(S)
      BY FirmwareCalls DEF Vector!Firmware
    <2>3. u \in Seq(S)
      BY ChannelCalls DEF Vector!Channel
    <2>4. Vector!OpenSteps = (s \o t) \o u
      BY DEF Vector!OpenSteps
    <2> HIDE DEF S, s, t, u
    <2>5. s \o t \in Seq(S)
      BY <2>1, <2>2, CatFacts
    <2>6. (s \o t) \o u \in Seq(S)
      BY <2>3, <2>5, CatFacts
    <2>7. QED
      BY <2>4, <2>6
  <1>7. \/ OpenSteps = Slcan!OpenSteps \/ OpenSteps = Other!SocketSteps \/ OpenSteps = Other!XlSteps
        \/ OpenSteps = Other!CanlibSteps \/ OpenSteps = Other!MockSteps \/ OpenSteps = Vector!OpenSteps
    BY DEF OpenSteps, AllKinds
  <1>8. QED
    BY <1>1, <1>2, <1>3, <1>4, <1>5, <1>6, <1>7

\* What recv_many() does with the first k units on the line, whatever the driver.
LEMMA RecvIs ==
  ASSUME kind \in AllKinds, part \in Seq(Unit), line \in Seq(Unit), Kept(kind, part),
         NEW w, Way(kind, part \o line, w, sent), NEW b, Numbered(part \o line, b),
         NEW k \in 1..Most
  PROVE  k \in 1..Len(line) /\ Receives(kind, part \o line, b, Len(part) + k, Recv(SubSeq(line, 1, k)))
  <1>1. k \in 1..Len(line) /\ (kind = "mock" => k <= BatchSize)
    <2>1. Len(line) \in Nat
      OBVIOUS
    <2>2. QED
      BY <2>1, MaxNoiseIsNat DEF Most
  <1>2. CASE kind = "vector"
    <2>1. EndOf(part) = 0
      BY <1>2, KeptIs
    <2>2. Way("vector", part \o line, w, sent)
      BY <1>2
    <2>3. Receives("vector", part \o line, b, Len(part) + k, Vector!Recv(part, SubSeq(line, 1, k)))
      BY <1>1, <2>1, <2>2, VectorReceives
    <2>4. Recv(SubSeq(line, 1, k)) = Vector!Recv(part, SubSeq(line, 1, k))
      BY <1>2 DEF Recv
    <2>5. QED
      BY <1>1, <1>2, <2>3, <2>4
  <1>3. CASE kind = "slcan"
    <2>1. NoReturn(part, 0, Len(part) + 1)
      BY <1>3, KeptIs
    <2>2. Way("slcan", part \o line, w, sent)
      BY <1>3
    <2>3. Receives("slcan", part \o line, b, Len(part) + k, Slcan!Recv(part, SubSeq(line, 1, k)))
      BY <1>1, <2>1, <2>2, SlcanReceives
    <2>4. Recv(SubSeq(line, 1, k)) = Slcan!Recv(part, SubSeq(line, 1, k))
      BY <1>3 DEF Recv
    <2>5. QED
      BY <1>1, <1>3, <2>3, <2>4
  <1>4. CASE kind \in {"socket", "xl", "canlib", "mock", "echo"}
    <2>1. part = << >>
      BY <1>4, KeptIs
    <2>2. part \o line = line /\ Len(part) + k = k
      <3>1. << >> \o line = line
        BY ConcatEmptySeq
      <3>2. Len(part) = 0 /\ k \in Nat
        BY <1>1, <2>1
      <3>3. QED
        BY <2>1, <3>1, <3>2
    <2>3. PICK v : v = SubSeq(line, 1, k)
      OBVIOUS
    <2>4. Way(kind, line, w, sent) /\ Numbered(line, b)
      BY <2>2
    <2>5. Receives(kind, line, b, k, Whole(CASE kind = "socket" -> Other!SocketRecv(v)
                                            [] kind = "xl" -> Other!XlRecv(v)
                                            [] kind = "canlib" -> Other!CanlibRecv(v)
                                            [] kind = "mock" -> Other!MockRecv(v)
                                            [] kind = "echo" -> Other!EchoRecv(v)))
      BY <1>1, <1>4, <2>3, <2>4, OthersReceive
    <2>6. Recv(v) = Whole(CASE kind = "socket" -> Other!SocketRecv(v)
                            [] kind = "xl" -> Other!XlRecv(v)
                            [] kind = "canlib" -> Other!CanlibRecv(v)
                            [] kind = "mock" -> Other!MockRecv(v)
                            [] kind = "echo" -> Other!EchoRecv(v))
      <3>1. CASE kind = "socket"
        BY <3>1 DEF Recv
      <3>2. CASE kind = "xl"
        BY <3>2 DEF Recv
      <3>3. CASE kind = "canlib"
        BY <3>3 DEF Recv
      <3>4. CASE kind = "mock"
        BY <3>4 DEF Recv
      <3>5. CASE kind = "echo"
        BY <3>5 DEF Recv
      <3>6. QED
        BY <1>4, <3>1, <3>2, <3>3, <3>4, <3>5
    <2>7. QED
      BY <1>1, <2>2, <2>3, <2>5, <2>6
  <1>5. QED
    BY <1>2, <1>3, <1>4 DEF AllKinds

\* A driver may keep nothing.
LEMMA KeptNothing ==
  ASSUME NEW kd
  PROVE  Kept(kd, << >>)
  <1>1. PICK pt : pt = << >>
    OBVIOUS
  <1>2. Len(pt) = 0
    BY <1>1
  <1>3. EndOf(pt) = 0 /\ NoReturn(pt, 0, Len(pt) + 1)
    BY <1>2 DEF EndOf, NoReturn
  <1>4. QED
    BY <1>1, <1>3 DEF Kept

\* One more frame is due.
LEMMA DueGrows ==
  ASSUME NEW kd, NEW s, NEW t, NEW w, NEW x, Way(kd, s, w, x), Way(kd, s \o t, w, x + 1),
         Piece(s \o t) = Piece(s)
  PROVE  DueOf(kd, s \o t) = Append(DueOf(kd, s), x + 1)
  <1>1. PICK y : y = x + 1
    OBVIOUS
  <1>2. PICK a, c : a = PieceOf(kd, s) /\ c = Run(w + 1, x)
    OBVIOUS
  <1>3. PICK N : N = Nat
    OBVIOUS
  <1>4. w \in Nat /\ x \in Nat /\ w <= x /\ c \in Seq(N) /\ DueOf(kd, s) = a \o c
    <2>1. /\ w \in Nat /\ x \in Nat /\ w <= x /\ Run(w + 1, x) \in Seq(Nat)
          /\ DueOf(kd, s) = PieceOf(kd, s) \o Run(w + 1, x)
      BY DueOfIs
    <2>2. QED
      BY <1>2, <1>3, <2>1
  <1>5. a \in Seq(N)
    BY <1>2, <1>3, PieceOfIs
  <1>6. DueOf(kd, s \o t) = PieceOf(kd, s \o t) \o Run(w + 1, y)
    <2>1. Way(kd, s \o t, w, y)
      BY <1>1
    <2>2. QED
      BY <2>1, DueOfIs, SMTT(30)
  <1>7. PieceOf(kd, s \o t) = a
    BY <1>2 DEF PieceOf
  <1>8. Run(w + 1, y) = c \o <<y>>
    <2>1. w + 1 \in Nat /\ y \in Nat /\ w + 1 <= x + 1 /\ x <= y
      BY <1>1, <1>4
    <2>2. PICK i \in Nat, k \in Nat : i = w + 1 /\ k = x /\ i <= k + 1
      BY <1>4, <2>1
    <2>3. PICK m \in Nat : m = y /\ k <= m /\ m = k + 1
      BY <1>1, <2>1, <2>2
    <2>4. Run(i, k) \o Run(k + 1, m) = Run(i, m)
      BY <2>2, <2>3, RunCat
    <2>5. Run(m, m) = <<m>>
      <3>1. Run(m, m) = [j \in 1..1 |-> m]
        BY DEF Run
      <3>2. QED
        BY <3>1
    <2>6. QED
      BY <1>2, <2>2, <2>3, <2>4, <2>5
  <1>9. y \in N /\ <<y>> \in Seq(N) /\ a \o c \in Seq(N)
    <2>1. y \in N
      BY <1>1, <1>3, <1>4
    <2>2. a \o c \in Seq(N)
      BY <1>4, <1>5, CatFacts
    <2>3. QED
      BY <2>1, <2>2
  <1>10. (a \o c) \o <<y>> = a \o (c \o <<y>>)
    BY <1>4, <1>5, <1>9, ConcatAssociative
  <1>11. Append(a \o c, y) = (a \o c) \o <<y>>
    BY <1>9, AppendIsConcat
  <1>12. QED
    BY <1>1, <1>4, <1>6, <1>7, <1>8, <1>10, <1>11

-----------------------------------------------------------------------------
(* The invariant, and each action.                                          *)

\* The types.
TypeInv == /\ kind \in Kinds /\ caller \in {"gui", "cli"} /\ open \in BOOLEAN /\ at \in Nat
           /\ line \in Seq(Unit) /\ part \in Seq(Unit) /\ got \in Seq(Nat)

\* What is on the way is numbered up to the last frame handed over, and what the
\* driver keeps of it is the beginning of a message.
WayInv == /\ \E w : Way(kind, part \o line, w, sent)
          /\ Kept(kind, part)

\* open() holds what its calls so far have taken.
OpenInv == /\ ~open => part = << >> /\ got = << >>
           /\ open => at = 0
           /\ at > 0 => held \subseteq Holds(kind, at)
           /\ at > 0 /\ kind = "slcan" => held = Holds(kind, at)

\* The inductive invariant.
Inv == TypeInv /\ WayInv /\ OpenInv

\* A step keeps it, and is a step of the contract or none that the contract sees.
Keeps == Inv' /\ [Contract!Next]_(Contract!vars)

\* What the types say of the driver.
LEMMA KindIs ==
  ASSUME Inv
  PROVE  kind \in AllKinds /\ sent \in Nat /\ Len(line) \in Nat
  <1>1. kind \in AllKinds
    BY AdapterConstants DEF Inv, TypeInv
  <1>2. sent \in Nat
    <2>1. PICK w : Way(kind, part \o line, w, sent)
      BY DEF Inv, WayInv
    <2>2. QED
      BY <2>1, DueOfIs
  <1>3. QED
    BY <1>1, <1>2 DEF Inv, TypeInv

\* While open() is at work nothing is kept and nothing is due.
LEMMA Opening ==
  ASSUME Inv, at > 0
  PROVE  /\ ~open /\ open = FALSE /\ part = << >> /\ got = << >> /\ Due = << >>
         /\ \E w : Way(kind, line, w, sent)
  <1>1. ~open /\ open = FALSE /\ part = << >> /\ got = << >>
    BY DEF Inv, TypeInv, OpenInv
  <1>2. Due = << >>
    BY <1>1, DueIsDueOf
  <1>3. << >> \o line = line
    BY ConcatEmptySeq DEF Inv, TypeInv
  <1>4. \E w : Way(kind, line, w, sent)
    BY <1>1, <1>3 DEF Inv, WayInv
  <1>5. QED
    BY <1>1, <1>2, <1>4

\* A step of open() that changes nothing for the application.
LEMMA OpeningKeeps ==
  ASSUME Inv, at > 0, at' \in Nat, UNCHANGED <<kind, caller, open, left, part, sent, got>>,
         line' \in Seq(Unit), \E w : Way(kind, line', w, sent),
         at' > 0 => held' \subseteq Holds(kind, at'),
         at' > 0 /\ kind = "slcan" => held' = Holds(kind, at')
  PROVE  Keeps
  <1>1. ~open /\ open = FALSE /\ part = << >> /\ got = << >> /\ Due = << >>
    BY Opening
  <1>2. part' \o line' = line'
    <2>1. << >> \o line' = line'
      BY ConcatEmptySeq
    <2>2. QED
      BY <1>1, <2>1
  <1>3. TypeInv'
    BY <1>1 DEF Inv, TypeInv
  <1>4. WayInv'
    <2>1. \E w : Way(kind', part' \o line', w, sent')
      BY <1>2
    <2>2. Kept(kind', part')
      BY DEF Inv, WayInv
    <2>3. QED
      BY <2>1, <2>2 DEF WayInv
  <1>5. OpenInv'
    BY <1>1 DEF OpenInv
  <1>6. Due' = << >>
    BY <1>1 DEF Due
  <1>7. UNCHANGED Contract!vars
    BY <1>1, <1>6 DEF Contract!vars
  <1>8. QED
    BY <1>3, <1>4, <1>5, <1>7 DEF Keeps, Inv

\* connect() makes an adapter.
LEMMA BeginOpenKeeps ==
  ASSUME Inv, BeginOpen
  PROVE  Keeps
  <1>1. /\ ~open /\ open = FALSE /\ at' = 1 /\ held' = {} /\ part' = << >> /\ got' = << >>
        /\ UNCHANGED <<kind, caller, open, left, line, sent>>
    BY DEF BeginOpen, Inv, TypeInv
  <1>2. part' = part /\ got' = got
    BY <1>1 DEF Inv, OpenInv
  <1>3. TypeInv'
    BY <1>1, <1>2 DEF Inv, TypeInv
  <1>4. WayInv'
    BY <1>1, <1>2 DEF Inv, WayInv
  <1>5. OpenInv'
    <2>1. Holds(kind, 1) = {}
      <3>1. kind \in AllKinds
        BY KindIs
      <3>2. QED
        BY <3>1, HoldsAre DEF AllKinds
    <2>2. QED
      BY <1>1, <2>1 DEF OpenInv
  <1>6. Due' = Due
    BY <1>1 DEF Due
  <1>7. UNCHANGED Contract!vars
    BY <1>1, <1>2, <1>6 DEF Contract!vars
  <1>8. QED
    BY <1>3, <1>4, <1>5, <1>7 DEF Keeps, Inv

\* What a call leaves of the line.
LEMMA GoesWay ==
  ASSUME Inv, at > 0, NEW step, step.drops = "some" => kind = "slcan", NEW rest, Goes(step, rest)
  PROVE  rest \in Seq(Unit) /\ \E w : Way(kind, rest, w, sent)
  <1>1. PICK w : Way(kind, line, w, sent)
    BY Opening
  <1>2. line \in Seq(Unit) /\ Len(line) \in Nat /\ sent \in Nat
    BY KindIs DEF Inv, TypeInv
  <1>3. CASE step.drops = "all"
    <2>1. rest = << >>
      BY <1>3 DEF Goes
    <2>2. << >> \in Seq(Unit)
      OBVIOUS
    <2>3. QED
      BY <1>2, <2>1, <2>2, WayEmpty
  <1>4. CASE step.drops = "some"
    <2>1. PICK j \in 0..Len(line) : rest = SubSeq(line, j + 1, Len(line))
      BY <1>4 DEF Goes
    <2>2. PICK b : Numbered(line, b) /\ b[Len(line)] = sent
      BY <1>1 DEF Way, Between
    <2>3. kind = "slcan"
      BY <1>4
    <2>4. Way(kind, rest, b[j], sent)
      BY <1>1, <2>1, <2>2, <2>3, WayRest
    <2>5. rest \in Seq(Unit)
      BY <2>4, DueOfIs
    <2>6. QED
      BY <2>4, <2>5
  <1>5. CASE step.drops = "whole"
    <2>1. PICK j \in 0..Len(line) : /\ j > 0 => line[j].i = line[j].len
                                    /\ rest = SubSeq(line, j + 1, Len(line))
      BY <1>5 DEF Goes
    <2>2. PICK b : Numbered(line, b) /\ b[Len(line)] = sent
      BY <1>1 DEF Way, Between
    <2>3. Way(kind, rest, b[j], sent)
      BY <1>1, <2>1, <2>2, WayRest
    <2>4. rest \in Seq(Unit)
      BY <2>3, DueOfIs
    <2>5. QED
      BY <2>3, <2>4
  <1>6. CASE step.drops \notin {"all", "some", "whole"}
    <2>1. rest = line
      BY <1>6 DEF Goes
    <2>2. QED
      BY <1>1, <1>2, <2>1
  <1>7. QED
    BY <1>3, <1>4, <1>5, <1>6

\* The call that open() is at.
LEMMA NowKeeps ==
  ASSUME Inv, at \in DOMAIN OpenSteps
  PROVE  at > 0 /\ StepKeeps(kind, at, Now)
  BY KindIs, StepsKeep DEF Now

\* A call of open() succeeds.
LEMMA StepDoneKeeps ==
  ASSUME Inv, StepDone
  PROVE  Keeps
  <1>1. /\ at \in DOMAIN OpenSteps /\ at' = at + 1 /\ held' = held \cup Now.takes /\ Goes(Now, line')
        /\ UNCHANGED <<kind, caller, open, left, part, sent, got>>
    BY DEF StepDone
  <1>2. at \in Nat /\ at > 0 /\ StepKeeps(kind, at, Now)
    BY <1>1, NowKeeps DEF Inv, TypeInv
  <1>3. line' \in Seq(Unit) /\ \E w : Way(kind, line', w, sent)
    <2>1. Now.drops = "some" => kind = "slcan"
      BY <1>2 DEF StepKeeps
    <2>2. QED
      BY <1>1, <1>2, <2>1, GoesWay
  <1>4. held' \subseteq Holds(kind, at')
    BY <1>1, <1>2 DEF StepKeeps, Inv, OpenInv
  <1>5. kind = "slcan" => held' = Holds(kind, at')
    BY <1>1, <1>2 DEF StepKeeps, Inv, OpenInv
  <1>6. at' \in Nat
    BY <1>1, <1>2
  <1>7. QED
    BY <1>1, <1>2, <1>3, <1>4, <1>5, <1>6, OpeningKeeps

\* A call of open() is tried again.
LEMMA TryAgainKeeps ==
  ASSUME Inv, TryAgain
  PROVE  Keeps
  <1>1. at \in DOMAIN OpenSteps /\ UNCHANGED <<kind, caller, open, at, held, left, line, part, sent, got>>
    BY DEF TryAgain
  <1>2. at \in Nat /\ at > 0 /\ line \in Seq(Unit)
    BY <1>1, NowKeeps DEF Inv, TypeInv
  <1>3. \E w : Way(kind, line, w, sent)
    BY <1>2, Opening
  <1>4. held \subseteq Holds(kind, at) /\ (kind = "slcan" => held = Holds(kind, at))
    BY <1>2 DEF Inv, OpenInv
  <1>5. QED
    BY <1>1, <1>2, <1>3, <1>4, OpeningKeeps

\* A call of open() whose failure does not matter fails.
LEMMA StepSkippedKeeps ==
  ASSUME Inv, StepSkipped
  PROVE  Keeps
  <1>1. /\ at \in DOMAIN OpenSteps /\ ~Now.needed /\ at' = at + 1
        /\ UNCHANGED <<kind, caller, open, held, left, line, part, sent, got>>
    BY DEF StepSkipped
  <1>2. at \in Nat /\ at > 0 /\ line \in Seq(Unit) /\ StepKeeps(kind, at, Now)
    BY <1>1, NowKeeps DEF Inv, TypeInv
  <1>3. \E w : Way(kind, line, w, sent)
    BY <1>2, Opening
  <1>4. held \subseteq Holds(kind, at) /\ (kind = "slcan" => held = Holds(kind, at))
    BY <1>2 DEF Inv, OpenInv
  <1>5. held \subseteq Holds(kind, at + 1) /\ (kind = "slcan" => held = Holds(kind, at + 1))
    BY <1>1, <1>2, <1>4 DEF StepKeeps
  <1>6. at' \in Nat
    BY <1>1, <1>2
  <1>7. QED
    BY <1>1, <1>2, <1>3, <1>5, <1>6, OpeningKeeps

\* What a failed open leaves is what the contract says of its driver.
LEMMA OpenFailsKeeps ==
  ASSUME Inv, OpenFails
  PROVE  Keeps
  <1>1. /\ at \in DOMAIN OpenSteps /\ Now.needed /\ at' = 0 /\ left' = left \cup (held \ Now.frees)
        /\ UNCHANGED <<kind, caller, open, line, part, sent, got>>
    BY DEF OpenFails
  <1>2. at \in Nat /\ at > 0 /\ StepKeeps(kind, at, Now) /\ kind \in AllKinds
    BY <1>1, NowKeeps, KindIs DEF Inv, TypeInv
  <1>3. ~open /\ open = FALSE /\ part = << >> /\ got = << >> /\ Due = << >>
    BY <1>2, Opening
  <1>4. held \subseteq Holds(kind, at) /\ (kind = "slcan" => held = Holds(kind, at))
    BY <1>2 DEF Inv, OpenInv
  <1>5. TypeInv' /\ WayInv'
    BY <1>1 DEF Inv, TypeInv, WayInv
  <1>6. OpenInv'
    BY <1>1, <1>3 DEF OpenInv
  <1>7. Due' = << >>
    BY <1>1, <1>3 DEF Due
  <1>8. left' = left \/ Contract!OpenLeaves
    <2>1. UNCHANGED <<kind, caller, open, sent, Due, got>>
      BY <1>1, <1>3, <1>7
    <2>2. CASE kind = "slcan"
      <3>1. held \ Now.frees \in {{}, {"port", "tty"}}
        BY <1>1, <1>2, <1>4, <2>2 DEF StepKeeps
      <3>2. left' = left \/ left' = left \cup {"port", "tty"}
        BY <1>1, <3>1
      <3>3. QED
        BY <1>3, <2>1, <2>2, <3>2 DEF Contract!OpenLeaves
    <2>3. CASE kind = "xl"
      <3>1. held \ Now.frees \subseteq {"event"}
        BY <1>1, <1>2, <1>4, <2>3 DEF StepKeeps
      <3>2. left' = left \/ left' = left \cup {"event"}
        BY <1>1, <3>1
      <3>3. QED
        BY <1>3, <2>1, <2>3, <3>2 DEF Contract!OpenLeaves
    <2>4. CASE kind # "slcan" /\ kind # "xl"
      <3>1. held \ Now.frees = {}
        BY <1>1, <1>2, <1>4, <2>4 DEF StepKeeps
      <3>2. QED
        BY <1>1, <3>1
    <2>5. QED
      BY <2>2, <2>3, <2>4
  <1>9. left' = left => UNCHANGED Contract!vars
    BY <1>1, <1>3, <1>7 DEF Contract!vars
  <1>10. QED
    BY <1>5, <1>6, <1>8, <1>9 DEF Keeps, Inv, Contract!Next

\* open() returns true.
LEMMA OpenReturnsKeeps ==
  ASSUME Inv, OpenReturns
  PROVE  Keeps
  <1>1. /\ at = Len(OpenSteps) + 1 /\ open' = TRUE /\ at' = 0
        /\ UNCHANGED <<kind, caller, held, left, line, part, sent, got>>
    BY DEF OpenReturns
  <1>2. kind \in AllKinds /\ at > 0
    <2>1. kind \in AllKinds
      BY KindIs
    <2>2. Len(OpenSteps) \in Nat
      BY <2>1, StepsMany
    <2>3. QED
      BY <1>1, <2>1, <2>2
  <1>3. ~open /\ open = FALSE /\ part = << >> /\ got = << >> /\ Due = << >>
    BY <1>2, Opening
  <1>4. TypeInv' /\ WayInv'
    BY <1>1 DEF Inv, TypeInv, WayInv
  <1>5. OpenInv'
    BY <1>1 DEF OpenInv
  <1>6. PICK w : Way(kind, part \o line, w, sent)
    BY DEF Inv, WayInv
  <1>7. /\ w \in Nat /\ sent \in Nat /\ w <= sent
        /\ DueOf(kind, part \o line) = PieceOf(kind, part \o line) \o Run(w + 1, sent)
    BY <1>6, DueOfIs
  <1>8. PICK piece \in {<< >>} \cup (IF kind = "slcan" THEN {<<Torn>>} ELSE {}) :
          piece = PieceOf(kind, part \o line)
    BY <1>6, PieceOfIs
  <1>9. Due' = piece \o Contract!Frames(w + 1, sent)
    <2>1. Due' = DueOf(kind, part \o line)
      BY <1>1 DEF Due, DueOf, PieceOf
    <2>2. Contract!Frames(w + 1, sent) = Run(w + 1, sent)
      BY DEF Contract!Frames, Run
    <2>3. QED
      BY <1>7, <1>8, <2>1, <2>2
  <1>10. w + 1 \in 1..(sent + 1)
    BY <1>7
  <1>11. Contract!Open
    BY <1>1, <1>3, <1>8, <1>9, <1>10 DEF Contract!Open
  <1>12. QED
    BY <1>4, <1>5, <1>11 DEF Keeps, Inv, Contract!Next

\* close() gives everything back.
LEMMA CloseKeeps ==
  ASSUME Inv, Close
  PROVE  Keeps
  <1>1. /\ open /\ open' = FALSE /\ part' = << >> /\ got' = << >> /\ line' = << >>
        /\ UNCHANGED <<kind, caller, at, left, sent>>
    BY DEF Close
  <1>2. sent \in Nat
    BY KindIs
  <1>3. TypeInv'
    <2>1. << >> \in Seq(Unit) /\ << >> \in Seq(Nat)
      OBVIOUS
    <2>2. QED
      BY <1>1, <2>1 DEF Inv, TypeInv
  <1>4. WayInv'
    <2>1. Way(kind, << >>, sent, sent) /\ Kept(kind, << >>)
      BY <1>2, WayEmpty, KeptNothing
    <2>2. << >> \o << >> = << >>
      OBVIOUS
    <2>3. QED
      BY <1>1, <2>1, <2>2 DEF WayInv
  <1>5. OpenInv'
    BY <1>1 DEF Inv, OpenInv
  <1>6. Due' = << >>
    BY <1>1 DEF Due
  <1>7. Contract!Close
    BY <1>1, <1>6 DEF Contract!Close
  <1>8. QED
    BY <1>3, <1>4, <1>5, <1>7 DEF Keeps, Inv, Contract!Next

\* A frame behind what is on the way.
LEMMA FrameKeeps ==
  ASSUME Inv, sent' = sent + 1, line' = line \o Units(sent + 1),
         UNCHANGED <<kind, caller, open, at, held, left, part, got>>
  PROVE  Keeps
  <1>1. PICK w : Way(kind, part \o line, w, sent)
    BY DEF Inv, WayInv
  <1>2. kind \in AllKinds /\ sent \in Nat
    BY KindIs
  <1>3. PICK t : t = Units(sent + 1)
    OBVIOUS
  <1>4. KindMessage(kind, t, sent + 1) /\ t \in Seq(Unit)
    <2>1. PICK n : n = sent + 1
      OBVIOUS
    <2>2. n \in Nat /\ n > 0
      BY <1>2, <2>1
    <2>3. KindMessage(kind, Units(n), n)
      BY <1>2, <2>2, UnitsAre
    <2>4. KindMessage(kind, t, sent + 1)
      BY <1>3, <2>1, <2>3
    <2>5. QED
      BY <2>4 DEF KindMessage, IsMessage
  <1>5. line' = line \o t /\ line' \in Seq(Unit) /\ part' \o line' = (part \o line) \o t
    <2>1. part \in Seq(Unit) /\ line \in Seq(Unit)
      BY DEF Inv, TypeInv
    <2>2. line \o t \in Seq(Unit)
      BY <1>4, <2>1, CatFacts
    <2>3. (part \o line) \o t = part \o (line \o t)
      <3>1. PICK u, v : u = part /\ v = line
        OBVIOUS
      <3>2. u \in Seq(Unit) /\ v \in Seq(Unit) /\ t \in Seq(Unit)
        BY <1>4, <2>1, <3>1
      <3>3. (u \o v) \o t = u \o (v \o t)
        BY <3>2, ConcatAssociative, SMTT(30)
      <3>4. QED
        BY <3>1, <3>3
    <2>4. QED
      BY <1>3, <2>2, <2>3
  <1>6. Way(kind, (part \o line) \o t, w, sent + 1) /\ Piece((part \o line) \o t) = Piece(part \o line)
    <2>1. PICK n : n = sent + 1
      OBVIOUS
    <2>2. n \in Nat /\ n > 0 /\ n # 0
      BY <1>2, <2>1
    <2>3. KindMessage(kind, t, n)
      BY <1>4, <2>1
    <2>4. /\ Way(kind, (part \o line) \o t, w, IF n > 0 THEN n ELSE sent)
          /\ Piece((part \o line) \o t) = Piece(part \o line)
      BY <1>1, <2>1, <2>2, <2>3, WayOn
    <2>5. (IF n > 0 THEN n ELSE sent) = sent + 1
      BY <2>1, <2>2
    <2>6. QED
      BY <2>4, <2>5
  <1>7. TypeInv'
    BY <1>5 DEF Inv, TypeInv
  <1>8. WayInv'
    <2>1. Way(kind', part' \o line', w, sent')
      BY <1>5, <1>6
    <2>2. Kept(kind', part')
      BY DEF Inv, WayInv
    <2>3. QED
      BY <2>1, <2>2 DEF WayInv
  <1>9. OpenInv'
    BY DEF Inv, OpenInv
  <1>10. Due' = IF open THEN Append(Due, sent + 1) ELSE Due
    <2>1. CASE ~open
      BY <2>1 DEF Due
    <2>2. CASE open
      <3>1. Due = DueOf(kind, part \o line)
        BY <2>2, DueIsDueOf
      <3>2. Due' = DueOf(kind, (part \o line) \o t)
        <4>1. Due' = DueOf(kind', part' \o line')
          BY <2>2 DEF Due, DueOf, PieceOf
        <4>2. QED
          BY <1>5, <4>1
      <3>3. DueOf(kind, (part \o line) \o t) = Append(DueOf(kind, part \o line), sent + 1)
        BY <1>1, <1>6, DueGrows
      <3>4. QED
        BY <2>2, <3>1, <3>2, <3>3
    <2>3. QED
      BY <2>1, <2>2
  <1>11. Contract!Frame
    BY <1>10 DEF Contract!Frame
  <1>12. QED
    BY <1>7, <1>8, <1>9, <1>11 DEF Keeps, Inv, Contract!Next

\* The device says something that is no frame.
LEMMA DeviceSaysKeeps ==
  ASSUME Inv, DeviceSays
  PROVE  Keeps
  <1>1. PICK t \in Noise : line' = line \o t
    BY DEF DeviceSays
  <1>2. Noisy(part \o line) < MaxNoise /\ UNCHANGED <<kind, caller, open, at, held, left, part, sent, got>>
    BY DEF DeviceSays, callVars
  <1>3. PICK w : Way(kind, part \o line, w, sent)
    BY DEF Inv, WayInv
  <1>4. KindMessage(kind, t, 0) /\ Len(t) \in 1..2 /\ t \in Seq(Unit)
    <2>1. KindMessage(kind, t, 0) /\ Len(t) \in 1..2
      BY <1>1, KindIs, NoiseIs
    <2>2. QED
      BY <2>1 DEF KindMessage, IsMessage
  <1>5. line' \in Seq(Unit) /\ part' \o line' = (part \o line) \o t
    <2>1. part \in Seq(Unit) /\ line \in Seq(Unit)
      BY DEF Inv, TypeInv
    <2>2. line \o t \in Seq(Unit)
      BY <1>4, <2>1, CatFacts
    <2>3. (part \o line) \o t = part \o (line \o t)
      <3>1. PICK u, v : u = part /\ v = line
        OBVIOUS
      <3>2. u \in Seq(Unit) /\ v \in Seq(Unit) /\ t \in Seq(Unit)
        BY <1>4, <2>1, <3>1
      <3>3. (u \o v) \o t = u \o (v \o t)
        BY <3>2, ConcatAssociative, SMTT(30)
      <3>4. QED
        BY <3>1, <3>3
    <2>4. QED
      BY <1>1, <1>2, <2>2, <2>3
  <1>6. Way(kind, (part \o line) \o t, w, sent) /\ Piece((part \o line) \o t) = Piece(part \o line)
    <2>1. PICK n \in Nat : n = 0
      OBVIOUS
    <2>2. KindMessage(kind, t, n) /\ ~(n > 0)
      BY <1>4, <2>1
    <2>3. /\ Way(kind, (part \o line) \o t, w, IF n > 0 THEN n ELSE sent)
          /\ Piece((part \o line) \o t) = Piece(part \o line)
      BY <1>2, <1>3, <1>4, <2>2, WayOn
    <2>4. QED
      BY <2>2, <2>3
  <1>7. TypeInv'
    BY <1>2, <1>5 DEF Inv, TypeInv
  <1>8. WayInv'
    <2>1. Way(kind', part' \o line', w, sent')
      BY <1>2, <1>5, <1>6
    <2>2. Kept(kind', part')
      BY <1>2 DEF Inv, WayInv
    <2>3. QED
      BY <2>1, <2>2 DEF WayInv
  <1>9. OpenInv'
    BY <1>2 DEF Inv, OpenInv
  <1>10. Due' = Due
    <2>1. CASE ~open
      BY <1>2, <2>1 DEF Due
    <2>2. CASE open
      <3>1. Due = DueOf(kind, part \o line)
        BY <2>2, DueIsDueOf
      <3>2. Due' = DueOf(kind, (part \o line) \o t)
        <4>1. Due' = DueOf(kind', part' \o line')
          BY <1>2, <2>2 DEF Due, DueOf, PieceOf
        <4>2. QED
          BY <1>2, <1>5, <4>1
      <3>3. DueOf(kind, (part \o line) \o t) = DueOf(kind, part \o line)
        <4>1. DueOf(kind, (part \o line) \o t) = PieceOf(kind, (part \o line) \o t) \o Run(w + 1, sent)
          BY <1>6, DueOfIs
        <4>2. DueOf(kind, part \o line) = PieceOf(kind, part \o line) \o Run(w + 1, sent)
          BY <1>3, DueOfIs
        <4>3. PieceOf(kind, (part \o line) \o t) = PieceOf(kind, part \o line)
          BY <1>6 DEF PieceOf
        <4>4. QED
          BY <4>1, <4>2, <4>3
      <3>4. QED
        BY <3>1, <3>2, <3>3
    <2>3. QED
      BY <2>1, <2>2
  <1>11. UNCHANGED Contract!vars
    BY <1>2, <1>10 DEF Contract!vars
  <1>12. QED
    BY <1>7, <1>8, <1>9, <1>11 DEF Keeps, Inv

\* Receiving: what a call hands over, f, was the front of what is due.
LEMMA RecvKeeps ==
  ASSUME Inv, open, UNCHANGED <<kind, caller, open, at, held, left, sent>>,
         NEW k \in 1..Most, NEW r, r = Recv(SubSeq(line, 1, k)),
         part' = r.part, line' = SubSeq(line, k + 1, Len(line)),
         got' = got \o (IF caller = "gui" THEN r.frames
                        ELSE IF r.frames = << >> THEN << >> ELSE <<Head(r.frames)>>)
  PROVE  Keeps
  <1>1. PICK w, b : /\ Way(kind, part \o line, w, sent)
                    /\ Numbered(part \o line, b) /\ b[Len(part \o line)] = sent
    <2>1. PICK w : Way(kind, part \o line, w, sent)
      BY DEF Inv, WayInv
    <2>2. QED
      BY <2>1 DEF Way, Between
  <1>2. /\ part \in Seq(Unit) /\ line \in Seq(Unit) /\ got \in Seq(Nat) /\ Kept(kind, part)
        /\ kind \in AllKinds
    BY KindIs DEF Inv, TypeInv, WayInv
  <1>3. PICK s : s = part \o line
    OBVIOUS
  <1>4. PICK K : K = Len(part) + k
    OBVIOUS
  <1>5. k \in 1..Len(line) /\ Receives(kind, s, b, K, r)
    BY <1>1, <1>2, <1>3, <1>4, RecvIs
  <1>6. K \in 0..Len(s) /\ line' = SubSeq(s, K + 1, Len(s)) /\ line' \in Seq(Unit)
    <2>1. Len(s) = Len(part) + Len(line) /\ Len(part) \in Nat /\ Len(line) \in Nat /\ s \in Seq(Unit)
      BY <1>2, <1>3, CatFacts
    <2>2. K \in 0..Len(s) /\ k \in 0..Len(line)
      BY <1>4, <1>5, <2>1
    <2>3. SubSeq(line, k + 1, Len(line)) = SubSeq(s, Len(part) + k + 1, Len(s))
      BY <1>2, <1>3, <2>2, CatRest
    <2>4. line' \in Seq(Unit)
      <3>1. k + 1 \in 1..(Len(line) + 1) /\ Len(line) \in ((k + 1) - 1)..Len(line)
        BY <1>5, <2>1
      <3>2. QED
        BY <1>2, <3>1, PartFacts
    <2>5. QED
      BY <1>4, <2>2, <2>3, <2>4
  <1>7. PICK y : Hands(kind, s, sent, K, r, y)
    <2>1. Way(kind, s, w, sent) /\ Numbered(s, b) /\ b[Len(s)] = sent
      BY <1>1, <1>3
    <2>2. QED
      BY <1>5, <1>6, <2>1, ReceivedWas
  <1>8. PICK f : f = r.frames
    OBVIOUS
  <1>9. /\ Way(kind, part' \o line', y, sent) /\ part' \in Seq(Unit) /\ Kept(kind, part')
        /\ f \in Seq(Nat) /\ DueOf(kind, s) = f \o DueOf(kind, part' \o line')
    BY <1>6, <1>7, <1>8 DEF Hands
  <1>10. WayInv'
    BY <1>9 DEF WayInv
  <1>11. OpenInv'
    BY DEF Inv, OpenInv
  <1>12. Due = f \o Due' /\ Due' \in Seq(Nat)
    <2>1. Due = DueOf(kind, s)
      BY <1>3, DueIsDueOf
    <2>2. Due' = DueOf(kind, part' \o line')
      BY DEF Due, DueOf, PieceOf
    <2>3. DueOf(kind, part' \o line') \in Seq(Nat)
      BY <1>9, DueOfIs
    <2>4. QED
      BY <1>9, <2>1, <2>2, <2>3
  <1>13. CASE f = << >>
    <2>1. got' = got \o << >>
      BY <1>8, <1>13
    <2>2. got \o << >> = got
      BY <1>2, ConcatEmptySeq
    <2>3. << >> \o Due' = Due'
      BY <1>12, NothingBefore
    <2>4. UNCHANGED Contract!vars
      BY <1>12, <1>13, <2>1, <2>2, <2>3 DEF Contract!vars
    <2>5. TypeInv'
      BY <1>6, <1>9, <2>1, <2>2 DEF Inv, TypeInv
    <2>6. QED
      BY <1>10, <1>11, <2>4, <2>5 DEF Keeps, Inv
  <1>14. CASE f # << >>
    <2>1. PICK d, e : d = Due /\ e = Due'
      OBVIOUS
    <2>2. /\ SubSeq(d, 1, Len(f)) = f /\ SubSeq(d, Len(f) + 1, Len(d)) = e
          /\ SubSeq(d, 1, 1) = <<Head(f)>> /\ Len(f) \in 1..Len(d)
      <3>1. PICK N : N = Nat
        OBVIOUS
      <3>2. f \in Seq(N) /\ e \in Seq(N) /\ d = f \o e
        BY <1>9, <1>12, <2>1, <3>1
      <3>3. QED
        BY <1>14, <3>2, Halves
    <2>3. caller \in {"gui", "cli"}
      BY DEF Inv, TypeInv
    <2>4. got' = got \o SubSeq(d, 1, IF caller = "gui" THEN Len(f) ELSE 1)
      <3>1. CASE caller = "gui"
        BY <1>8, <2>2, <3>1
      <3>2. CASE caller # "gui"
        BY <1>8, <1>14, <2>2, <3>2
      <3>3. QED
        BY <3>1, <3>2
    <2>5. Contract!Receive
      BY <2>1, <2>2, <2>4 DEF Contract!Receive
    <2>6. got' \in Seq(Nat)
      <3>1. caller = "gui" => got' = got \o f
        BY <1>8
      <3>2. caller # "gui" => got' = got \o <<Head(f)>>
        BY <1>8, <1>14
      <3>3. <<Head(f)>> \in Seq(Nat)
        <4>1. Head(f) \in Nat
          BY <1>9, <1>14
        <4>2. QED
          BY <4>1
      <3>4. got \o f \in Seq(Nat) /\ got \o <<Head(f)>> \in Seq(Nat)
        BY <1>2, <1>9, <3>3, CatFacts
      <3>5. QED
        BY <3>1, <3>2, <3>4
    <2>7. TypeInv'
      BY <1>6, <1>9, <2>6 DEF Inv, TypeInv
    <2>8. QED
      BY <1>10, <1>11, <2>5, <2>7 DEF Keeps, Inv, Contract!Next
  <1>15. QED
    BY <1>13, <1>14

\* Every step.
LEMMA NextKeeps ==
  ASSUME Inv, [Next]_vars
  PROVE  Keeps
  <1>1. CASE BeginOpen
    BY <1>1, BeginOpenKeeps
  <1>2. CASE StepDone
    BY <1>2, StepDoneKeeps
  <1>3. CASE TryAgain
    BY <1>3, TryAgainKeeps
  <1>4. CASE StepSkipped
    BY <1>4, StepSkippedKeeps
  <1>5. CASE OpenFails
    BY <1>5, OpenFailsKeeps
  <1>6. CASE OpenReturns
    BY <1>6, OpenReturnsKeeps
  <1>7. CASE Close
    BY <1>7, CloseKeeps
  <1>8. CASE Send
    <2>1. sent' = sent + 1 /\ line' = line \o Units(sent + 1)
          /\ UNCHANGED <<kind, caller, open, at, held, left, part, got>>
      BY <1>8 DEF Send, callVars
    <2>2. QED
      BY <2>1, FrameKeeps
  <1>9. CASE DeviceSends
    <2>1. sent' = sent + 1 /\ line' = line \o Units(sent + 1)
          /\ UNCHANGED <<kind, caller, open, at, held, left, part, got>>
      BY <1>9 DEF DeviceSends, callVars
    <2>2. QED
      BY <2>1, FrameKeeps
  <1>10. CASE DeviceSays
    BY <1>10, DeviceSaysKeeps
  <1>11. ASSUME NEW k \in 1..Most, RecvMany(k) PROVE Keeps
    <2>1. PICK r : r = Recv(SubSeq(line, 1, k))
      OBVIOUS
    <2>2. /\ open /\ caller = "gui" /\ got' = got \o r.frames /\ part' = r.part
          /\ line' = SubSeq(line, k + 1, Len(line))
          /\ UNCHANGED <<kind, caller, open, at, held, left, sent>>
      BY <1>11, <2>1 DEF RecvMany, callVars
    <2>3. got' = got \o (IF caller = "gui" THEN r.frames
                         ELSE IF r.frames = << >> THEN << >> ELSE <<Head(r.frames)>>)
      BY <2>2
    <2>4. QED
      BY <2>1, <2>2, <2>3, RecvKeeps
  <1>12. ASSUME NEW k \in 1..Most, RecvOne(k) PROVE Keeps
    <2>1. PICK r : r = Recv(SubSeq(line, 1, k))
      OBVIOUS
    <2>2. /\ open /\ caller = "cli" /\ part' = r.part
          /\ got' = got \o (IF r.frames = << >> THEN << >> ELSE <<Head(r.frames)>>)
          /\ line' = SubSeq(line, k + 1, Len(line))
          /\ UNCHANGED <<kind, caller, open, at, held, left, sent>>
      BY <1>12, <2>1 DEF RecvOne, callVars
    <2>3. got' = got \o (IF caller = "gui" THEN r.frames
                         ELSE IF r.frames = << >> THEN << >> ELSE <<Head(r.frames)>>)
      BY <2>2
    <2>4. QED
      BY <2>1, <2>2, <2>3, RecvKeeps
  <1>13. CASE UNCHANGED vars
    <2>1. UNCHANGED <<kind, caller, open, at, held, left, line, part, sent, got>>
      BY <1>13 DEF vars, callVars
    <2>2. Inv'
      BY <2>1 DEF Inv, TypeInv, WayInv, OpenInv
    <2>3. Due' = Due
      BY <2>1 DEF Due
    <2>4. QED
      BY <2>1, <2>2, <2>3 DEF Keeps, Contract!vars
  <1>14. QED
    BY <1>1, <1>2, <1>3, <1>4, <1>5, <1>6, <1>7, <1>8, <1>9, <1>10, <1>11, <1>12, <1>13
       DEF Next, OpenNext, RecvNext

\* Before the first one.
LEMMA InitKeeps ==
  ASSUME Init
  PROVE  Inv /\ Contract!Init
  <1>1. /\ kind \in Kinds /\ caller \in {"gui", "cli"} /\ open = FALSE /\ at = 0 /\ left = {}
        /\ line = << >> /\ part = << >> /\ sent = 0 /\ got = << >>
    BY DEF Init
  <1>2. Due = << >>
    BY <1>1 DEF Due
  <1>3. Way(kind, << >>, 0, 0) /\ Kept(kind, << >>) /\ << >> \o << >> = << >>
    <2>1. Way(kind, << >>, 0, 0)
      BY WayEmpty
    <2>2. QED
      BY <2>1, KeptNothing
  <1>4. WayInv
    BY <1>1, <1>3 DEF WayInv
  <1>5. TypeInv /\ OpenInv
    <2>1. << >> \in Seq(Unit) /\ << >> \in Seq(Nat)
      OBVIOUS
    <2>2. TypeInv
      BY <1>1, <2>1 DEF TypeInv
    <2>3. OpenInv
      BY <1>1 DEF OpenInv
    <2>4. QED
      BY <2>2, <2>3
  <1>6. Contract!Init
    BY <1>1, <1>2 DEF Contract!Init
  <1>7. QED
    BY <1>4, <1>5, <1>6 DEF Inv

\* What a caller of an adapter is promised holds of every driver: each frame is
\* received once, whole and in order, however the bytes are cut into transfers, and
\* a failed open leaves behind only what AdapterContract says.
THEOREM AdaptersKeepContract == Spec => KeepsContract
  <1>1. Init => Inv /\ Contract!Init
    BY InitKeeps
  <1>2. Inv /\ [Next]_vars => Inv' /\ [Contract!Next]_(Contract!vars)
    BY NextKeeps DEF Keeps
  <1>3. QED
    BY <1>1, <1>2, PTL DEF Spec, KeepsContract, Contract!Spec
=============================================================================
