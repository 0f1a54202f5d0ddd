----------------------------- MODULE SensorProofs -----------------------------
(***************************************************************************)
(* The sensors of tblHwmon: whatever labels the drivers give, and as long  *)
(* as no device has a dot in its name, each sensor has names of its own,   *)
(* and the summary tells of those published.                               *)
(***************************************************************************)
EXTENDS ShownProofs

\* Decimal numerals are told apart and have no dots.
Decimal == /\ \A m, n \in Nat : ToString(m) = ToString(n) => m = n
           /\ \A n \in Nat : Dotless(ToString(n))

-----------------------------------------------------------------------------
(* Letters                                                                 *)

Single(point) == Len(point) = 1
Lacks(s, point) == \A i \in 1 .. Len(s) : s[i] # point[1]

\* The letters of what is put together.
Joins(t, z, e) ==
    /\ Len(t) = Len(z) + Len(e)
    /\ \A i \in 1 .. Len(z) : t[i] = z[i]
    /\ \A i \in 1 .. Len(e) : t[Len(z) + i] = e[i]

\* What is put together has the letters of both.
LEMMA Together ==
    ASSUME NEW C, NEW z \in Seq(C), NEW e \in Seq(C), NEW t, t = z \o e
    PROVE  t \in Seq(C) /\ Joins(t, z, e)
  BY DEF Joins

\* What is the same after the same beginning, and before the same end.
LEMMA SameBeginning ==
    ASSUME NEW C, NEW a \in Seq(C), NEW x \in Seq(C), NEW y \in Seq(C), a \o x = a \o y
    PROVE  x = y
<1>1. PICK s : s = a \o x /\ s = a \o y
  OBVIOUS
<1>2. /\ Len(s) = Len(a) + Len(x) /\ \A i \in 1 .. Len(x) : s[Len(a) + i] = x[i]
      /\ Len(s) = Len(a) + Len(y) /\ \A i \in 1 .. Len(y) : s[Len(a) + i] = y[i]
  BY <1>1
<1>3. Len(x) = Len(y)
  BY <1>2
<1>4. \A i \in 1 .. Len(x) : x[i] = y[i]
  BY <1>2, <1>3
<1> QED
  BY <1>3, <1>4, SeqEqual

\* And before the same end.
LEMMA SameEnd ==
    ASSUME NEW C, NEW a \in Seq(C), NEW b \in Seq(C), NEW x \in Seq(C), a \o x = b \o x
    PROVE  a = b
<1>1. PICK s : s = a \o x /\ s = b \o x
  OBVIOUS
<1>2. /\ Len(s) = Len(a) + Len(x) /\ \A i \in 1 .. Len(a) : s[i] = a[i]
      /\ Len(s) = Len(b) + Len(x) /\ \A i \in 1 .. Len(b) : s[i] = b[i]
  BY <1>1
<1>3. Len(a) = Len(b)
  BY <1>2
<1>4. \A i \in 1 .. Len(a) : a[i] = b[i]
  BY <1>2, <1>3
<1> QED
  BY <1>3, <1>4, SeqEqual

\* A single letter of a sequence.
LEMMA OneLetter ==
    ASSUME NEW C, NEW s \in Seq(C), NEW i \in 1 .. Len(s)
    PROVE  SubSeq(s, i, i) = <<s[i]>>
<1>1. PICK t : t = SubSeq(s, i, i)
  OBVIOUS
<1>2. t \in Seq(C) /\ Len(t) = 1 /\ t[1] = s[i]
  BY <1>1, SubSeqProperties
<1>3. t = <<t[1]>>
  BY <1>2
<1> QED
  BY <1>1, <1>2, <1>3

\* A dotless name is without the letter that is the dot.
LEMMA WithoutDot ==
    ASSUME NEW C, NEW point \in Seq(C), point = ".", Single(point), NEW s \in Seq(C), Dotless(s)
    PROVE  Lacks(s, point)
<1> SUFFICES ASSUME NEW i \in 1 .. Len(s), s[i] = point[1] PROVE FALSE
  BY DEF Lacks
<1>1. SubSeq(s, i, i) # point
  BY Zenon DEF Dotless
<1>2. SubSeq(s, i, i) = <<s[i]>>
  BY OneLetter
<1>3. point = <<point[1]>>
  BY DEF Single
<1> QED
  BY <1>1, <1>2, <1>3

\* The dot is one letter.
LEMMA DotIsLetter ==
    ASSUME NEW C, SpelledIn(C)
    PROVE  \E point \in Seq(C) : point = "." /\ Single(point)
  BY LettersAssumption DEF SpelledIn, Words, Single

\* Beginnings of one length are the same.
LEMMA SameLetters ==
    ASSUME NEW C, NEW a \in Seq(C), NEW b \in Seq(C), NEW x \in Seq(C), NEW y \in Seq(C),
           NEW point \in Seq(C),
           NEW p \in Seq(C), Joins(p, a, point), NEW q \in Seq(C), Joins(q, b, point),
           NEW s, Joins(s, p, x), Joins(s, q, y), Len(a) <= Len(b), Len(b) <= Len(a)
    PROVE  a = b
<1>1. PICK n, k : n = Len(a) /\ k = Len(point) /\ n \in Nat /\ k \in Nat
  <2>1. Len(a) \in Nat /\ Len(point) \in Nat
    OBVIOUS
  <2> QED BY <2>1, Zenon
<1>2. Len(b) = n
  <2>1. Len(b) \in Nat
    OBVIOUS
  <2> QED BY <1>1, <2>1
<1>3. Len(p) = n + k /\ \A i \in 1 .. n : p[i] = a[i]
  BY <1>1 DEF Joins
<1>4. Len(q) = n + k /\ \A i \in 1 .. n : q[i] = b[i]
  BY <1>1, <1>2 DEF Joins
<1>5. \A i \in 1 .. n + k : s[i] = p[i]
  BY <1>3 DEF Joins
<1>6. \A i \in 1 .. n + k : s[i] = q[i]
  BY <1>4 DEF Joins
<1>7. \A i \in 1 .. n : i \in 1 .. n + k
  BY <1>1
<1>8. \A i \in 1 .. n : a[i] = b[i]
  BY <1>3, <1>4, <1>5, <1>6, <1>7, Zenon
<1> QED
  BY <1>1, <1>2, <1>8, SeqEqual

Dotted(a, point, x) == (a \o point) \o x

\* A beginning without a dot goes on to the first dot.
LEMMA FirstNotEarlier ==
    ASSUME NEW C, NEW a \in Seq(C), NEW b \in Seq(C), NEW x \in Seq(C), NEW y \in Seq(C),
           NEW point \in Seq(C), Single(point), Lacks(b, point),
           NEW p \in Seq(C), Joins(p, a, point), NEW q \in Seq(C), Joins(q, b, point),
           NEW s, Joins(s, p, x), Joins(s, q, y)
    PROVE  Len(b) <= Len(a)
<1>1. PICK m, n : m = Len(a) /\ n = Len(b) /\ m \in Nat /\ n \in Nat
  <2>1. Len(a) \in Nat /\ Len(b) \in Nat
    OBVIOUS
  <2> QED BY <2>1, Zenon
<1>2. Len(p) = m + 1 /\ p[m + 1] = point[1]
  BY <1>1 DEF Joins, Single
<1>3. Len(q) = n + 1 /\ \A i \in 1 .. n : q[i] = b[i]
  BY <1>1 DEF Joins, Single
<1>4. \A i \in 1 .. m + 1 : s[i] = p[i]
  BY <1>2 DEF Joins
<1>5. \A i \in 1 .. n + 1 : s[i] = q[i]
  BY <1>3 DEF Joins
<1>6. \A i \in 1 .. n : b[i] # point[1]
  BY <1>1 DEF Lacks
<1>7. ~(m < n)
  <2> SUFFICES ASSUME m < n PROVE FALSE
    OBVIOUS
  <2>1. m + 1 \in 1 .. m + 1 /\ m + 1 \in 1 .. n + 1 /\ m + 1 \in 1 .. n
    BY <1>1
  <2>2. s[m + 1] = p[m + 1] /\ s[m + 1] = q[m + 1] /\ q[m + 1] = b[m + 1]
    BY <1>3, <1>4, <1>5, <2>1
  <2>3. b[m + 1] # point[1]
    BY <1>6, <2>1
  <2> QED BY <1>2, <2>2, <2>3, Zenon
<1> QED
  BY <1>1, <1>7

\* Where neither beginning has a dot, the first dot ends it.
LEMMA FirstDot ==
    ASSUME NEW C, NEW a \in Seq(C), NEW b \in Seq(C), NEW x \in Seq(C), NEW y \in Seq(C),
           NEW point \in Seq(C), Single(point), Lacks(a, point), Lacks(b, point),
           Dotted(a, point, x) = Dotted(b, point, y)
    PROVE  a = b /\ x = y
<1>1. PICK p, q, s : /\ p = a \o point /\ q = b \o point
                     /\ s = p \o x /\ s = q \o y
  BY DEF Dotted
<1>2. p \in Seq(C) /\ Joins(p, a, point)
  BY <1>1, Together
<1>3. q \in Seq(C) /\ Joins(q, b, point)
  BY <1>1, Together
<1>4. Joins(s, p, x)
  BY <1>1, <1>2, Together
<1>5. Joins(s, q, y)
  BY <1>1, <1>3, Together
<1>6. Len(b) <= Len(a)
  BY <1>2, <1>3, <1>4, <1>5, FirstNotEarlier
<1>7. Len(a) <= Len(b)
  BY <1>2, <1>3, <1>4, <1>5, FirstNotEarlier
<1>8. a = b
  BY <1>2, <1>3, <1>4, <1>5, <1>6, <1>7, SameLetters
<1> QED
  BY <1>1, <1>2, <1>8, SameBeginning

\* An end without a dot does not begin before the last dot.
LEMMA LastNotLater ==
    ASSUME NEW C, NEW a \in Seq(C), NEW b \in Seq(C), NEW x \in Seq(C), NEW y \in Seq(C),
           NEW point \in Seq(C), Single(point), Lacks(x, point),
           NEW p \in Seq(C), Joins(p, a, point), NEW q \in Seq(C), Joins(q, b, point),
           NEW s, Joins(s, p, x), Joins(s, q, y)
    PROVE  Len(b) <= Len(a)
<1>1. PICK m, n, k : /\ m = Len(a) /\ n = Len(b) /\ k = Len(x)
                     /\ m \in Nat /\ n \in Nat /\ k \in Nat
  <2>1. Len(a) \in Nat /\ Len(b) \in Nat /\ Len(x) \in Nat
    OBVIOUS
  <2> QED BY <2>1, Zenon
<1>2. Len(p) = m + 1
  BY <1>1 DEF Joins, Single
<1>3. Len(q) = n + 1 /\ q[n + 1] = point[1]
  BY <1>1 DEF Joins, Single
<1>4. Len(s) = m + 1 + k /\ \A i \in 1 .. k : s[m + 1 + i] = x[i]
  BY <1>1, <1>2 DEF Joins
<1>5. Len(s) = n + 1 + Len(y) /\ \A i \in 1 .. n + 1 : s[i] = q[i]
  BY <1>3 DEF Joins
<1>6. \A i \in 1 .. k : x[i] # point[1]
  BY <1>1 DEF Lacks
<1>7. ~(m < n)
  <2> SUFFICES ASSUME m < n PROVE FALSE
    OBVIOUS
  <2>1. PICK i : i = n - m
    OBVIOUS
  <2>2. Len(y) \in Nat
    OBVIOUS
  <2>3. i \in 1 .. k /\ m + 1 + i = n + 1 /\ n + 1 \in 1 .. n + 1
    BY <1>1, <1>4, <1>5, <2>1, <2>2
  <2>4. s[m + 1 + i] = x[i] /\ s[n + 1] = q[n + 1]
    BY <1>4, <1>5, <2>3
  <2>5. x[i] # point[1]
    BY <1>6, <2>3
  <2> QED BY <1>3, <2>3, <2>4, <2>5, Zenon
<1> QED
  BY <1>1, <1>7

\* Where neither end has a dot, the last dot begins it.
LEMMA LastDot ==
    ASSUME NEW C, NEW a \in Seq(C), NEW b \in Seq(C), NEW x \in Seq(C), NEW y \in Seq(C),
           NEW point \in Seq(C), Single(point), Lacks(x, point), Lacks(y, point),
           Dotted(a, point, x) = Dotted(b, point, y)
    PROVE  a = b /\ x = y
<1>1. PICK p, q, s : /\ p = a \o point /\ q = b \o point
                     /\ s = p \o x /\ s = q \o y
  BY DEF Dotted
<1>2. p \in Seq(C) /\ Joins(p, a, point)
  BY <1>1, Together
<1>3. q \in Seq(C) /\ Joins(q, b, point)
  BY <1>1, Together
<1>4. Joins(s, p, x)
  BY <1>1, <1>2, Together
<1>5. Joins(s, q, y)
  BY <1>1, <1>3, Together
<1>6. Len(b) <= Len(a)
  BY <1>2, <1>3, <1>4, <1>5, LastNotLater
<1>7. Len(a) <= Len(b)
  BY <1>2, <1>3, <1>4, <1>5, LastNotLater
<1>8. a = b
  BY <1>2, <1>3, <1>4, <1>5, <1>6, <1>7, SameLetters
<1> QED
  BY <1>1, <1>2, <1>8, SameBeginning

-----------------------------------------------------------------------------
(* The names of sensors                                                    *)

\* Sensors at places that are not more than some number.
Bounded(sensors) == \E n \in Nat : DOMAIN sensors \subseteq 1 .. n

\* What a sensor's name is put together of.
Spelling(C, point, dev, sensors, i) ==
    \E label \in Seq(C), number \in Seq(C), count \in Nat :
        /\ label = Label(sensors[i]) /\ count = LabelCount(sensors, i)
        /\ number = ToString(count)
        /\ dev \in Seq(C) /\ Dotted(dev, point, label) \in Seq(C)
        /\ SensorName(dev, sensors, i) = Dotted(Dotted(dev, point, label), point, number)

\* The name SensorName() gives is put together of these.
LEMMA NameOf ==
    ASSUME NEW C, SpelledIn(C), NEW point \in Seq(C), point = ".", NEW dev \in STRING,
           NEW sensors, Bounded(sensors), NEW i, sensors[i].id \in STRING, sensors[i].label \in STRING
    PROVE  Spelling(C, point, dev, sensors, i)
<1>1. PICK label, count, number :
        /\ label = Label(sensors[i]) /\ count = LabelCount(sensors, i)
        /\ number = ToString(count)
  OBVIOUS
<1>2. label \in Seq(C)
  <2>1. Label(sensors[i]) \in {sensors[i].id, sensors[i].label}
    BY Zenon DEF Label
  <2>2. sensors[i].id \in Seq(C) /\ sensors[i].label \in Seq(C)
    BY DEF SpelledIn
  <2> QED BY <1>1, <2>1, <2>2
<1>3. count \in Nat /\ number \in Seq(C)
  BY <1>1, CountIsNatural DEF SpelledIn, Bounded
<1>4. dev \in Seq(C)
  BY DEF SpelledIn
<1>5. Dotted(dev, point, label) \in Seq(C)
  BY <1>2, <1>4 DEF Dotted
<1>6. SensorName(dev, sensors, i) = Dotted(Dotted(dev, point, label), point, number)
  BY <1>1, Zenon DEF SensorName, Dotted
<1> QED
  BY <1>1, <1>2, <1>3, <1>4, <1>5, <1>6, Zenon DEF Spelling

\* What is before the first dot, between the dots, and after the last.
LEMMA BetweenDots ==
    ASSUME NEW C, NEW point \in Seq(C), Single(point),
           NEW dev \in Seq(C), NEW a \in Seq(C), NEW x \in Seq(C), Dotted(dev, point, a) \in Seq(C),
           NEW other \in Seq(C), NEW b \in Seq(C), NEW y \in Seq(C), Dotted(other, point, b) \in Seq(C),
           Lacks(dev, point), Lacks(other, point), Lacks(x, point), Lacks(y, point),
           Dotted(Dotted(dev, point, a), point, x) = Dotted(Dotted(other, point, b), point, y)
    PROVE  dev = other /\ a = b /\ x = y
<1>1. Dotted(dev, point, a) = Dotted(other, point, b) /\ x = y
  BY LastDot
<1>2. dev = other /\ a = b
  BY <1>1, FirstDot
<1> QED
  BY <1>1, <1>2

HasName(name, dev, sensors, i) ==
    /\ dev \in STRING /\ Dotless(dev) /\ Bounded(sensors)
    /\ sensors[i].id \in STRING /\ sensors[i].label \in STRING
    /\ name = SensorName(dev, sensors, i)

\* One name is of one device, if its name has no dot, of one label and number.
LEMMA NamesApart ==
    ASSUME Spelled, Decimal, NEW name,
           NEW dev, NEW sensors, NEW i, HasName(name, dev, sensors, i),
           NEW other, NEW others, NEW j, HasName(name, other, others, j)
    PROVE  /\ dev = other
           /\ Label(sensors[i]) = Label(others[j])
           /\ LabelCount(sensors, i) = LabelCount(others, j)
<1>0. /\ dev \in STRING /\ Dotless(dev) /\ Bounded(sensors)
      /\ sensors[i].id \in STRING /\ sensors[i].label \in STRING
      /\ other \in STRING /\ Dotless(other) /\ Bounded(others)
      /\ others[j].id \in STRING /\ others[j].label \in STRING
      /\ SensorName(dev, sensors, i) = SensorName(other, others, j)
  BY DEF HasName
<1>1. PICK C : SpelledIn(C)
  BY DEF Spelled
<1>2. PICK point \in Seq(C) : point = "." /\ Single(point)
  BY <1>1, DotIsLetter
<1>3. PICK a, x, m :
        /\ a \in Seq(C) /\ x \in Seq(C) /\ m \in Nat
        /\ a = Label(sensors[i]) /\ m = LabelCount(sensors, i)
        /\ x = ToString(m)
        /\ dev \in Seq(C) /\ Dotted(dev, point, a) \in Seq(C)
        /\ SensorName(dev, sensors, i) = Dotted(Dotted(dev, point, a), point, x)
  <2>1. Spelling(C, point, dev, sensors, i)
    BY <1>0, <1>1, <1>2, NameOf
  <2> QED BY <2>1, Zenon DEF Spelling
<1>4. PICK b, y, n :
        /\ b \in Seq(C) /\ y \in Seq(C) /\ n \in Nat
        /\ b = Label(others[j]) /\ n = LabelCount(others, j)
        /\ y = ToString(n)
        /\ other \in Seq(C) /\ Dotted(other, point, b) \in Seq(C)
        /\ SensorName(other, others, j) = Dotted(Dotted(other, point, b), point, y)
  <2>1. Spelling(C, point, other, others, j)
    BY <1>0, <1>1, <1>2, NameOf
  <2> QED BY <2>1, Zenon DEF Spelling
<1>5. Lacks(x, point) /\ Lacks(y, point)
  <2>1. Dotless(x) /\ Dotless(y)
    BY <1>3, <1>4, Zenon DEF Decimal
  <2> QED BY <1>2, <1>3, <1>4, <2>1, WithoutDot, Zenon
<1>6. Lacks(dev, point) /\ Lacks(other, point)
  BY <1>0, <1>2, <1>3, <1>4, WithoutDot, Zenon
<1>7. dev = other /\ a = b /\ x = y
  <2>1. Dotted(Dotted(dev, point, a), point, x) = Dotted(Dotted(other, point, b), point, y)
    BY <1>0, <1>3, <1>4, Zenon
  <2>2. /\ Single(point) /\ dev \in Seq(C) /\ a \in Seq(C) /\ x \in Seq(C)
        /\ Dotted(dev, point, a) \in Seq(C)
    BY <1>2, <1>3, Zenon
  <2>3. /\ other \in Seq(C) /\ b \in Seq(C) /\ y \in Seq(C)
        /\ Dotted(other, point, b) \in Seq(C)
    BY <1>4, Zenon
  <2> QED BY <1>5, <1>6, <2>1, <2>2, <2>3, BetweenDots
<1>8. m = n
  BY <1>3, <1>4, <1>7, Zenon DEF Decimal
<1> QED
  BY <1>3, <1>4, <1>7, <1>8, Zenon

\* Of two sensors with one label the later has the higher number.
LEMMA CountGrows ==
    ASSUME NEW sensors, Bounded(sensors), NEW i \in DOMAIN sensors, NEW j \in DOMAIN sensors, i < j,
           Label(sensors[i]) = Label(sensors[j])
    PROVE  LabelCount(sensors, i) < LabelCount(sensors, j)
<1> DEFINE Same(k) == {x \in DOMAIN sensors : x < k /\ Label(sensors[x]) = Label(sensors[k])}
<1>0. PICK n \in Nat : DOMAIN sensors \subseteq 1 .. n
  BY DEF Bounded
<1>1. IsFiniteSet(Same(j))
  <2>1. IsFiniteSet(1 .. n)
    BY FS_Interval
  <2>2. Same(j) \in SUBSET (1 .. n)
    BY <1>0
  <2> QED BY <2>1, <2>2, FS_Subset
<1>2. Same(i) \in SUBSET Same(j) /\ i \in Same(j) /\ i \notin Same(i)
  BY <1>0
<1>3. PICK s, t : s = Same(i) /\ t = Same(j)
  OBVIOUS
<1>4. IsFiniteSet(s) /\ Cardinality(s) <= Cardinality(t) /\ (Cardinality(t) = Cardinality(s) => t = s)
  <2> HIDE DEF Same
  <2> QED BY <1>1, <1>2, <1>3, FS_Subset
<1>5. Cardinality(s) \in Nat /\ Cardinality(t) \in Nat /\ s # t
  <2> HIDE DEF Same
  <2> QED BY <1>1, <1>2, <1>3, <1>4, FS_CardinalityType
<1>6. LabelCount(sensors, i) = Cardinality(s) /\ LabelCount(sensors, j) = Cardinality(t)
  BY <1>3, Zenon DEF LabelCount
<1> QED
  BY <1>4, <1>5, <1>6

\* So the sensors of a device have names of their own.
LEMMA PlacesApart ==
    ASSUME NEW sensors, Bounded(sensors), NEW i \in DOMAIN sensors, NEW j \in DOMAIN sensors,
           Label(sensors[i]) = Label(sensors[j]),
           LabelCount(sensors, i) = LabelCount(sensors, j)
    PROVE  i = j
<1>1. LabelCount(sensors, i) \in Nat /\ i \in Nat /\ j \in Nat
  BY CountIsNatural DEF Bounded
<1>2. CASE i < j
  BY <1>1, <1>2, CountGrows
<1>3. CASE j < i
  <2>1. LabelCount(sensors, j) < LabelCount(sensors, i)
    BY <1>3, CountGrows
  <2> QED BY <1>1, <2>1
<1> QED
  BY <1>1, <1>2, <1>3

-----------------------------------------------------------------------------
(* The values of a sensor, by the end of their names                       *)

\* The last two letters.
LEMMA TwoLetters ==
    ASSUME NEW C, NEW s \in Seq(C), NEW n \in Nat, Len(s) = n, n > 1
    PROVE  /\ LastTwo(s) \in Seq(C) /\ Len(LastTwo(s)) = 2
           /\ LastTwo(s)[1] = s[n - 1] /\ LastTwo(s)[2] = s[n]
<1>1. PICK t : t = SubSeq(s, n - 1, n)
  OBVIOUS
<1>2. \A i \in n - 1 .. n : s[i] \in C
  OBVIOUS
<1>3. /\ t \in Seq(C) /\ Len(t) = 2
      /\ \A i \in 1 .. 2 : t[i] = s[n - 1 + i - 1]
  <2>1. n - 1 \in Int /\ n \in Int /\ n - (n - 1) + 1 = 2 /\ n - 1 <= n
    OBVIOUS
  <2> QED BY <1>1, <1>2, <2>1, SubSeqProperties
<1>4. t[1] = s[n - 1] /\ t[2] = s[n]
  <2>1. 1 \in 1 .. 2 /\ 2 \in 1 .. 2 /\ n - 1 + 1 - 1 = n - 1 /\ n - 1 + 2 - 1 = n
    OBVIOUS
  <2> QED BY <1>3, <2>1
<1> QED
  BY <1>1, <1>3, <1>4 DEF LastTwo

\* The last two letters of s.
LastOnes(s, a, b) == \E n \in Nat : n > 1 /\ Len(s) = n /\ s[n - 1] = a /\ s[n] = b

\* What ends in the same two letters has the same LastTwo.
LEMMA SameTwo ==
    ASSUME NEW C, NEW s \in Seq(C), NEW t \in Seq(C), NEW a, NEW b,
           LastOnes(s, a, b), LastOnes(t, a, b)
    PROVE  LastTwo(s) = LastTwo(t)
<1>1. PICK p, q : p = LastTwo(s) /\ q = LastTwo(t)
  OBVIOUS
<1>2. p \in Seq(C) /\ Len(p) = 2 /\ p[1] = a /\ p[2] = b
  BY <1>1, TwoLetters DEF LastOnes
<1>3. q \in Seq(C) /\ Len(q) = 2 /\ q[1] = a /\ q[2] = b
  BY <1>1, TwoLetters DEF LastOnes
<1>4. \A i \in 1 .. 2 : i = 1 \/ i = 2
  OBVIOUS
<1>5. \A i \in 1 .. Len(p) : p[i] = q[i]
  BY <1>2, <1>3, <1>4
<1> QED
  BY <1>1, <1>2, <1>3, <1>5, SeqEqual

\* The end of a sequence.
LEMMA EndOf ==
    ASSUME NEW C, NEW s \in Seq(C), NEW k \in Nat \ {0}, NEW n \in Nat, Len(s) = k + n - 1
    PROVE  /\ SubSeq(s, k, k + n - 1) \in Seq(C) /\ Len(SubSeq(s, k, k + n - 1)) = n
           /\ \A i \in 1 .. n : SubSeq(s, k, k + n - 1)[i] = s[k + i - 1]
<1>1. PICK m, t : m = k + n - 1 /\ t = SubSeq(s, k, m)
  OBVIOUS
<1>2. m \in Int /\ k \in Int /\ m - k + 1 = n /\ (IF k <= m THEN m - k + 1 ELSE 0) = n
  BY <1>1
<1>3. \A i \in k .. m : s[i] \in C
  BY <1>1
<1>4. /\ t \in Seq(C) /\ Len(t) = IF k <= m THEN m - k + 1 ELSE 0
      /\ \A i \in 1 .. m - k + 1 : t[i] = s[k + i - 1]
  BY <1>1, <1>2, <1>3, SubSeqProperties
<1> QED
  BY <1>1, <1>2, <1>4

\* What ends with w has its last two letters.
LEMMA EndsAlike ==
    ASSUME NEW C, NEW s \in Seq(C), NEW w \in Seq(C), Len(w) > 1, EndsWith(s, w)
    PROVE  LastTwo(s) = LastTwo(w)
<1>1. PICK m, n : m = Len(s) /\ n = Len(w) /\ m \in Nat /\ n \in Nat
  <2>1. Len(s) \in Nat /\ Len(w) \in Nat
    OBVIOUS
  <2> QED BY <2>1, Zenon
<1>2. m > n /\ n > 1 /\ SubSeq(s, m - n + 1, m) = w
  BY <1>1, Zenon DEF EndsWith
<1>3. PICK k : k = m - n + 1
  OBVIOUS
<1>4. k \in Nat \ {0} /\ m = k + n - 1 /\ n > 1 /\ m > 1
  <2>1. m > n /\ n > 1
    BY <1>2
  <2> QED BY <1>1, <1>3, <2>1
<1>5. PICK t : t = SubSeq(s, k, k + n - 1) /\ t = w
  BY <1>2, <1>3, <1>4, Zenon
<1>6. \A i \in 1 .. n : t[i] = s[k + i - 1]
  <2>1. Len(s) = k + n - 1
    BY <1>1, <1>4
  <2> QED BY <1>1, <1>4, <1>5, <2>1, EndOf
<1>7. t[n - 1] = s[m - 1] /\ t[n] = s[m]
  <2>1. n - 1 \in 1 .. n /\ n \in 1 .. n /\ k + (n - 1) - 1 = m - 1 /\ k + n - 1 = m
    BY <1>1, <1>4
  <2> QED BY <1>6, <2>1
<1>8. PICK a, b : a = t[n - 1] /\ b = t[n]
  OBVIOUS
<1>9. LastOnes(w, a, b) /\ LastOnes(s, a, b)
  BY <1>1, <1>4, <1>5, <1>7, <1>8 DEF LastOnes
<1> QED
  BY <1>9, SameTwo

\* What is put before does not change them.
LEMMA EndStays ==
    ASSUME NEW C, NEW x \in Seq(C), NEW w \in Seq(C), Len(w) > 1
    PROVE  x \o w \in Seq(C) /\ LastTwo(x \o w) = LastTwo(w)
<1>1. PICK m, n : m = Len(x) /\ n = Len(w) /\ m \in Nat /\ n \in Nat
  <2>1. Len(x) \in Nat /\ Len(w) \in Nat
    OBVIOUS
  <2> QED BY <2>1, Zenon
<1>2. PICK s : s = x \o w
  OBVIOUS
<1>3. s \in Seq(C) /\ Len(s) = m + n /\ \A i \in 1 .. n : s[m + i] = w[i]
  BY <1>1, <1>2, Together DEF Joins
<1>4. PICK k, a, b : /\ k = m + n /\ k \in Nat /\ k > 1 /\ n > 1
                     /\ a = w[n - 1] /\ b = w[n] /\ s[k - 1] = a /\ s[k] = b
  <2>1. n - 1 \in 1 .. n /\ n \in 1 .. n /\ m + n - 1 = m + (n - 1) /\ m + n \in Nat /\ m + n > 1
    BY <1>1
  <2> QED BY <1>1, <1>3, <2>1
<1>5. LastOnes(s, a, b) /\ LastOnes(w, a, b)
  BY <1>1, <1>3, <1>4 DEF LastOnes
<1>6. LastTwo(s) = LastTwo(w)
  BY <1>3, <1>5, SameTwo
<1> QED
  BY <1>2, <1>3, <1>6

\* What is put together ends with its end.
LEMMA EndsWithEnd ==
    ASSUME NEW C, NEW x \in Seq(C), Len(x) > 0, NEW w \in Seq(C)
    PROVE  EndsWith(x \o w, w)
<1>1. PICK m, n : m = Len(x) /\ n = Len(w) /\ m \in Nat /\ n \in Nat
  <2>1. Len(x) \in Nat /\ Len(w) \in Nat
    OBVIOUS
  <2> QED BY <2>1, Zenon
<1>2. PICK s : s = x \o w
  OBVIOUS
<1>3. s \in Seq(C) /\ Len(s) = m + n /\ \A i \in 1 .. n : s[m + i] = w[i]
  BY <1>1, <1>2, Together DEF Joins
<1>4. PICK k : k = m + 1
  OBVIOUS
<1>5. k \in Nat \ {0} /\ m + n = k + n - 1 /\ m + n > n /\ m + n - n + 1 = k
  <2>1. m > 0
    BY <1>1
  <2> QED BY <1>1, <1>4, <2>1
<1>6. PICK t : t = SubSeq(s, k, k + n - 1)
  OBVIOUS
<1>7. t \in Seq(C) /\ Len(t) = n /\ \A i \in 1 .. n : t[i] = s[k + i - 1]
  <2>1. Len(s) = k + n - 1
    BY <1>3, <1>5
  <2> QED BY <1>1, <1>3, <1>5, <1>6, <2>1, EndOf
<1>8. \A i \in 1 .. n : t[i] = w[i]
  <2> SUFFICES ASSUME NEW i \in 1 .. n PROVE t[i] = w[i]
    OBVIOUS
  <2>1. k + i - 1 = m + i
    BY <1>1, <1>4
  <2> QED BY <1>3, <1>7, <2>1
<1>9. t = w
  BY <1>1, <1>7, <1>8, SeqEqual
<1>10. Len(s) > Len(w) /\ SubSeq(s, Len(s) - Len(w) + 1, Len(s)) = w
  <2>1. PICK l : l = m + n
    OBVIOUS
  <2>2. Len(s) = l /\ Len(w) = n /\ l > n /\ l - n + 1 = k /\ k + n - 1 = l
    BY <1>1, <1>3, <1>5, <2>1
  <2>3. SubSeq(s, k, l) = w
    BY <1>6, <1>9, <2>2, Zenon
  <2> QED BY <2>2, <2>3, Zenon
<1>11. EndsWith(s, w)
  BY <1>10, Zenon DEF EndsWith
<1> QED
  BY <1>2, <1>11

\* A parameter and its letters.
LEMMA ParamsSpelled ==
    ASSUME NEW C, SpelledIn(C)
    PROVE  \A w \in SensorParams \cup SummaryNames : w \in Seq(C) /\ Len(w) > 1
<1>1. \A w \in SensorParams \cup SummaryNames : w \in Seq(C)
  BY Zenon DEF SpelledIn, Words
<1> QED
  BY <1>1, LettersAssumption, Zenon

\* A value has the name of a sensor and of one parameter.
LEMMA OnlyEnd ==
    ASSUME NEW C, SpelledIn(C), NEW x \in Seq(C), Len(x) > 0,
           NEW v \in SensorParams, NEW w \in SensorParams
    PROVE  EndsWith(x \o v, w) <=> v = w
<1>1. v \in Seq(C) /\ Len(v) > 1 /\ w \in Seq(C) /\ Len(w) > 1
  BY ParamsSpelled
<1>2. v = w => EndsWith(x \o v, w)
  BY <1>1, EndsWithEnd
<1>3. ASSUME v # w, EndsWith(x \o v, w) PROVE FALSE
  <2>1. PICK s : s = x \o v /\ s \in Seq(C) /\ LastTwo(s) = LastTwo(v)
    BY <1>1, EndStays
  <2>2. LastTwo(s) = LastTwo(w)
    BY <1>1, <1>3, <2>1, EndsAlike
  <2>3. LastTwo(v) # LastTwo(w)
    BY <1>3, LettersAssumption, Zenon
  <2> QED BY <2>1, <2>2, <2>3, Zenon
<1> QED
  BY <1>2, <1>3

\* The names of the summary are not of a sensor.
LEMMA SummaryHasNoEnd ==
    ASSUME Spelled, NEW v \in SummaryNames, NEW w \in SensorParams
    PROVE  ~EndsWith(v, w)
<1>1. PICK C : SpelledIn(C)
  BY DEF Spelled
<1>2. v \in Seq(C) /\ w \in Seq(C) /\ Len(w) > 1
  BY <1>1, ParamsSpelled
<1>3. LastTwo(v) # LastTwo(w)
  BY LettersAssumption, Zenon
<1> QED
  BY <1>2, <1>3, EndsAlike

\* A sensor's name has letters.
LEMMA NameHasLetters ==
    ASSUME NEW C, SpelledIn(C), NEW dev \in STRING,
           NEW sensors, Bounded(sensors), NEW i, sensors[i].id \in STRING, sensors[i].label \in STRING
    PROVE  /\ SensorName(dev, sensors, i) \in Seq(C)
           /\ Len(SensorName(dev, sensors, i)) > 0
<1>1. PICK point \in Seq(C) : point = "." /\ Single(point)
  BY DotIsLetter
<1>2. PICK a, x, name :
        /\ a \in Seq(C) /\ x \in Seq(C) /\ dev \in Seq(C) /\ Dotted(dev, point, a) \in Seq(C)
        /\ name = SensorName(dev, sensors, i)
        /\ name = Dotted(Dotted(dev, point, a), point, x)
  <2>1. Spelling(C, point, dev, sensors, i)
    BY <1>1, NameOf
  <2>2. PICK label \in Seq(C), number \in Seq(C), count \in Nat :
          /\ number = ToString(count)
          /\ dev \in Seq(C) /\ Dotted(dev, point, label) \in Seq(C)
          /\ SensorName(dev, sensors, i) = Dotted(Dotted(dev, point, label), point, number)
    BY <2>1, Zenon DEF Spelling
  <2> QED
    BY <2>2, Zenon
<1>3. name \in Seq(C) /\ Len(name) > 0
  <2>1. PICK d : d = Dotted(dev, point, a) /\ d \in Seq(C) /\ name = (d \o point) \o x
    BY <1>2, Zenon DEF Dotted
  <2>2. PICK e : e = d \o point
    OBVIOUS
  <2>3. e \in Seq(C) /\ Len(e) = Len(d) + Len(point)
    BY <2>1, <2>2, Together DEF Joins
  <2>4. name \in Seq(C) /\ Len(name) = Len(e) + Len(x)
    BY <1>2, <2>1, <2>2, <2>3, Together DEF Joins
  <2>5. Len(point) = 1 /\ Len(d) \in Nat /\ Len(x) \in Nat
    BY <1>1, <1>2, <2>1 DEF Single
  <2> QED BY <2>3, <2>4, <2>5
<1> QED
  BY <1>2, <1>3

-----------------------------------------------------------------------------
(* What is published of the sensors at a set of places                     *)

\* Each place has a name of its own that ends with w, and no other name does.
Lists(next, w, P, key, val) ==
    /\ \A x : x \in DOMAIN next /\ EndsWith(x, w) <=> \E p \in P : x = key[p]
    /\ \A p \in P : next[key[p]] = val[p]
    /\ \A p, q \in P : key[p] = key[q] => p = q

\* Among pairs whose other names do not end with w.
LEMMA NamedLists ==
    ASSUME NEW w, NEW P, NEW key, NEW val, NEW rest,
           NEW T, T = {<<key[p], val[p]>> : p \in P},
           \A p, q \in P : key[p] = key[q] => p = q,
           \A p \in P : EndsWith(key[p], w),
           \A p \in rest : ~EndsWith(p[1], w)
    PROVE  Lists(Named(T \cup rest), w, P, key, val)
<1>1. PICK S : S = T \cup rest
  OBVIOUS
<1>2. ASSUME NEW x PROVE x \in DOMAIN Named(S) /\ EndsWith(x, w) <=> \E p \in P : x = key[p]
  <2>1. x \in DOMAIN Named(S) <=> \E s \in S : s[1] = x
    BY DEF Named
  <2>2. ASSUME NEW s \in S, s[1] = x, EndsWith(x, w) PROVE \E p \in P : x = key[p]
    <3>1. s \notin rest
      BY <2>2
    <3>2. PICK p \in P : s = <<key[p], val[p]>>
      BY <1>1, <3>1
    <3> QED BY <2>2, <3>2
  <2>3. ASSUME NEW p \in P, x = key[p] PROVE EndsWith(x, w) /\ \E s \in S : s[1] = x
    <3>1. <<key[p], val[p]>> \in S /\ <<key[p], val[p]>>[1] = x
      BY <1>1, <2>3
    <3> QED BY <2>3, <3>1
  <2> QED BY <2>1, <2>2, <2>3
<1>3. ASSUME NEW p \in P PROVE Named(S)[key[p]] = val[p]
  <2>1. <<key[p], val[p]>> \in S
    BY <1>1
  <2>2. ASSUME NEW s \in S, s[1] = key[p] PROVE s[2] = val[p]
    <3>1. s \notin rest
      BY <2>2
    <3>2. PICK q \in P : s = <<key[q], val[q]>>
      BY <1>1, <3>1
    <3>3. key[q] = key[p]
      BY <2>2, <3>2
    <3>4. q = p
      BY <3>3
    <3> QED BY <3>2, <3>4
  <2> QED BY <2>1, <2>2, NamedOnce
<1> QED
  BY <1>1, <1>2, <1>3, Zenon DEF Lists

\* The values of several, with the names of each its own.
EachLists(n, maps, w, of, keys, vals) ==
    /\ n \in Nat /\ DOMAIN maps = 1 .. n /\ DOMAIN of = 1 .. n
    /\ \A i \in 1 .. n : Lists(maps[i], w, DOMAIN of[i], keys[i], vals[i])
    /\ \A i, j \in 1 .. n : \A a \in DOMAIN of[i], b \in DOMAIN of[j] :
           keys[i][a] = keys[j][b] => i = j

\* They are the values at their places.
LEMMA AllList ==
    ASSUME NEW w, NEW n, NEW maps, NEW of, NEW keys, NEW vals,
           EachLists(n, maps, w, of, keys, vals),
           NEW key, NEW val, \A p \in Places(of) : /\ key[p] = keys[p[1]][p[2]]
                                                   /\ val[p] = vals[p[1]][p[2]]
    PROVE  Lists(OverAll(maps), w, Places(of), key, val)
<1>0. n \in Nat /\ DOMAIN maps = 1 .. n /\ DOMAIN of = 1 .. n
  BY DEF EachLists
<1>1. /\ \A i \in 1 .. n : Lists(maps[i], w, DOMAIN of[i], keys[i], vals[i])
      /\ \A i, j \in 1 .. n : \A a \in DOMAIN of[i], b \in DOMAIN of[j] :
             keys[i][a] = keys[j][b] => i = j
  BY DEF EachLists
<1>2. \A p : p \in Places(of) <=>
          \E i \in 1 .. n : \E a \in DOMAIN of[i] : p = <<i, a>>
  BY <1>0 DEF Places
<1>3. \A i \in 1 .. n : \A a \in DOMAIN of[i] :
          /\ <<i, a>> \in Places(of) /\ key[<<i, a>>] = keys[i][a] /\ val[<<i, a>>] = vals[i][a]
  BY <1>2
<1> DEFINE next == OverAll(maps)
<1>4. /\ \A x : x \in DOMAIN next <=> \E i \in 1 .. n : x \in DOMAIN maps[i]
      /\ \A x \in DOMAIN next : \E i \in 1 .. n : x \in DOMAIN maps[i] /\ next[x] = maps[i][x]
  BY <1>0, LastIsOver
<1> HIDE DEF next
<1>5. ASSUME NEW i \in 1 .. n
      PROVE  /\ \A x : x \in DOMAIN maps[i] /\ EndsWith(x, w) <=> \E a \in DOMAIN of[i] : x = keys[i][a]
             /\ \A a \in DOMAIN of[i] : maps[i][keys[i][a]] = vals[i][a]
             /\ \A a, b \in DOMAIN of[i] : keys[i][a] = keys[i][b] => a = b
  BY <1>1, Zenon DEF Lists
<1>6. ASSUME NEW x PROVE x \in DOMAIN next /\ EndsWith(x, w) <=> \E p \in Places(of) : x = key[p]
  <2>1. ASSUME x \in DOMAIN next, EndsWith(x, w) PROVE \E p \in Places(of) : x = key[p]
    <3>1. PICK i \in 1 .. n : x \in DOMAIN maps[i]
      BY <1>4, <2>1
    <3>2. PICK a \in DOMAIN of[i] : x = keys[i][a]
      BY <1>5, <2>1, <3>1
    <3> QED BY <1>3, <3>2
  <2>2. ASSUME NEW p \in Places(of), x = key[p] PROVE x \in DOMAIN next /\ EndsWith(x, w)
    <3>1. PICK i \in 1 .. n : \E a \in DOMAIN of[i] : p = <<i, a>>
      BY <1>2
    <3>2. PICK a \in DOMAIN of[i] : p = <<i, a>>
      BY <3>1
    <3>3. x = keys[i][a]
      BY <1>3, <2>2, <3>2
    <3>4. x \in DOMAIN maps[i] /\ EndsWith(x, w)
      BY <1>5, <3>3
    <3> QED BY <1>4, <3>4
  <2> QED BY <2>1, <2>2
<1>7. ASSUME NEW p \in Places(of) PROVE next[key[p]] = val[p]
  <2>1. PICK i \in 1 .. n : \E a \in DOMAIN of[i] : p = <<i, a>>
    BY <1>2
  <2>2. PICK a \in DOMAIN of[i] : p = <<i, a>>
    BY <2>1
  <2>3. PICK x : x = key[p] /\ x = keys[i][a]
    BY <1>3, <2>2
  <2>4. x \in DOMAIN next /\ EndsWith(x, w)
    BY <1>6, <2>3
  <2>5. PICK j \in 1 .. n : x \in DOMAIN maps[j] /\ next[x] = maps[j][x]
    BY <1>4, <2>4
  <2>6. PICK b \in DOMAIN of[j] : x = keys[j][b]
    BY <1>5, <2>4, <2>5
  <2>7. i = j
    <3>1. keys[i][a] = keys[j][b]
      BY <2>3, <2>6
    <3> QED BY <1>1, <3>1
  <2> QED BY <1>3, <1>5, <2>2, <2>3, <2>5, <2>7
<1>8. ASSUME NEW p \in Places(of), NEW q \in Places(of), key[p] = key[q] PROVE p = q
  <2>1. PICK i \in 1 .. n, j \in 1 .. n :
          (\E a \in DOMAIN of[i] : p = <<i, a>>) /\ \E b \in DOMAIN of[j] : q = <<j, b>>
    BY <1>2
  <2>2. PICK a \in DOMAIN of[i], b \in DOMAIN of[j] : p = <<i, a>> /\ q = <<j, b>>
    BY <2>1
  <2>3. keys[i][a] = keys[j][b]
    BY <1>3, <1>8, <2>2
  <2>4. i = j
    BY <1>1, <2>3
  <2>5. a = b
    BY <1>5, <2>3, <2>4
  <2> QED BY <2>2, <2>4, <2>5
<1>9. Lists(next, w, Places(of), key, val)
  BY <1>6, <1>7, <1>8 DEF Lists
<1> QED
  BY <1>9 DEF next

\* What is laid over without such names changes none.
LEMMA OverLists ==
    ASSUME NEW w, NEW P, NEW key, NEW val, NEW before, NEW later, Lists(before, w, P, key, val),
           \A x \in DOMAIN later : ~EndsWith(x, w)
    PROVE  Lists(Over(later, before), w, P, key, val)
<1>1. PICK next : next = Over(later, before)
  OBVIOUS
<1>2. \A x : x \in DOMAIN next <=> x \in DOMAIN later \/ x \in DOMAIN before
  BY <1>1 DEF Over
<1>3. \A x \in DOMAIN before : x \notin DOMAIN later => next[x] = before[x]
  BY <1>1 DEF Over
<1>4. \A p \in P : key[p] \in DOMAIN before /\ EndsWith(key[p], w)
  BY DEF Lists
<1>5. \A x : x \in DOMAIN next /\ EndsWith(x, w) <=> \E p \in P : x = key[p]
  BY <1>2 DEF Lists
<1>6. \A p \in P : next[key[p]] = val[p]
  BY <1>3, <1>4 DEF Lists
<1> QED
  BY <1>1, <1>5, <1>6 DEF Lists

\* As many names as places, for any of them.
LEMMA ListedMany ==
    ASSUME NEW P, IsFiniteSet(P), NEW key, \A p, q \in P : key[p] = key[q] => p = q
    PROVE  /\ Cardinality({key[p] : p \in P}) = Cardinality(P)
           /\ IsFiniteSet({key[p] : p \in P})
<1>1. PICK S, f : S = {key[p] : p \in P} /\ f = [p \in P |-> key[p]]
  OBVIOUS
<1>2. f \in Bijection(P, S)
  BY <1>1 DEF Bijection, Injection, Surjection, IsInjective
<1>3. IsFiniteSet(S) /\ Cardinality(S) = Cardinality(P)
  BY <1>2, FS_Bijection DEF ExistsBijection
<1> QED
  BY <1>1, <1>3

-----------------------------------------------------------------------------
(* What is published of one device                                         *)

\* Thermometers, or fans, have the names of their places.
NamedAfter(xs, dev, sensors) ==
    /\ dev \in STRING /\ Dotless(dev)
    /\ Bounded(sensors) /\ DOMAIN xs = DOMAIN sensors
    /\ \A i \in DOMAIN sensors : /\ xs[i].name = SensorName(dev, sensors, i)
                                 /\ sensors[i].id \in STRING /\ sensors[i].label \in STRING

\* The thermometers of a device are named in this way.
LEMMA TempsNamed ==
    ASSUME NEW d \in HwDevice, Dotless(d.name)
    PROVE  NamedAfter(Temps(d), d.name, Listed(d.temps, HasTemp))
<1>1. PICK sensors, dev, xs :
        sensors = Listed(d.temps, HasTemp) /\ dev = d.name /\ xs = Temps(d)
  OBVIOUS
<1>2. dev \in STRING /\ d.temps \in Seq(TempSensor)
  BY <1>1 DEF HwDevice
<1>3. Bounded(sensors) /\ \A i \in DOMAIN sensors : sensors[i] \in TempSensor
  BY <1>1, <1>2, ListedOnes DEF Bounded
<1>4. \A x \in TempSensor : x.id \in STRING /\ x.label \in STRING
  BY DEF TempSensor
<1>5. DOMAIN xs = DOMAIN sensors /\ \A i \in DOMAIN sensors : xs[i].name = SensorName(dev, sensors, i)
  BY <1>1 DEF Temps
<1>6. NamedAfter(xs, dev, sensors)
  BY <1>1, <1>2, <1>3, <1>4, <1>5 DEF NamedAfter
<1> QED
  BY <1>1, <1>6, Zenon

\* And so are its fans.
LEMMA FansNamed ==
    ASSUME NEW d \in HwDevice, Dotless(d.name)
    PROVE  NamedAfter(Fans(d), d.name, Listed(d.fans, HasFan))
<1>1. PICK sensors, dev, xs :
        sensors = Listed(d.fans, HasFan) /\ dev = d.name /\ xs = Fans(d)
  OBVIOUS
<1>2. dev \in STRING /\ d.fans \in Seq(FanSensor)
  BY <1>1 DEF HwDevice
<1>3. Bounded(sensors) /\ \A i \in DOMAIN sensors : sensors[i] \in FanSensor
  BY <1>1, <1>2, ListedOnes DEF Bounded
<1>4. \A x \in FanSensor : x.id \in STRING /\ x.label \in STRING
  BY DEF FanSensor
<1>5. DOMAIN xs = DOMAIN sensors /\ \A i \in DOMAIN sensors : xs[i].name = SensorName(dev, sensors, i)
  BY <1>1 DEF Fans
<1>6. NamedAfter(xs, dev, sensors)
  BY <1>1, <1>2, <1>3, <1>4, <1>5 DEF NamedAfter
<1> QED
  BY <1>1, <1>6, Zenon

\* The name of a value.
Key(xs, w) == [i \in DOMAIN xs |-> xs[i].name \o w]

\* The name of a sensor is spelled with letters, and has some.
LEMMA KeySpelled ==
    ASSUME NEW C, SpelledIn(C), NEW xs, NEW dev, NEW sensors,
           NamedAfter(xs, dev, sensors), NEW i \in DOMAIN xs
    PROVE  xs[i].name \in Seq(C) /\ Len(xs[i].name) > 0
<1>1. /\ dev \in STRING /\ Bounded(sensors) /\ xs[i].name = SensorName(dev, sensors, i)
      /\ sensors[i].id \in STRING /\ sensors[i].label \in STRING
  BY DEF NamedAfter
<1>2. PICK name : name = SensorName(dev, sensors, i) /\ name \in Seq(C) /\ Len(name) > 0
  BY <1>1, NameHasLetters
<1> QED
  BY <1>1, <1>2, Zenon

\* What has one name is of one device and of one place there.
LEMMA KeysApart ==
    ASSUME Spelled, Decimal, NEW w \in SensorParams,
           NEW dev, NEW xs, NEW sensors, NamedAfter(xs, dev, sensors),
           NEW other, NEW ys, NEW others, NamedAfter(ys, other, others),
           NEW i \in DOMAIN xs, NEW j \in DOMAIN ys, Key(xs, w)[i] = Key(ys, w)[j]
    PROVE  dev = other /\ (sensors = others => i = j)
<1>1. PICK C : SpelledIn(C)
  BY DEF Spelled
<1>2. i \in DOMAIN sensors /\ j \in DOMAIN others /\ Bounded(sensors) /\ Bounded(others)
  BY DEF NamedAfter
<1>3. PICK x : /\ x = xs[i].name /\ x = SensorName(dev, sensors, i)
               /\ dev \in STRING /\ Dotless(dev)
               /\ sensors[i].id \in STRING /\ sensors[i].label \in STRING
  BY DEF NamedAfter
<1>4. PICK y : /\ y = ys[j].name /\ y = SensorName(other, others, j)
               /\ other \in STRING /\ Dotless(other)
               /\ others[j].id \in STRING /\ others[j].label \in STRING
  BY DEF NamedAfter
<1>5. x \in Seq(C) /\ y \in Seq(C) /\ w \in Seq(C)
  <2>1. x \in Seq(C) /\ y \in Seq(C)
    BY <1>1, <1>3, <1>4, KeySpelled
  <2> QED BY <1>1, <2>1, ParamsSpelled
<1>6. x \o w = y \o w
  <2>1. Key(xs, w)[i] = xs[i].name \o w /\ Key(ys, w)[j] = ys[j].name \o w
    BY Zenon DEF Key
  <2> QED BY <1>3, <1>4, <2>1, Zenon
<1>7. x = y
  BY <1>5, <1>6, SameEnd
<1>8. /\ dev = other /\ Label(sensors[i]) = Label(others[j])
      /\ LabelCount(sensors, i) = LabelCount(others, j)
  <2>1. /\ HasName(x, dev, sensors, i) /\ HasName(x, other, others, j)
    BY <1>2, <1>3, <1>4, <1>7, Zenon DEF HasName
  <2> QED BY <2>1, NamesApart
<1>9. ASSUME sensors = others PROVE i = j
  <2>1. /\ Label(sensors[i]) = Label(sensors[j])
        /\ LabelCount(sensors, i) = LabelCount(sensors, j)
    BY <1>8, <1>9, Zenon
  <2> QED BY <1>2, <1>9, <2>1, PlacesApart
<1> QED
  BY <1>8, <1>9

TempValues(xs) == [i \in DOMAIN xs |-> Integer(xs[i].temp)]
InputValues(xs) == [i \in DOMAIN xs |-> Integer(xs[i].input)]
TargetValues(xs) == [i \in DOMAIN xs |-> Integer(xs[i].target)]
LabelTexts(xs) == [i \in DOMAIN xs |-> Text(xs[i].label)]

\* Names of one parameter only.
OfParam(S, v) == \A p \in S : \A w \in SensorParams : EndsWith(p[1], w) <=> w = v

\* The pairs made for one parameter are of it.
LEMMA PairsOfParam ==
    ASSUME Spelled, NEW xs, NEW dev, NEW sensors,
           NamedAfter(xs, dev, sensors), NEW v \in SensorParams,
           NEW val, NEW S, S = {<<Key(xs, v)[i], val[i]>> : i \in DOMAIN xs}
    PROVE  OfParam(S, v)
<1>1. PICK C : SpelledIn(C)
  BY DEF Spelled
<1>2. ASSUME NEW i \in DOMAIN xs, NEW w \in SensorParams
      PROVE  EndsWith(Key(xs, v)[i], w) <=> v = w
  <2>1. PICK name : name = xs[i].name /\ name \in Seq(C) /\ Len(name) > 0
    <3>1. xs[i].name \in Seq(C) /\ Len(xs[i].name) > 0
      BY <1>1, KeySpelled
    <3> QED BY <3>1, Zenon
  <2>2. EndsWith(name \o v, w) <=> v = w
    BY <1>1, <2>1, OnlyEnd
  <2>3. Key(xs, v)[i] = name \o v
    BY <2>1, Zenon DEF Key
  <2> QED BY <2>2, <2>3, Zenon
<1>3. ASSUME NEW p \in S, NEW w \in SensorParams PROVE EndsWith(p[1], w) <=> w = v
  <2>1. PICK i \in DOMAIN xs : p = <<Key(xs, v)[i], val[i]>>
    OBVIOUS
  <2>2. p[1] = Key(xs, v)[i]
    BY <2>1
  <2> QED BY <1>2, <2>2, Zenon
<1> QED
  BY <1>3, Zenon DEF OfParam

\* The sensors' values as the places tell them.
LEMMA PairsOfDevice ==
    ASSUME Spelled, NEW d \in HwDevice, Dotless(d.name)
    PROVE  \E T, I, G, L :
               /\ Sensors(d) = Named(T \cup I \cup G \cup L)
               /\ OfParam(T, ".temp") /\ OfParam(I, ".input") /\ OfParam(G, ".target") /\ OfParam(L, ".label")
               /\ T = {<<Key(Temps(d), ".temp")[i], TempValues(Temps(d))[i]>> : i \in DOMAIN Temps(d)}
               /\ I = {<<Key(Fans(d), ".input")[i], InputValues(Fans(d))[i]>> : i \in DOMAIN Fans(d)}
               /\ G = {<<Key(Fans(d), ".target")[i], TargetValues(Fans(d))[i]>> : i \in DOMAIN Fans(d)}
<1>1. PICK temps, fans : temps = Temps(d) /\ fans = Fans(d)
  OBVIOUS
<1>2. PICK a, b, c, e : /\ a = ".temp" /\ b = ".input" /\ c = ".target" /\ e = ".label"
                        /\ a \in SensorParams /\ b \in SensorParams
                        /\ c \in SensorParams /\ e \in SensorParams
  BY DEF SensorParams
<1>3. PICK T, I, G, N :
        /\ T = {<<x.name \o ".temp", Integer(x.temp)>> : x \in Range(temps)}
        /\ I = {<<x.name \o ".input", Integer(x.input)>> : x \in Range(fans)}
        /\ G = {<<x.name \o ".target", Integer(x.target)>> : x \in Range(fans)}
        /\ N = {<<x.name \o ".label", Text(x.label)>> : x \in Range(temps) \cup Range(fans)}
        /\ Sensors(d) = Named(T \cup I \cup G \cup N)
  BY <1>1, Zenon DEF Sensors
<1>4. /\ T = {<<x.name \o a, Integer(x.temp)>> : x \in Range(temps)}
      /\ I = {<<x.name \o b, Integer(x.input)>> : x \in Range(fans)}
      /\ G = {<<x.name \o c, Integer(x.target)>> : x \in Range(fans)}
      /\ N = {<<x.name \o e, Text(x.label)>> : x \in Range(temps) \cup Range(fans)}
  BY <1>2, <1>3, Zenon
<1>5. T = {<<Key(temps, a)[i], TempValues(temps)[i]>> : i \in DOMAIN temps}
  <2>1. T = {<<x.name \o a, Integer(x.temp)>> : x \in Range(temps)}
    BY <1>4
  <2> QED BY <2>1 DEF Key, TempValues, Range
<1>6. I = {<<Key(fans, b)[i], InputValues(fans)[i]>> : i \in DOMAIN fans}
  <2>1. I = {<<x.name \o b, Integer(x.input)>> : x \in Range(fans)}
    BY <1>4
  <2> QED BY <2>1 DEF Key, InputValues, Range
<1>7. G = {<<Key(fans, c)[i], TargetValues(fans)[i]>> : i \in DOMAIN fans}
  <2>1. G = {<<x.name \o c, Integer(x.target)>> : x \in Range(fans)}
    BY <1>4
  <2> QED BY <2>1 DEF Key, TargetValues, Range
<1>8. PICK L, M :
        /\ L = {<<Key(temps, e)[i], LabelTexts(temps)[i]>> : i \in DOMAIN temps}
        /\ M = {<<Key(fans, e)[i], LabelTexts(fans)[i]>> : i \in DOMAIN fans}
  OBVIOUS
<1>9. N = L \cup M
  <2>1. N = {<<x.name \o e, Text(x.label)>> : x \in Range(temps) \cup Range(fans)}
    BY <1>4
  <2> QED BY <1>8, <2>1 DEF Key, LabelTexts, Range
<1>10. OfParam(T, a) /\ OfParam(L, e)
  <2>1. PICK dev, sensors : NamedAfter(temps, dev, sensors)
    BY <1>1, TempsNamed, Zenon
  <2> QED BY <1>2, <1>5, <1>8, <2>1, PairsOfParam
<1>11. OfParam(I, b) /\ OfParam(G, c) /\ OfParam(M, e)
  <2>1. PICK dev, sensors : NamedAfter(fans, dev, sensors)
    BY <1>1, FansNamed, Zenon
  <2> QED BY <1>2, <1>6, <1>7, <1>8, <2>1, PairsOfParam
<1>12. OfParam(N, e)
  BY <1>9, <1>10, <1>11 DEF OfParam
<1>13. /\ Sensors(d) = Named(T \cup I \cup G \cup N)
       /\ OfParam(T, a) /\ OfParam(I, b) /\ OfParam(G, c) /\ OfParam(N, e)
  BY <1>3, <1>10, <1>11, <1>12, Zenon
<1> QED
  BY <1>1, <1>2, <1>5, <1>6, <1>7, <1>13, Zenon

\* The names of a parameter, in a set of all of them.
LEMMA ListsOfParam ==
    ASSUME NEW v \in SensorParams, NEW P, NEW key, NEW val, NEW S, NEW rest,
           S = {<<key[p], val[p]>> : p \in P}, OfParam(S, v),
           \A p, q \in P : key[p] = key[q] => p = q,
           \A p \in rest : ~EndsWith(p[1], v)
    PROVE  Lists(Named(S \cup rest), v, P, key, val)
<1>1. ASSUME NEW p \in P PROVE EndsWith(key[p], v)
  <2>1. <<key[p], val[p]>> \in S /\ <<key[p], val[p]>>[1] = key[p]
    OBVIOUS
  <2> QED BY <2>1 DEF OfParam
<1> QED
  BY <1>1, NamedLists

\* On one device no two sensors have one name.
LEMMA DeviceKeys ==
    ASSUME Spelled, Decimal, NEW w \in SensorParams,
           NEW xs, NEW dev, NEW sensors, NamedAfter(xs, dev, sensors)
    PROVE  \A i, j \in DOMAIN xs : Key(xs, w)[i] = Key(xs, w)[j] => i = j
<1> SUFFICES ASSUME NEW i \in DOMAIN xs, NEW j \in DOMAIN xs, Key(xs, w)[i] = Key(xs, w)[j] PROVE i = j
  OBVIOUS
<1>1. sensors = sensors => i = j
  BY KeysApart
<1> QED
  BY <1>1

\* All sensors of a device are published, each under names of its own.
LEMMA DeviceLists ==
    ASSUME Spelled, Decimal, NEW d \in HwDevice, Dotless(d.name)
    PROVE  /\ Lists(Sensors(d), ".temp", DOMAIN Temps(d), Key(Temps(d), ".temp"), TempValues(Temps(d)))
           /\ Lists(Sensors(d), ".input", DOMAIN Fans(d), Key(Fans(d), ".input"), InputValues(Fans(d)))
           /\ Lists(Sensors(d), ".target", DOMAIN Fans(d), Key(Fans(d), ".target"), TargetValues(Fans(d)))
<1>1. PICK temps, fans : temps = Temps(d) /\ fans = Fans(d)
  OBVIOUS
<1>2. PICK a, b, c, e : /\ a = ".temp" /\ b = ".input" /\ c = ".target" /\ e = ".label"
                        /\ a \in SensorParams /\ b \in SensorParams /\ c \in SensorParams
                        /\ a # b /\ a # c /\ a # e /\ b # c /\ b # e /\ c # e
  BY DEF SensorParams
<1>3. PICK T, I, G, L :
        /\ Sensors(d) = Named(T \cup I \cup G \cup L)
        /\ OfParam(T, ".temp") /\ OfParam(I, ".input") /\ OfParam(G, ".target") /\ OfParam(L, ".label")
        /\ T = {<<Key(Temps(d), ".temp")[i], TempValues(Temps(d))[i]>> : i \in DOMAIN Temps(d)}
        /\ I = {<<Key(Fans(d), ".input")[i], InputValues(Fans(d))[i]>> : i \in DOMAIN Fans(d)}
        /\ G = {<<Key(Fans(d), ".target")[i], TargetValues(Fans(d))[i]>> : i \in DOMAIN Fans(d)}
  BY PairsOfDevice, Zenon
<1>4. OfParam(T, a) /\ OfParam(I, b) /\ OfParam(G, c) /\ OfParam(L, e)
  BY <1>2, <1>3, Zenon
<1>5. T = {<<Key(temps, a)[i], TempValues(temps)[i]>> : i \in DOMAIN temps}
  BY <1>1, <1>2, <1>3, Zenon
<1>6. I = {<<Key(fans, b)[i], InputValues(fans)[i]>> : i \in DOMAIN fans}
  BY <1>1, <1>2, <1>3, Zenon
<1>7. G = {<<Key(fans, c)[i], TargetValues(fans)[i]>> : i \in DOMAIN fans}
  BY <1>1, <1>2, <1>3, Zenon
<1>8. \A i, j \in DOMAIN temps : Key(temps, a)[i] = Key(temps, a)[j] => i = j
  <2>1. PICK dev, sensors : NamedAfter(temps, dev, sensors)
    BY <1>1, TempsNamed, Zenon
  <2> QED BY <1>2, <2>1, DeviceKeys
<1>9. /\ \A i, j \in DOMAIN fans : Key(fans, b)[i] = Key(fans, b)[j] => i = j
      /\ \A i, j \in DOMAIN fans : Key(fans, c)[i] = Key(fans, c)[j] => i = j
  <2>1. PICK dev, sensors : NamedAfter(fans, dev, sensors)
    BY <1>1, FansNamed, Zenon
  <2> QED BY <1>2, <2>1, DeviceKeys
<1>10. Lists(Sensors(d), a, DOMAIN temps, Key(temps, a), TempValues(temps))
  <2>1. PICK rest : rest = I \cup G \cup L /\ T \cup rest = T \cup I \cup G \cup L
    OBVIOUS
  <2>2. \A p \in rest : ~EndsWith(p[1], a)
    BY <1>2, <1>3, <1>4, <2>1 DEF OfParam
  <2>3. Lists(Named(T \cup rest), a, DOMAIN temps, Key(temps, a), TempValues(temps))
    BY <1>2, <1>3, <1>4, <1>5, <1>6, <1>7, <1>8, <2>2, ListsOfParam
  <2> QED BY <1>3, <1>4, <2>1, <2>3, Zenon
<1>11. Lists(Sensors(d), b, DOMAIN fans, Key(fans, b), InputValues(fans))
  <2>1. PICK rest : rest = T \cup G \cup L /\ I \cup rest = T \cup I \cup G \cup L
    OBVIOUS
  <2>2. \A p \in rest : ~EndsWith(p[1], b)
    BY <1>2, <1>3, <1>4, <2>1 DEF OfParam
  <2>3. Lists(Named(I \cup rest), b, DOMAIN fans, Key(fans, b), InputValues(fans))
    BY <1>2, <1>3, <1>4, <1>5, <1>6, <1>7, <1>9, <2>2, ListsOfParam
  <2> QED BY <1>3, <1>4, <2>1, <2>3, Zenon
<1>12. Lists(Sensors(d), c, DOMAIN fans, Key(fans, c), TargetValues(fans))
  <2>1. PICK rest : rest = T \cup I \cup L /\ G \cup rest = T \cup I \cup G \cup L
    OBVIOUS
  <2>2. \A p \in rest : ~EndsWith(p[1], c)
    BY <1>2, <1>3, <1>4, <2>1 DEF OfParam
  <2>3. Lists(Named(G \cup rest), c, DOMAIN fans, Key(fans, c), TargetValues(fans))
    BY <1>2, <1>3, <1>4, <1>5, <1>6, <1>7, <1>9, <2>2, ListsOfParam
  <2> QED BY <1>3, <1>4, <2>1, <2>3, Zenon
<1> QED
  BY <1>1, <1>2, <1>10, <1>11, <1>12, Zenon

-----------------------------------------------------------------------------
(* The devices that are taken                                              *)

FirstAt(devices, i) ==
    devices[i].name # "" /\ \A l \in 1 .. i - 1 : devices[l].name # devices[i].name

\* The first of each name of the first k devices.
Firsts(devices, k, used) ==
    /\ \A i, j \in DOMAIN used : used[i].name = used[j].name => i = j
    /\ \A j \in DOMAIN used : \E i \in 1 .. k : FirstAt(devices, i) /\ used[j] = devices[i]
    /\ \A i \in 1 .. k : FirstAt(devices, i) => \E j \in DOMAIN used : used[j] = devices[i]
    /\ \A i \in 1 .. k : devices[i].name # "" => \E j \in DOMAIN used : used[j].name = devices[i].name

\* Taking one more device, or passing it over, keeps the firsts.
LEMMA UseKeepsFirsts ==
    ASSUME NEW devices \in Seq(HwDevice), NEW k \in Nat, k + 1 <= Len(devices),
           NEW used \in Seq(HwDevice), Firsts(devices, k, used)
    PROVE  Firsts(devices, k + 1, Use(used, devices[k + 1]))
<1>1. PICK d, next : d = devices[k + 1] /\ next = Use(used, d)
  OBVIOUS
<1>2. \A i : i \in 1 .. k + 1 <=> i \in 1 .. k \/ i = k + 1
  OBVIOUS
<1>3. \A i, j \in DOMAIN used : used[i].name = used[j].name => i = j
  BY Zenon DEF Firsts
<1>4. \A j \in DOMAIN used : \E i \in 1 .. k : FirstAt(devices, i) /\ used[j] = devices[i]
  BY Zenon DEF Firsts
<1>5. \A i \in 1 .. k : FirstAt(devices, i) => \E j \in DOMAIN used : used[j] = devices[i]
  BY Zenon DEF Firsts
<1>6. \A i \in 1 .. k : devices[i].name # "" =>
           \E j \in DOMAIN used : used[j].name = devices[i].name
  BY Zenon DEF Firsts
<1>7. FirstAt(devices, k + 1) <=> d.name # "" /\ \A l \in 1 .. k : devices[l].name # d.name
  <2>1. PICK i : i = k + 1 /\ 1 .. i - 1 = 1 .. k
    OBVIOUS
  <2>2. FirstAt(devices, i) <=> devices[i].name # "" /\ \A l \in 1 .. k : devices[l].name # devices[i].name
    BY <2>1, Zenon DEF FirstAt
  <2> QED BY <1>1, <2>1, <2>2, Zenon
<1>8. CASE d.name = "" \/ \E i \in DOMAIN used : used[i].name = d.name
  <2>1. next = used
    BY <1>1, <1>8, Zenon DEF Use
  <2>2. ~FirstAt(devices, k + 1)
    <3>1. ASSUME NEW i \in DOMAIN used, used[i].name = d.name PROVE ~FirstAt(devices, k + 1)
      <4>1. PICK l \in 1 .. k : used[i] = devices[l]
        BY <1>4, Zenon
      <4> QED BY <1>7, <3>1, <4>1, Zenon
    <3> QED BY <1>7, <1>8, <3>1, Zenon
  <2>3. Firsts(devices, k + 1, used)
    BY <1>1, <1>2, <1>3, <1>4, <1>5, <1>6, <1>8, <2>2, Zenon DEF Firsts
  <2> QED BY <1>1, <2>1, <2>3, Zenon
<1>9. CASE d.name # "" /\ \A i \in DOMAIN used : used[i].name # d.name
  <2>1. PICK m : m = Len(used) /\ m \in Nat /\ DOMAIN used = 1 .. m
    <3>1. Len(used) \in Nat /\ DOMAIN used = 1 .. Len(used)
      OBVIOUS
    <3> QED BY <3>1, Zenon
  <2>2. next = Append(used, d)
    BY <1>1, <1>9, Zenon DEF Use
  <2>3. PICK e : /\ e \in DOMAIN next /\ e \notin DOMAIN used /\ next[e] = d
                 /\ \A j : j \in DOMAIN next <=> j \in DOMAIN used \/ j = e
                 /\ \A j \in DOMAIN used : next[j] = used[j]
    <3>1. DOMAIN next = 1 .. m + 1 /\ next[m + 1] = d /\ \A j \in 1 .. m : next[j] = used[j]
      BY <2>1, <2>2
    <3>2. \A j : j \in 1 .. m + 1 <=> j \in 1 .. m \/ j = m + 1
      BY <2>1
    <3>3. m + 1 \notin 1 .. m
      BY <2>1
    <3> QED BY <2>1, <3>1, <3>2, <3>3, Zenon
  <2>4. FirstAt(devices, k + 1)
    <3>1. ASSUME NEW l \in 1 .. k, devices[l].name = d.name PROVE FALSE
      <4>1. \E j \in DOMAIN used : used[j].name = devices[l].name
        BY <1>6, <1>9, <3>1, Zenon
      <4> QED BY <1>9, <3>1, <4>1, Zenon
    <3> QED BY <1>7, <1>9, <3>1, Zenon
  <2>5. ASSUME NEW i \in DOMAIN next, NEW j \in DOMAIN next, next[i].name = next[j].name PROVE i = j
    <3>1. CASE i \in DOMAIN used /\ j \in DOMAIN used
      <4>1. next[i] = used[i] /\ next[j] = used[j]
        BY <2>3, <3>1
      <4>2. used[i].name = used[j].name
        BY <2>5, <4>1
      <4> QED BY <1>3, <3>1, <4>2
    <3>2. CASE i \in DOMAIN used /\ j = e
      BY <1>9, <2>3, <2>5, <3>2, Zenon
    <3>3. CASE i = e /\ j \in DOMAIN used
      BY <1>9, <2>3, <2>5, <3>3, Zenon
    <3> QED BY <2>3, <3>1, <3>2, <3>3, Zenon
  <2>6. ASSUME NEW j \in DOMAIN next
        PROVE  \E i \in 1 .. k + 1 : FirstAt(devices, i) /\ next[j] = devices[i]
    <3>1. CASE j \in DOMAIN used
      <4>1. PICK i \in 1 .. k : FirstAt(devices, i) /\ used[j] = devices[i]
        BY <1>4, <3>1
      <4>2. next[j] = used[j] /\ i \in 1 .. k + 1
        BY <1>2, <2>3, <3>1
      <4> QED BY <4>1, <4>2
    <3>2. CASE j = e
      BY <1>1, <1>2, <2>3, <2>4, <3>2, Zenon
    <3> QED BY <2>3, <3>1, <3>2, Zenon
  <2>7. ASSUME NEW i \in 1 .. k + 1, FirstAt(devices, i)
        PROVE  \E j \in DOMAIN next : next[j] = devices[i]
    <3>1. CASE i \in 1 .. k
      <4>1. PICK j \in DOMAIN used : used[j] = devices[i]
        BY <1>5, <2>7, <3>1
      <4>2. next[j] = used[j] /\ j \in DOMAIN next
        BY <2>3
      <4> QED BY <4>1, <4>2
    <3>2. CASE i = k + 1
      BY <1>1, <2>3, <3>2, Zenon
    <3> QED BY <1>2, <3>1, <3>2, Zenon
  <2>8. ASSUME NEW i \in 1 .. k + 1, devices[i].name # ""
        PROVE  \E j \in DOMAIN next : next[j].name = devices[i].name
    <3>1. CASE i \in 1 .. k
      <4>1. PICK j \in DOMAIN used : used[j].name = devices[i].name
        BY <1>6, <2>8, <3>1
      <4>2. next[j] = used[j] /\ j \in DOMAIN next
        BY <2>3
      <4> QED BY <4>1, <4>2
    <3>2. CASE i = k + 1
      BY <1>1, <2>3, <3>2, Zenon
    <3> QED BY <1>2, <3>1, <3>2, Zenon
  <2>9. Firsts(devices, k + 1, next)
    BY <2>5, <2>6, <2>7, <2>8, Zenon DEF Firsts
  <2> QED BY <1>1, <2>9, Zenon
<1> QED
  BY <1>8, <1>9

\* So Used() takes the firsts of all devices.
LEMMA UsedAreFirsts ==
    ASSUME NEW devices \in Seq(HwDevice)
    PROVE  Firsts(devices, Len(devices), Used(devices))
<1>1. PICK n : n = Len(devices) /\ n \in Nat
  <2>1. Len(devices) \in Nat
    OBVIOUS
  <2> QED BY <2>1, Zenon
<1>2. PICK h \in [0 .. n -> Seq(HwDevice)] :
        /\ h[0] = <<>> /\ Used(devices) = h[n]
        /\ \A k \in 1 .. n : h[k] = Use(h[k - 1], devices[k])
  BY <1>1, UsedByPrefix
<1> DEFINE S == {k \in Nat : k <= n => Firsts(devices, k, h[k])}
<1>3. 0 \in S
  <2>1. DOMAIN h[0] = {} /\ 1 .. 0 = {}
    BY <1>2
  <2> QED BY <2>1 DEF Firsts
<1>4. ASSUME NEW k \in Nat, k \in S PROVE k + 1 \in S
  <2> SUFFICES ASSUME k + 1 <= n PROVE Firsts(devices, k + 1, h[k + 1])
    OBVIOUS
  <2>1. k \in 0 .. n /\ k + 1 \in 1 .. n /\ (k + 1) - 1 = k
    BY <1>1
  <2>2. h[k + 1] = Use(h[k], devices[k + 1])
    BY <1>2, <2>1
  <2>3. h[k] \in Seq(HwDevice) /\ Firsts(devices, k, h[k])
    BY <1>1, <1>4, <2>1
  <2>4. Firsts(devices, k + 1, Use(h[k], devices[k + 1]))
    BY <1>1, <2>3, UseKeepsFirsts
  <2> QED BY <2>2, <2>4
<1>5. n \in S
  <2> HIDE DEF S
  <2> QED BY <1>1, <1>3, <1>4, SetInduction
<1> QED
  BY <1>1, <1>2, <1>5

\* Used() and the property agree on which devices these are.
LEMMA FirstDevicesUsed ==
    ASSUME source.lines \in Seq(HwDevice)
    PROVE  FirstDevices = Range(Used(source.lines))
<1>1. PICK lines, n, used : /\ lines = source.lines /\ n = Len(lines) /\ n \in Nat
                            /\ used = Used(lines) /\ DOMAIN lines = 1 .. n
  <2>1. Len(source.lines) \in Nat /\ DOMAIN source.lines = 1 .. Len(source.lines)
    OBVIOUS
  <2> QED BY <2>1, Zenon
<1>2. Firsts(lines, n, used)
  BY <1>1, UsedAreFirsts
<1>3. \A y : y \in Range(used) <=> \E i \in 1 .. n : FirstAt(lines, i) /\ y = lines[i]
  <2>1. \A y : y \in Range(used) <=> \E j \in DOMAIN used : y = used[j]
    BY DEF Range
  <2>2. \A j \in DOMAIN used : \E i \in 1 .. n : FirstAt(lines, i) /\ used[j] = lines[i]
    BY <1>2, Zenon DEF Firsts
  <2>3. \A i \in 1 .. n : FirstAt(lines, i) => \E j \in DOMAIN used : used[j] = lines[i]
    BY <1>2, Zenon DEF Firsts
  <2>4. ASSUME NEW y \in Range(used) PROVE \E i \in 1 .. n : FirstAt(lines, i) /\ y = lines[i]
    <3>1. PICK j \in DOMAIN used : y = used[j]
      BY <2>1, <2>4
    <3>2. PICK i \in 1 .. n : FirstAt(lines, i) /\ used[j] = lines[i]
      BY <2>2, <3>1
    <3> QED BY <3>1, <3>2
  <2>5. ASSUME NEW i \in 1 .. n, FirstAt(lines, i) PROVE lines[i] \in Range(used)
    <3>1. PICK j \in DOMAIN used : used[j] = lines[i]
      BY <2>3, <2>5
    <3> QED BY <2>1, <3>1
  <2> QED BY <2>4, <2>5
<1>4. ASSUME NEW i \in 1 .. n, lines[i].name # ""
      PROVE  \E m \in 1 .. i : /\ FirstAt(lines, m) /\ FirstOf(lines[i].name) = lines[m]
                               /\ lines[m].name = lines[i].name
  <2>1. PICK T : T = {k \in DOMAIN lines : lines[k].name = lines[i].name}
    OBVIOUS
  <2>2. T \subseteq Nat /\ i \in T /\ \A k : k \in T <=> k \in 1 .. n /\ lines[k].name = lines[i].name
    BY <1>1, <2>1
  <2>3. PICK m : m = Min(T) /\ m \in T /\ \A k \in T : m <= k
    BY <2>2, LeastOf
  <2>4. m \in 1 .. i /\ lines[m].name = lines[i].name
    BY <2>2, <2>3
  <2>5. \A l \in 1 .. m - 1 : lines[l].name # lines[m].name
    BY <1>1, <2>2, <2>3, <2>4
  <2>6. FirstOf(lines[i].name) = lines[m]
    BY <1>1, <2>1, <2>3, Zenon DEF FirstOf
  <2> QED BY <1>4, <2>4, <2>5, <2>6, Zenon DEF FirstAt
<1>5. \A d : d \in Devices <=> \E i \in 1 .. n : d = lines[i] /\ d.name # ""
  BY <1>1 DEF Devices, Range
<1>6. ASSUME NEW y \in FirstDevices PROVE y \in Range(used)
  <2>1. PICK d \in Devices : y = FirstOf(d.name)
    BY DEF FirstDevices
  <2>2. PICK i \in 1 .. n : d = lines[i] /\ d.name # ""
    BY <1>5
  <2>3. PICK m \in 1 .. i : FirstAt(lines, m) /\ y = lines[m]
    BY <1>4, <2>1, <2>2, Zenon
  <2>4. m \in 1 .. n
    BY <1>1, <2>3
  <2> QED BY <1>3, <2>3, <2>4, Zenon
<1>7. ASSUME NEW y \in Range(used) PROVE y \in FirstDevices
  <2>1. PICK i \in 1 .. n : FirstAt(lines, i) /\ y = lines[i]
    BY <1>3
  <2>2. lines[i].name # "" /\ \A l \in 1 .. i - 1 : lines[l].name # lines[i].name
    BY <2>1, Zenon DEF FirstAt
  <2>3. PICK m \in 1 .. i : /\ FirstOf(lines[i].name) = lines[m] /\ lines[m].name = lines[i].name
    BY <1>4, <2>2
  <2>4. m = i
    <3>1. m \in 1 .. i - 1 \/ m = i
      OBVIOUS
    <3> QED BY <2>2, <2>3, <3>1
  <2>5. lines[i] \in Devices /\ y = FirstOf(lines[i].name)
    BY <1>5, <2>1, <2>2, <2>3, <2>4
  <2> QED BY <2>5, Zenon DEF FirstDevices
<1> QED
  BY <1>1, <1>6, <1>7

\* The sensors Q of the devices used.
SensorsOf(n, of, used, Q) ==
    /\ n \in Nat /\ DOMAIN of = 1 .. n /\ IsFiniteSet(Places(of))
    /\ \A i, j \in 1 .. n : used[i] = used[j] => i = j
    /\ \A x : x \in Q <=> \E i \in 1 .. n : \E a \in DOMAIN of[i] : x = <<used[i], a>>

\* As many sensors in all as at the places.
LEMMA PlacesCounted ==
    ASSUME NEW n, NEW of, NEW used, NEW Q, SensorsOf(n, of, used, Q)
    PROVE  Cardinality(Q) = Cardinality(Places(of))
<1>a. n \in Nat /\ DOMAIN of = 1 .. n /\ IsFiniteSet(Places(of))
  BY DEF SensorsOf
<1>b. \A i, j \in 1 .. n : used[i] = used[j] => i = j
  BY DEF SensorsOf
<1>c. \A x : x \in Q <=> \E i \in 1 .. n : \E a \in DOMAIN of[i] : x = <<used[i], a>>
  BY DEF SensorsOf
<1>1. PICK key : key = [p \in Places(of) |-> <<used[p[1]], p[2]>>]
  OBVIOUS
<1>2. \A p : p \in Places(of) <=>
          \E i \in 1 .. n : \E a \in DOMAIN of[i] : p = <<i, a>>
  BY <1>a DEF Places
<1>3. \A i \in 1 .. n : \A a \in DOMAIN of[i] :
          <<i, a>> \in Places(of) /\ key[<<i, a>>] = <<used[i], a>>
  BY <1>1, <1>2
<1>4. ASSUME NEW p \in Places(of), NEW q \in Places(of), key[p] = key[q] PROVE p = q
  <2>1. PICK i \in 1 .. n, j \in 1 .. n :
          (\E a \in DOMAIN of[i] : p = <<i, a>>) /\ \E b \in DOMAIN of[j] : q = <<j, b>>
    BY <1>2
  <2>2. PICK a \in DOMAIN of[i], b \in DOMAIN of[j] : p = <<i, a>> /\ q = <<j, b>>
    BY <2>1
  <2>3. used[i] = used[j] /\ a = b
    BY <1>3, <1>4, <2>2
  <2>4. i = j
    BY <1>b, <2>3
  <2> QED BY <2>2, <2>3, <2>4
<1>5. Q = {key[p] : p \in Places(of)}
  <2>1. ASSUME NEW x \in Q PROVE \E p \in Places(of) : x = key[p]
    <3>1. PICK i \in 1 .. n : \E a \in DOMAIN of[i] : x = <<used[i], a>>
      BY <1>c
    <3>2. PICK a \in DOMAIN of[i] : x = <<used[i], a>>
      BY <3>1
    <3> QED BY <1>3, <3>2
  <2>2. ASSUME NEW p \in Places(of) PROVE key[p] \in Q
    <3>1. PICK i \in 1 .. n : \E a \in DOMAIN of[i] : p = <<i, a>>
      BY <1>2
    <3>2. PICK a \in DOMAIN of[i] : p = <<i, a>>
      BY <3>1
    <3>3. key[p] = <<used[i], a>>
      BY <1>3, <3>2
    <3> QED BY <1>c, <3>3
  <2> QED BY <2>1, <2>2
<1>6. Cardinality({key[p] : p \in Places(of)}) = Cardinality(Places(of))
  BY <1>a, <1>4, ListedMany
<1> QED
  BY <1>5, <1>6

-----------------------------------------------------------------------------
(* The hottest sensor                                                      *)

\* A finite set of integers has a greatest one.
LEMMA GreatestInteger ==
    ASSUME NEW T, T \subseteq Int, T # {}, IsFiniteSet(T)
    PROVE  \E x \in T : \A y \in T : y <= x
<1> DEFINE S == {m \in Nat : \A t \in SUBSET T :
                    Cardinality(t) = m /\ t # {} => \E x \in t : \A y \in t : y <= x}
<1>1. 0 \in S
  BY SmallerSet
<1>2. ASSUME NEW m \in Nat, m \in S PROVE m + 1 \in S
  <2> SUFFICES ASSUME NEW t \in SUBSET T, Cardinality(t) = m + 1, t # {}
               PROVE  \E x \in t : \A y \in t : y <= x
    OBVIOUS
  <2>1. /\ First(t) \in t /\ Without(t) \in SUBSET T /\ Cardinality(Without(t)) = m
        /\ \A y \in t : y \in Without(t) \/ y = First(t)
        /\ Without(t) \subseteq t
    <3>1. /\ First(t) \in t /\ Without(t) \in SUBSET T
          /\ Cardinality(Without(t)) = Cardinality(t) - 1
      BY SmallerSet
    <3> QED BY <3>1 DEF Without
  <2>2. PICK z \in Int : z = First(t)
    BY <2>1
  <2>3. CASE Without(t) = {}
    BY <2>1, <2>2, <2>3
  <2>4. CASE Without(t) # {}
    <3>1. PICK x \in Without(t) : \A y \in Without(t) : y <= x
      BY <1>2, <2>1, <2>4
    <3>2. x \in Int /\ x \in t
      BY <2>1, <3>1
    <3>3. CASE z <= x
      BY <2>1, <2>2, <3>1, <3>2, <3>3
    <3>4. CASE x < z
      <4>1. \A y \in t : y \in Int
        OBVIOUS
      <4> QED BY <2>1, <2>2, <3>1, <3>2, <3>4, <4>1
    <3> QED BY <2>2, <3>2, <3>3, <3>4
  <2> QED BY <2>3, <2>4
<1>3. Cardinality(T) \in S
  <2>1. \A m \in Nat : m \in S
    <3> HIDE DEF S
    <3> QED BY <1>1, <1>2, SetInduction
  <2>2. Cardinality(T) \in Nat
    BY FS_CardinalityType
  <2> HIDE DEF S
  <2> QED BY <2>1, <2>2
<1> QED
  BY <1>3

\* One of the sensors, if there is any, is the first of the hottest.
LEMMA HottestExists ==
    ASSUME NEW n \in Nat, NEW temps, DOMAIN temps = 1 .. n, IsFiniteSet(Places(temps)),
           \A i \in 1 .. n : \A a \in DOMAIN temps[i] : a \in Nat /\ temps[i][a].temp \in Int,
           Places(temps) # {}
    PROVE  Hottest(temps) # {}
<1>1. PICK P, temp, T : /\ P = Places(temps) /\ temp = [p \in P |-> At(temps, p).temp]
                        /\ T = {temp[p] : p \in P}
  OBVIOUS
<1>2. \A p \in P : /\ p = <<p[1], p[2]>> /\ p[1] \in Nat /\ p[2] \in Nat
                   /\ temp[p] = At(temps, p).temp /\ temp[p] \in Int
  <2> SUFFICES ASSUME NEW p \in P
               PROVE  /\ p = <<p[1], p[2]>> /\ p[1] \in Nat /\ p[2] \in Nat
                      /\ temp[p] = At(temps, p).temp /\ temp[p] \in Int
    OBVIOUS
  <2>1. PICK i \in 1 .. n : \E a \in DOMAIN temps[i] : p = <<i, a>>
    BY <1>1 DEF Places
  <2>2. PICK a \in DOMAIN temps[i] : p = <<i, a>>
    BY <2>1
  <2>3. temp[p] = At(temps, p).temp /\ At(temps, p) = temps[i][a]
    BY <1>1, <2>2 DEF At
  <2>4. i \in Nat /\ a \in Nat /\ temps[i][a].temp \in Int
    OBVIOUS
  <2> QED BY <2>2, <2>3, <2>4
<1>3. IsFiniteSet(T)
  <2>1. temp \in Surjection(P, T)
    BY <1>1 DEF Surjection
  <2> QED BY <1>1, <2>1, FS_Surjection DEF ExistsSurjection
<1>4. PICK x \in T : \A y \in T : y <= x
  <2>1. T \subseteq Int /\ T # {}
    BY <1>1, <1>2
  <2> QED BY <1>3, <2>1, GreatestInteger
<1>5. PICK H : H = {p \in P : temp[p] = x} /\ H # {}
  <2>1. PICK p \in P : temp[p] = x
    BY <1>1
  <2> QED BY <2>1
<1>6. PICK a \in Nat : (\E p \in H : p[1] = a) /\ \A p \in H : a <= p[1]
  <2>1. PICK A : A = {p[1] : p \in H}
    OBVIOUS
  <2>2. A \subseteq Nat /\ A # {}
    BY <1>2, <1>5, <2>1
  <2>3. PICK a \in A : \A k \in A : a <= k
    BY <2>2, LeastNatural
  <2> QED BY <2>1, <2>2, <2>3
<1>7. PICK b \in Nat : /\ \E p \in H : p[1] = a /\ p[2] = b
                       /\ \A p \in H : p[1] = a => b <= p[2]
  <2>1. PICK B : B = {p[2] : p \in {q \in H : q[1] = a}}
    OBVIOUS
  <2>2. B \subseteq Nat /\ B # {}
    BY <1>2, <1>5, <1>6, <2>1
  <2>3. PICK b \in B : \A k \in B : b <= k
    BY <2>2, LeastNatural
  <2> QED BY <2>1, <2>2, <2>3
<1>8. PICK p \in H : p[1] = a /\ p[2] = b
  BY <1>7
<1>9. ASSUME NEW q \in P PROVE temp[q] <= temp[p] /\ (Earlier(q, p) => temp[q] < temp[p])
  <2>1. temp[p] = x /\ temp[q] <= x /\ temp[q] \in Int /\ x \in Int
    BY <1>1, <1>2, <1>4, <1>5, <1>8
  <2>2. ASSUME Earlier(q, p), temp[q] = x PROVE FALSE
    <3>1. q \in H
      BY <1>5, <2>2
    <3>2. a <= q[1] /\ (q[1] = a => b <= q[2]) /\ q[1] \in Nat /\ q[2] \in Nat
      BY <1>2, <1>6, <1>7, <3>1
    <3>3. q[1] < a \/ (q[1] = a /\ q[2] < b)
      BY <1>8, <2>2 DEF Earlier
    <3> QED BY <3>2, <3>3
  <2> QED BY <2>1, <2>2
<1>10. p \in Hottest(temps)
  <2>1. p \in P /\ \A q \in P : temp[q] = At(temps, q).temp
    BY <1>2, <1>5, <1>8
  <2> QED BY <1>1, <1>9, <2>1 DEF Hottest
<1> QED
  BY <1>10

-----------------------------------------------------------------------------
(* What is published of all devices                                        *)

PlaceKey(of, w) == [p \in Places(of) |-> At(of, p).name \o w]
PlaceValue(of, vals) == [p \in Places(of) |-> vals[p[1]][p[2]]]

\* The sensors of one kind, of devices with names of their own.
Alike(w, n, dev, maps, of, vals, later) ==
    /\ n \in Nat /\ DOMAIN maps = 1 .. n /\ DOMAIN of = 1 .. n
    /\ \A i \in 1 .. n : \E sensors : NamedAfter(of[i], dev[i], sensors)
    /\ \A i \in 1 .. n : Lists(maps[i], w, DOMAIN of[i], Key(of[i], w), vals[i])
    /\ \A i, j \in 1 .. n : dev[i] = dev[j] => i = j
    /\ \A x \in DOMAIN later : ~EndsWith(x, w)

\* Every sensor of one kind is there, under names of its own.
LEMMA AlikeLists ==
    ASSUME Spelled, Decimal, NEW w \in SensorParams, NEW n, NEW dev, NEW maps, NEW of,
           NEW vals, NEW later, Alike(w, n, dev, maps, of, vals, later)
    PROVE  Lists(Over(later, OverAll(maps)), w, Places(of), PlaceKey(of, w), PlaceValue(of, vals))
<1>a. n \in Nat /\ DOMAIN maps = 1 .. n /\ DOMAIN of = 1 .. n
  BY DEF Alike
<1>b. \A i \in 1 .. n : \E sensors : NamedAfter(of[i], dev[i], sensors)
  BY DEF Alike
<1>c. \A i \in 1 .. n : Lists(maps[i], w, DOMAIN of[i], Key(of[i], w), vals[i])
  BY DEF Alike
<1>d. \A i, j \in 1 .. n : dev[i] = dev[j] => i = j
  BY DEF Alike
<1>e. \A x \in DOMAIN later : ~EndsWith(x, w)
  BY DEF Alike
<1>1. PICK keys : keys = [i \in 1 .. n |-> Key(of[i], w)]
  OBVIOUS
<1>2. ASSUME NEW i \in 1 .. n, NEW j \in 1 .. n, NEW a \in DOMAIN of[i], NEW b \in DOMAIN of[j],
             keys[i][a] = keys[j][b]
      PROVE  i = j
  <2>1. PICK xs, ys : xs = of[i] /\ ys = of[j] /\ a \in DOMAIN xs /\ b \in DOMAIN ys
    OBVIOUS
  <2>2. Key(xs, w)[a] = Key(ys, w)[b]
    BY <1>1, <1>2, <2>1
  <2>3. PICK sensors : NamedAfter(xs, dev[i], sensors)
    BY <1>b, <2>1, Zenon
  <2>4. PICK others : NamedAfter(ys, dev[j], others)
    BY <1>b, <2>1, Zenon
  <2>5. dev[i] = dev[j]
    BY <2>1, <2>2, <2>3, <2>4, KeysApart
  <2> QED BY <1>d, <2>5
<1>3. \A i \in 1 .. n : Lists(maps[i], w, DOMAIN of[i], keys[i], vals[i])
  <2>1. \A i \in 1 .. n : keys[i] = Key(of[i], w)
    BY <1>1
  <2> QED BY <1>c, <2>1, Zenon
<1>4. PICK key, val : /\ key = [p \in Places(of) |-> keys[p[1]][p[2]]]
                      /\ val = [p \in Places(of) |-> vals[p[1]][p[2]]]
  OBVIOUS
<1>5. Lists(OverAll(maps), w, Places(of), key, val)
  <2>1. \A i, j \in 1 .. n : \A a \in DOMAIN of[i], b \in DOMAIN of[j] :
            keys[i][a] = keys[j][b] => i = j
    BY <1>2
  <2>2. EachLists(n, maps, w, of, keys, vals)
    BY <1>a, <1>3, <2>1, Zenon DEF EachLists
  <2>3. \A p \in Places(of) : key[p] = keys[p[1]][p[2]] /\ val[p] = vals[p[1]][p[2]]
    BY <1>4
  <2> QED BY <2>2, <2>3, AllList
<1>6. Lists(Over(later, OverAll(maps)), w, Places(of), key, val)
  BY <1>e, <1>5, OverLists
<1>7. key = PlaceKey(of, w)
  <2>1. ASSUME NEW p \in Places(of) PROVE keys[p[1]][p[2]] = At(of, p).name \o w
    <3>1. PICK i \in 1 .. n : \E a \in DOMAIN of[i] : p = <<i, a>>
      BY <1>a DEF Places
    <3>2. PICK a \in DOMAIN of[i] : p = <<i, a>>
      BY <3>1
    <3>3. PICK xs : xs = of[i] /\ keys[i] = Key(xs, w) /\ At(of, p) = xs[a] /\ a \in DOMAIN xs
                    /\ p[1] = i /\ p[2] = a
      BY <1>1, <3>2 DEF At
    <3>4. Key(xs, w)[a] = xs[a].name \o w
      BY <3>3, Zenon DEF Key
    <3> QED BY <3>3, <3>4, Zenon
  <2> QED BY <1>4, <2>1, Zenon DEF PlaceKey
<1> QED
  BY <1>4, <1>6, <1>7, Zenon DEF PlaceValue

\* The summary has other names.
LEMMA SummaryNamed ==
    ASSUME NEW used
    PROVE  DOMAIN Summary(used) = SummaryNames
<1>1. PICK a, b, c, d, e :
        Summary(used) = Named({<<"temp_max", a>>, <<"name_max", b>>, <<"fans_num", c>>,
                               <<"fans_turning", d>>, <<"fans_stuck", e>>})
  BY Zenon DEF Summary
<1>2. PICK S : /\ S = {<<"temp_max", a>>, <<"name_max", b>>, <<"fans_num", c>>,
                       <<"fans_turning", d>>, <<"fans_stuck", e>>}
               /\ Summary(used) = Named(S)
  BY <1>1
<1>3. \A x : x \in {p[1] : p \in S} <=> x \in SummaryNames
  BY <1>2 DEF SummaryNames
<1> QED
  BY <1>2, <1>3 DEF Named

\* The devices used, and their sensors.
AllTemps(used) == [i \in DOMAIN used |-> Temps(used[i])]
AllFans(used) == [i \in DOMAIN used |-> Fans(used[i])]
TempAt(of) == [p \in Places(of) |-> Integer(At(of, p).temp)]
InputAt(of) == [p \in Places(of) |-> Integer(At(of, p).input)]
TargetAt(of) == [p \in Places(of) |-> Integer(At(of, p).target)]

DevicesApart(used) ==
    /\ used \in Seq(HwDevice)
    /\ \A i \in DOMAIN used : Dotless(used[i].name)
    /\ \A i, j \in DOMAIN used : used[i].name = used[j].name => i = j

\* All values of all sensors are published.
LEMMA AllSensors ==
    ASSUME Spelled, Decimal, NEW used, DevicesApart(used),
           NEW next, next = Over(Summary(used), OverLines(Sensors, used)),
           NEW temps, temps = AllTemps(used), NEW fans, fans = AllFans(used)
    PROVE  /\ Lists(next, ".temp", Places(temps), PlaceKey(temps, ".temp"), TempAt(temps))
           /\ Lists(next, ".input", Places(fans), PlaceKey(fans, ".input"), InputAt(fans))
           /\ Lists(next, ".target", Places(fans), PlaceKey(fans, ".target"), TargetAt(fans))
<1>1. PICK n, dev, maps, later :
        /\ n = Len(used) /\ dev = [i \in DOMAIN used |-> used[i].name]
        /\ maps = [i \in DOMAIN used |-> Sensors(used[i])] /\ later = Summary(used)
        /\ next = Over(later, OverAll(maps))
  BY Zenon DEF OverLines
<1>2. n \in Nat /\ DOMAIN used = 1 .. n /\ \A i \in 1 .. n : used[i] \in HwDevice
  BY <1>1 DEF DevicesApart
<1>3. /\ DOMAIN maps = 1 .. n /\ DOMAIN temps = 1 .. n /\ DOMAIN fans = 1 .. n
      /\ \A i \in 1 .. n : /\ dev[i] = used[i].name /\ maps[i] = Sensors(used[i])
                           /\ temps[i] = Temps(used[i]) /\ fans[i] = Fans(used[i])
  BY <1>1, <1>2 DEF AllTemps, AllFans
<1>4. \A i, j \in 1 .. n : dev[i] = dev[j] => i = j
  BY <1>2, <1>3 DEF DevicesApart
<1>5. \A w \in SensorParams : \A x \in DOMAIN later : ~EndsWith(x, w)
  <2>1. DOMAIN later = SummaryNames
    BY <1>1, SummaryNamed
  <2> QED BY <2>1, SummaryHasNoEnd
<1>6. PICK a, b, c : /\ a = ".temp" /\ b = ".input" /\ c = ".target"
                     /\ a \in SensorParams /\ b \in SensorParams /\ c \in SensorParams
  BY DEF SensorParams
<1>7. ASSUME NEW i \in 1 .. n
      PROVE  /\ Lists(maps[i], a, DOMAIN temps[i], Key(temps[i], a), TempValues(temps[i]))
             /\ Lists(maps[i], b, DOMAIN fans[i], Key(fans[i], b), InputValues(fans[i]))
             /\ Lists(maps[i], c, DOMAIN fans[i], Key(fans[i], c), TargetValues(fans[i]))
             /\ \E sensors : NamedAfter(temps[i], dev[i], sensors)
             /\ \E sensors : NamedAfter(fans[i], dev[i], sensors)
  <2>1. PICK d : /\ d = used[i] /\ d \in HwDevice /\ Dotless(d.name) /\ dev[i] = d.name
                 /\ maps[i] = Sensors(d) /\ temps[i] = Temps(d) /\ fans[i] = Fans(d)
    BY <1>2, <1>3 DEF DevicesApart
  <2>2. /\ Lists(Sensors(d), a, DOMAIN Temps(d), Key(Temps(d), a), TempValues(Temps(d)))
        /\ Lists(Sensors(d), b, DOMAIN Fans(d), Key(Fans(d), b), InputValues(Fans(d)))
        /\ Lists(Sensors(d), c, DOMAIN Fans(d), Key(Fans(d), c), TargetValues(Fans(d)))
    BY <1>6, <2>1, DeviceLists, Zenon
  <2>3. NamedAfter(Temps(d), d.name, Listed(d.temps, HasTemp))
    BY <2>1, TempsNamed, Zenon
  <2>4. NamedAfter(Fans(d), d.name, Listed(d.fans, HasFan))
    BY <2>1, FansNamed, Zenon
  <2> QED BY <2>1, <2>2, <2>3, <2>4, Zenon
<1>8. PICK x, y, z : /\ x = [i \in 1 .. n |-> TempValues(temps[i])]
                     /\ y = [i \in 1 .. n |-> InputValues(fans[i])]
                     /\ z = [i \in 1 .. n |-> TargetValues(fans[i])]
  OBVIOUS
<1>9. \A i \in 1 .. n : /\ x[i] = TempValues(temps[i]) /\ y[i] = InputValues(fans[i])
                        /\ z[i] = TargetValues(fans[i])
  BY <1>8
<1>10. Alike(a, n, dev, maps, temps, x, later)
  BY <1>2, <1>3, <1>4, <1>5, <1>6, <1>7, <1>9, Zenon DEF Alike
<1>11. Alike(b, n, dev, maps, fans, y, later)
  BY <1>2, <1>3, <1>4, <1>5, <1>6, <1>7, <1>9, Zenon DEF Alike
<1>12. Alike(c, n, dev, maps, fans, z, later)
  BY <1>2, <1>3, <1>4, <1>5, <1>6, <1>7, <1>9, Zenon DEF Alike
<1>13. /\ Lists(next, a, Places(temps), PlaceKey(temps, a), PlaceValue(temps, x))
       /\ Lists(next, b, Places(fans), PlaceKey(fans, b), PlaceValue(fans, y))
       /\ Lists(next, c, Places(fans), PlaceKey(fans, c), PlaceValue(fans, z))
  BY <1>1, <1>6, <1>10, <1>11, <1>12, AlikeLists
<1>14. PlaceValue(temps, x) = TempAt(temps)
  <2>1. ASSUME NEW p \in Places(temps) PROVE x[p[1]][p[2]] = Integer(At(temps, p).temp)
    <3>1. PICK i \in 1 .. n : \E j \in DOMAIN temps[i] : p = <<i, j>>
      BY <1>3 DEF Places
    <3>2. PICK j \in DOMAIN temps[i] : p = <<i, j>>
      BY <3>1
    <3>3. At(temps, p) = temps[i][j] /\ x[p[1]][p[2]] = x[i][j]
      BY <3>2 DEF At
    <3>4. TempValues(temps[i])[j] = Integer(temps[i][j].temp)
      BY DEF TempValues
    <3> QED BY <1>9, <3>3, <3>4
  <2> QED BY <2>1 DEF PlaceValue, TempAt
<1>15. PlaceValue(fans, y) = InputAt(fans) /\ PlaceValue(fans, z) = TargetAt(fans)
  <2>1. ASSUME NEW p \in Places(fans) PROVE /\ y[p[1]][p[2]] = Integer(At(fans, p).input)
                                            /\ z[p[1]][p[2]] = Integer(At(fans, p).target)
    <3>1. PICK i \in 1 .. n : \E j \in DOMAIN fans[i] : p = <<i, j>>
      BY <1>3 DEF Places
    <3>2. PICK j \in DOMAIN fans[i] : p = <<i, j>>
      BY <3>1
    <3>3. At(fans, p) = fans[i][j] /\ y[p[1]][p[2]] = y[i][j] /\ z[p[1]][p[2]] = z[i][j]
      BY <3>2 DEF At
    <3>4. InputValues(fans[i])[j] = Integer(fans[i][j].input)
      BY DEF InputValues
    <3>5. TargetValues(fans[i])[j] = Integer(fans[i][j].target)
      BY DEF TargetValues
    <3> QED BY <1>9, <3>3, <3>4, <3>5
  <2> QED BY <2>1 DEF PlaceValue, InputAt, TargetAt
<1> QED
  BY <1>6, <1>13, <1>14, <1>15, Zenon

TheHottest(temps) == At(temps, CHOOSE p \in Hottest(temps) : TRUE)

\* What the summary tells of the sensors.
SummaryIs(next, temps, fans) ==
    /\ next["temp_max"] = IF Hottest(temps) = {} THEN NoValue ELSE Integer(TheHottest(temps).temp)
    /\ next["name_max"] = IF Hottest(temps) = {} THEN NoValue ELSE Text(TheHottest(temps).name)
    /\ next["fans_num"] = Integer(Cardinality(Places(fans)))
    /\ next["fans_turning"] = Integer(Cardinality({p \in Places(fans) : Turning(At(fans, p))}))
    /\ next["fans_stuck"] = Integer(Cardinality({p \in Places(fans) : Stuck(At(fans, p))}))

\* It tells it in any table it is laid over.
LEMMA SummaryTells ==
    ASSUME NEW used, NEW before, NEW next, next = Over(Summary(used), before)
    PROVE  SummaryIs(next, AllTemps(used), AllFans(used))
<1>0. PICK temps, fans, hottest, max :
        /\ temps = AllTemps(used) /\ fans = AllFans(used)
        /\ hottest = Hottest(temps) /\ max = TheHottest(temps)
  OBVIOUS
<1>1. PICK a, b, c, d, e :
        /\ a = (IF hottest = {} THEN NoValue ELSE Integer(max.temp))
        /\ b = (IF hottest = {} THEN NoValue ELSE Text(max.name))
        /\ c = Integer(Cardinality(Places(fans)))
        /\ d = Integer(Cardinality({p \in Places(fans) : Turning(At(fans, p))}))
        /\ e = Integer(Cardinality({p \in Places(fans) : Stuck(At(fans, p))}))
  OBVIOUS
<1>2. PICK S : /\ S = {<<"temp_max", a>>, <<"name_max", b>>, <<"fans_num", c>>,
                       <<"fans_turning", d>>, <<"fans_stuck", e>>}
               /\ Summary(used) = Named(S)
  BY <1>0, <1>1, Zenon DEF Summary, Count, AllTemps, AllFans, TheHottest
<1>3. PICK later : later = Named(S) /\ next = Over(later, before)
  BY <1>2
<1>4. /\ "temp_max" \in DOMAIN later /\ later["temp_max"] = a
      /\ "name_max" \in DOMAIN later /\ later["name_max"] = b
      /\ "fans_num" \in DOMAIN later /\ later["fans_num"] = c
      /\ "fans_turning" \in DOMAIN later /\ later["fans_turning"] = d
      /\ "fans_stuck" \in DOMAIN later /\ later["fans_stuck"] = e
  <2>1. ASSUME NEW x, NEW v, <<x, v>> \in S, \A p \in S : p[1] = x => p[2] = v
        PROVE  x \in DOMAIN later /\ later[x] = v
    BY <1>3, <2>1, NamedOnce
  <2>2. /\ <<"temp_max", a>> \in S /\ \A p \in S : p[1] = "temp_max" => p[2] = a
        /\ <<"name_max", b>> \in S /\ \A p \in S : p[1] = "name_max" => p[2] = b
        /\ <<"fans_num", c>> \in S /\ \A p \in S : p[1] = "fans_num" => p[2] = c
        /\ <<"fans_turning", d>> \in S /\ \A p \in S : p[1] = "fans_turning" => p[2] = d
        /\ <<"fans_stuck", e>> \in S /\ \A p \in S : p[1] = "fans_stuck" => p[2] = e
    BY <1>2
  <2> QED BY <2>1, <2>2, Zenon
<1>5. \A x \in DOMAIN later : next[x] = later[x]
  BY <1>3 DEF Over
<1> QED
  BY <1>0, <1>1, <1>4, <1>5, Zenon DEF SummaryIs

\* After an update that returned, the devices of which all is published.
DevicesTold(used) ==
    /\ DevicesApart(used) /\ current = Over(Summary(used), OverLines(Sensors, used))
    /\ FirstDevices = Range(used)

\* They are those Used() has taken.
LEMMA DevicesAreTold ==
    ASSUME Told, HwmonTold
    PROVE  \E used : DevicesTold(used)
<1>1. /\ source.lines \in Seq(HwDevice) /\ source # NoFile /\ ok
      /\ current = HWMon(source).next /\ ok = HWMon(source).ok
  BY LastRead DEF HwmonTold, Fresh, FromSource, Memoryless, Tells, Readable, HwDevice,
                  TempSensor, FanSensor
<1>2. PICK lines, n, used : /\ lines = source.lines /\ used = Used(lines) /\ n = Len(lines)
  OBVIOUS
<1>3. lines \in Seq(HwDevice) /\ used \in Seq(HwDevice) /\ Firsts(lines, n, used)
  BY <1>1, <1>2, UsedDevices, UsedAreFirsts
<1>4. n \in Nat /\ DOMAIN lines = 1 .. n
  BY <1>2, <1>3
<1>5. current = Over(Summary(used), OverLines(Sensors, used))
  <2>1. Opened(used) # used => HWMon(source).ok = FALSE
    BY <1>1, <1>2, Zenon DEF HWMon, Throws
  <2>2. Opened(used) = used
    BY <1>1, <2>1
  <2> QED BY <1>1, <1>2, <2>2, Zenon DEF HWMon, Returns
<1>6. ASSUME NEW i \in DOMAIN used PROVE Dotless(used[i].name)
  <2>1. PICK k \in 1 .. n : FirstAt(lines, k) /\ used[i] = lines[k]
    BY <1>3, Zenon DEF Firsts
  <2>2. lines[k].name # ""
    BY <2>1, Zenon DEF FirstAt
  <2>3. lines[k] \in Devices
    BY <1>2, <1>4, <2>2 DEF Devices, Range
  <2>4. Dotless(lines[k].name)
    BY <2>3, Zenon DEF HwmonTold
  <2> QED BY <2>1, <2>4, Zenon
<1>7. \A i, j \in DOMAIN used : used[i].name = used[j].name => i = j
  BY <1>3, Zenon DEF Firsts
<1>8. DevicesApart(used)
  BY <1>3, <1>6, <1>7, Zenon DEF DevicesApart
<1>9. FirstDevices = Range(used)
  BY <1>1, <1>2, FirstDevicesUsed
<1> QED
  BY <1>5, <1>8, <1>9 DEF DevicesTold

\* The places of what could be read of a device.
TempPlaces(d) == {i \in DOMAIN d.temps : HasTemp(d.temps[i])}
FanPlaces(d) == {i \in DOMAIN d.fans : HasFan(d.fans[i])}

\* The sensors of the devices, and that they are finitely many.
LEMMA SensorsOfDevices ==
    ASSUME Spelled, NEW used, DevicesApart(used),
           NEW temps, temps = AllTemps(used), NEW fans, fans = AllFans(used)
    PROVE  \E n \in Nat :
               /\ DOMAIN used = 1 .. n /\ DOMAIN temps = 1 .. n /\ DOMAIN fans = 1 .. n
               /\ \A i \in 1 .. n : /\ DOMAIN temps[i] = TempPlaces(used[i])
                                    /\ DOMAIN fans[i] = FanPlaces(used[i])
               /\ \A i \in 1 .. n : \E m \in Nat : ManyOf(temps[i], m, OfTemp)
               /\ \A i \in 1 .. n : \E m \in Nat : ManyOf(fans[i], m, OfFan)
               /\ IsFiniteSet(Places(temps)) /\ IsFiniteSet(Places(fans))
<1>1. PICK n \in Nat : n = Len(used)
  BY DEF DevicesApart
<1>2. DOMAIN used = 1 .. n /\ \A i \in 1 .. n : used[i] \in HwDevice
  BY <1>1 DEF DevicesApart
<1>3. DOMAIN temps = 1 .. n /\ DOMAIN fans = 1 .. n
  BY <1>2 DEF AllTemps, AllFans
<1>4. \A i \in 1 .. n : temps[i] = Temps(used[i]) /\ fans[i] = Fans(used[i])
  BY <1>2 DEF AllTemps, AllFans
<1>5. \A i \in 1 .. n : /\ DOMAIN temps[i] = TempPlaces(used[i])
                        /\ DOMAIN fans[i] = FanPlaces(used[i])
  BY <1>4 DEF Temps, Fans, Listed, Restrict, TempPlaces, FanPlaces
<1>6. ASSUME NEW i \in 1 .. n
      PROVE  (\E m \in Nat : ManyOf(temps[i], m, OfTemp)) /\ \E m \in Nat : ManyOf(fans[i], m, OfFan)
  BY <1>2, <1>4, TempsOfDevice, FansOfDevice
<1>7. ASSUME NEW i \in 1 .. n PROVE IsFiniteSet(DOMAIN temps[i]) /\ IsFiniteSet(DOMAIN fans[i])
  <2>1. PICK m \in Nat : DOMAIN temps[i] \in SUBSET (1 .. m)
    BY <1>6 DEF ManyOf
  <2>2. PICK k \in Nat : DOMAIN fans[i] \in SUBSET (1 .. k)
    BY <1>6 DEF ManyOf
  <2>3. IsFiniteSet(1 .. m) /\ IsFiniteSet(1 .. k)
    BY FS_Interval
  <2> QED BY <2>1, <2>2, <2>3, FS_Subset
<1>8. IsFiniteSet(Places(temps)) /\ IsFiniteSet(Places(fans))
  BY <1>3, <1>7, PlacesAreFinite
<1> QED
  BY <1>2, <1>3, <1>5, <1>6, <1>8

\* However many sensors there are, and whatever they measure: the summary names
\* the hottest of those published, or none if there is none.
THEOREM HottestIsShown ==
    ASSUME Spelled, Decimal
    PROVE  Spec => []HottestShown
<1>1. Told => HottestShown
  <2> SUFFICES ASSUME Told, HwmonTold PROVE HottestShown
    BY DEF HottestShown
  <2>1. PICK used : DevicesTold(used)
    BY DevicesAreTold
  <2>2. PICK temps, fans, next, w, P, hottest, max :
          /\ temps = AllTemps(used) /\ fans = AllFans(used) /\ next = current /\ w = ".temp"
          /\ P = Places(temps) /\ hottest = Hottest(temps) /\ max = TheHottest(temps)
    OBVIOUS
  <2>3. DevicesApart(used) /\ next = Over(Summary(used), OverLines(Sensors, used))
    BY <2>1, <2>2 DEF DevicesTold
  <2>4. Lists(next, w, P, PlaceKey(temps, w), TempAt(temps))
    BY <2>2, <2>3, AllSensors, Zenon
  <2>5. PICK n \in Nat : /\ DOMAIN temps = 1 .. n /\ IsFiniteSet(P)
                         /\ \A i \in 1 .. n : \E m \in Nat : ManyOf(temps[i], m, OfTemp)
    BY <2>2, <2>3, SensorsOfDevices
  <2>6. \A i \in 1 .. n : \A a \in DOMAIN temps[i] : a \in Nat /\ OfTemp(temps[i][a])
    BY <2>5 DEF ManyOf
  <2>7. PICK all : all = WithSuffix(".temp") /\ \A x : x \in all <=> x \in DOMAIN next /\ EndsWith(x, w)
    <3>1. WithSuffix(w) = {x \in DOMAIN next : EndsWith(x, w)}
      BY <2>2, Zenon DEF WithSuffix
    <3>2. \A x : x \in WithSuffix(w) <=> x \in DOMAIN next /\ EndsWith(x, w)
      BY <3>1
    <3> QED BY <2>2, <3>2, Zenon
  <2>8. \A x : x \in all <=> \E p \in P : x = PlaceKey(temps, w)[p]
    BY <2>4, <2>7 DEF Lists
  <2>9. \A p \in P : /\ PlaceKey(temps, w)[p] = At(temps, p).name \o w
                     /\ next[PlaceKey(temps, w)[p]] = Integer(At(temps, p).temp)
    BY <2>2, <2>4 DEF Lists, PlaceKey, TempAt
  <2>10. /\ next["temp_max"] = IF hottest = {} THEN NoValue ELSE Integer(max.temp)
         /\ next["name_max"] = IF hottest = {} THEN NoValue ELSE Text(max.name)
    <3>1. SummaryIs(next, temps, fans)
      BY <2>2, <2>3, SummaryTells
    <3> QED BY <2>2, <3>1, Zenon DEF SummaryIs
  <2>11. ASSUME all = {} PROVE current["temp_max"] = NoValue /\ current["name_max"] = NoValue
    <3>1. P = {}
      BY <2>8, <2>11
    <3>2. hottest = {}
      BY <2>2, <3>1 DEF Hottest
    <3> QED BY <2>2, <2>10, <3>2, Zenon
  <2>12. ASSUME all # {}
         PROVE  /\ NoValue \notin {current["temp_max"], current["name_max"]}
                /\ current["name_max"].text \o ".temp" \in all
                /\ Value(current["name_max"].text \o ".temp") = Value("temp_max")
                /\ \A x \in all : Value(x) <= Value("temp_max")
    <3>1. P # {}
      BY <2>8, <2>12
    <3>2. hottest # {}
      <4>1. \A i \in 1 .. n : \A a \in DOMAIN temps[i] : a \in Nat /\ temps[i][a].temp \in Int
        BY <2>6 DEF OfTemp
      <4> QED BY <2>2, <2>5, <3>1, <4>1, HottestExists
    <3>3. PICK p \in P : /\ max = At(temps, p)
                         /\ \A q \in P : At(temps, q).temp <= At(temps, p).temp
      BY <2>2, <3>2 DEF Hottest, TheHottest
    <3>4. PICK v, t : /\ v = next["temp_max"] /\ t = next["name_max"]
                      /\ v = Integer(max.temp) /\ t = Text(max.name)
      BY <2>10, <3>2
    <3>5. v # NoValue /\ t # NoValue /\ v.int = max.temp /\ t.text = max.name
      BY <3>4 DEF NoValue, Integer, Text
    <3>6. PICK x : x = t.text \o w /\ x = PlaceKey(temps, w)[p]
      BY <2>9, <3>3, <3>5
    <3>7. x \in all /\ next[x] = Integer(max.temp)
      BY <2>8, <2>9, <3>3, <3>6
    <3>8. next[x].int = v.int
      BY <3>5, <3>7 DEF Integer
    <3>9. ASSUME NEW y \in all PROVE next[y].int <= v.int
      <4>1. PICK q \in P : y = PlaceKey(temps, w)[q]
        BY <2>8
      <4>2. next[y] = Integer(At(temps, q).temp)
        BY <2>9, <4>1
      <4>3. next[y].int = At(temps, q).temp
        BY <4>2 DEF Integer
      <4> QED BY <3>3, <3>5, <4>3
    <3> QED BY <2>2, <3>4, <3>5, <3>6, <3>7, <3>8, <3>9, Zenon DEF Value
  <2> QED
    BY <2>7, <2>11, <2>12, Zenon DEF HottestShown
<1> QED
  BY ToldInit, ToldStep, <1>1, PTL DEF Spec

-----------------------------------------------------------------------------
(* The counts                                                              *)

\* What is before the end of what is put together.
LEMMA BeforeEnd ==
    ASSUME NEW C, NEW z \in Seq(C), NEW e \in Seq(C), NEW s, s = z \o e, NEW k, k = Len(e)
    PROVE  SubSeq(s, 1, Len(s) - k) = z
<1>1. s \in Seq(C) /\ Joins(s, z, e)
  BY Together
<1>2. PICK m, n : m = Len(z) /\ n = Len(s) /\ m \in Nat /\ k \in Nat /\ n = m + k /\ n - k = m
  <2>1. Len(z) \in Nat /\ Len(e) \in Nat /\ Len(s) = Len(z) + Len(e)
    BY <1>1 DEF Joins
  <2>2. PICK m, n : m = Len(z) /\ n = Len(s) /\ m \in Nat /\ k \in Nat /\ n = m + k
    BY <2>1, Zenon
  <2>3. n - k = m
    BY <2>2
  <2> QED BY <2>2, <2>3
<1>3. \A i \in 1 .. m : s[i] = z[i]
  BY <1>1, <1>2 DEF Joins
<1>4. SubSeq(s, 1, m) = z
  <2>1. PICK x : x = SubSeq(s, 1, m)
    OBVIOUS
  <2>2. x \in Seq(C) /\ Len(x) = m /\ \A i \in 1 .. m : x[i] = s[i]
    BY <1>1, <1>2, <2>1
  <2>3. Len(x) = Len(z) /\ \A i \in 1 .. Len(x) : x[i] = z[i]
    BY <1>2, <1>3, <2>2
  <2>4. x = z
    BY <2>2, <2>3, SeqEqual
  <2> QED BY <2>1, <2>4
<1> QED
  BY <1>2, <1>4, Zenon

\* One with the next, and that with the last.
Grouped(C, a, b, e, z, v) ==
    a \in Seq(C) /\ b \in Seq(C) /\ e \in Seq(C) /\ z = a \o b /\ v = b \o e

\* It does not matter which are put together first.
LEMMA Associated ==
    ASSUME NEW C, NEW a, NEW b, NEW e, NEW z, NEW v, Grouped(C, a, b, e, z, v)
    PROVE  z \o e = a \o v
<1>0. a \in Seq(C) /\ b \in Seq(C) /\ e \in Seq(C) /\ z = a \o b /\ v = b \o e
  BY DEF Grouped
<1>1. z \in Seq(C) /\ Joins(z, a, b) /\ v \in Seq(C) /\ Joins(v, b, e)
  BY <1>0, Together
<1>2. PICK u, w : /\ u = z \o e /\ u \in Seq(C) /\ Joins(u, z, e)
                  /\ w = a \o v /\ w \in Seq(C) /\ Joins(w, a, v)
  BY <1>0, <1>1, Together
<1>3. PICK l, m, n : l = Len(a) /\ m = Len(b) /\ n = Len(e) /\ l \in Nat /\ m \in Nat /\ n \in Nat
  <2>1. Len(a) \in Nat /\ Len(b) \in Nat /\ Len(e) \in Nat
    BY <1>0
  <2> QED BY <2>1, Zenon
<1>4. Len(z) = l + m /\ Len(v) = m + n /\ Len(u) = (l + m) + n /\ Len(w) = l + (m + n)
  BY <1>1, <1>2, <1>3 DEF Joins
<1>5. /\ \A i \in 1 .. l : z[i] = a[i] /\ w[i] = a[i]
      /\ \A i \in 1 .. m : z[l + i] = b[i] /\ v[i] = b[i]
      /\ \A i \in 1 .. n : v[m + i] = e[i] /\ u[(l + m) + i] = e[i]
      /\ \A i \in 1 .. l + m : u[i] = z[i]
      /\ \A i \in 1 .. m + n : w[l + i] = v[i]
  <2>1. (\A i \in 1 .. l : z[i] = a[i]) /\ \A i \in 1 .. m : z[l + i] = b[i]
    BY <1>1, <1>3, Zenon DEF Joins
  <2>2. (\A i \in 1 .. m : v[i] = b[i]) /\ \A i \in 1 .. n : v[m + i] = e[i]
    BY <1>1, <1>3, Zenon DEF Joins
  <2>3. (\A i \in 1 .. l + m : u[i] = z[i]) /\ \A i \in 1 .. n : u[(l + m) + i] = e[i]
    BY <1>2, <1>3, <1>4, Zenon DEF Joins
  <2>4. (\A i \in 1 .. l : w[i] = a[i]) /\ \A i \in 1 .. m + n : w[l + i] = v[i]
    BY <1>2, <1>3, <1>4, Zenon DEF Joins
  <2> QED BY <2>1, <2>2, <2>3, <2>4
<1>6. ASSUME NEW i \in 1 .. (l + m) + n PROVE u[i] = w[i]
  <2>1. CASE i <= l
    <3>1. i \in 1 .. l /\ i \in 1 .. l + m
      BY <1>3, <2>1
    <3> QED BY <1>5, <3>1
  <2>2. CASE l < i /\ i <= l + m
    <3>0. PICK j : j = i - l
      OBVIOUS
    <3>1. i = l + j /\ j \in 1 .. m /\ l + j \in 1 .. l + m /\ j \in 1 .. m + n
      BY <1>3, <2>2, <3>0
    <3>2. u[l + j] = z[l + j] /\ z[l + j] = b[j] /\ w[l + j] = v[j] /\ v[j] = b[j]
      BY <1>5, <3>1
    <3> QED BY <3>1, <3>2, Zenon
  <2>3. CASE l + m < i
    <3>0. PICK j : j = i - (l + m)
      OBVIOUS
    <3>1. i = (l + m) + j /\ i = l + (m + j) /\ j \in 1 .. n /\ m + j \in 1 .. m + n
      BY <1>3, <2>3, <3>0
    <3>2. u[(l + m) + j] = e[j] /\ w[l + (m + j)] = v[m + j] /\ v[m + j] = e[j]
      BY <1>5, <3>1
    <3> QED BY <3>1, <3>2, Zenon
  <2> QED BY <1>3, <2>1, <2>2, <2>3
<1>7. Len(u) = Len(w) /\ \A i \in 1 .. Len(u) : u[i] = w[i]
  BY <1>3, <1>4, <1>6
<1>8. u = w
  BY <1>2, <1>7, SeqEqual
<1> QED
  BY <1>2, <1>8, Zenon

Replaces(a, u, t, i, v) == SubSeq(a \o u, 1, Len(a \o u) - Len(t)) \o i = a \o v

\* Another end after the same beginning.
LEMMA OtherEnd ==
    ASSUME NEW C, NEW a, NEW b, NEW t, NEW i, NEW z, NEW u, NEW v,
           Grouped(C, a, b, t, z, u), Grouped(C, a, b, i, z, v)
    PROVE  Replaces(a, u, t, i, v)
<1>1. z \in Seq(C) /\ t \in Seq(C)
  BY Together DEF Grouped
<1>2. z \o t = a \o u
  BY Associated
<1>3. z \o i = a \o v
  BY Associated
<1>4. PICK s, k : s = a \o u /\ s = z \o t /\ k = Len(t)
  BY <1>2
<1>5. SubSeq(s, 1, Len(s) - k) = z
  BY <1>1, <1>4, BeforeEnd
<1> QED
  BY <1>3, <1>4, <1>5, Zenon DEF Replaces

\* A fan's target leads to its input.
LEMMA InputOfTarget ==
    ASSUME NEW C, SpelledIn(C), NEW name \in Seq(C), NEW s, s = name \o ".target"
    PROVE  SubSeq(s, 1, Len(s) - 6) \o "input" = name \o ".input"
<1>1. PICK point, t, i, u, v :
        /\ point = "." /\ t = "target" /\ i = "input" /\ u = ".target" /\ v = ".input"
        /\ point \in Seq(C) /\ t \in Seq(C) /\ i \in Seq(C)
  BY Zenon DEF SpelledIn, Words
<1>2. Len(t) = 6 /\ u = point \o t /\ v = point \o i
  BY <1>1, LettersAssumption, Zenon
<1>3. PICK k : k = Len(t) /\ k = 6
  BY <1>2, Zenon
<1>4. s = name \o u
  BY <1>1, Zenon
<1>5. PICK z : z = name \o point
  OBVIOUS
<1>6. Grouped(C, name, point, t, z, u)
  BY <1>1, <1>2, <1>5, Zenon DEF Grouped
<1>7. Grouped(C, name, point, i, z, v)
  BY <1>1, <1>2, <1>5, Zenon DEF Grouped
<1>8. SubSeq(s, 1, Len(s) - k) \o i = name \o v
  <2>1. Replaces(name, u, t, i, v)
    BY <1>6, <1>7, OtherEnd
  <2> QED BY <1>3, <1>4, <2>1, Zenon DEF Replaces
<1> QED
  BY <1>1, <1>3, <1>8, Zenon

\* The names S are those of the places Q.
SomeOf(next, w, P, key, val, Q, S) ==
    /\ Lists(next, w, P, key, val) /\ IsFiniteSet(P) /\ Q \subseteq P
    /\ \A x : x \in S <=> \E p \in Q : x = key[p]

\* Some of those published are as many as there are at the places.
LEMMA SomeCounted ==
    ASSUME NEW next, NEW w, NEW P, NEW key, NEW val, NEW Q, NEW S,
           SomeOf(next, w, P, key, val, Q, S)
    PROVE  Cardinality(S) = Cardinality(Q)
<1>1. IsFiniteSet(Q)
  BY FS_Subset DEF SomeOf
<1>2. \A p, q \in Q : key[p] = key[q] => p = q
  BY DEF SomeOf, Lists
<1>3. Cardinality({key[p] : p \in Q}) = Cardinality(Q)
  BY <1>1, <1>2, ListedMany
<1>4. S = {key[p] : p \in Q}
  BY DEF SomeOf
<1> QED
  BY <1>3, <1>4

\* The targets S of the fans, at the places R, that stand still though they
\* should turn.
StuckFans(used, next, fans, S, R) ==
    /\ DevicesApart(used) /\ fans = AllFans(used)
    /\ next = Over(Summary(used), OverLines(Sensors, used))
    /\ \A x : x \in S <=> /\ x \in DOMAIN next /\ EndsWith(x, ".target") /\ next[x].int # 0
                          /\ next[SubSeq(x, 1, Len(x) - 6) \o "input"].int = 0
    /\ R = {p \in Places(fans) : Stuck(At(fans, p))}

\* They are told by what is published of them.
LEMMA StuckCounted ==
    ASSUME Spelled, Decimal, NEW used, NEW next, NEW fans, NEW S, NEW R,
           StuckFans(used, next, fans, S, R)
    PROVE  Cardinality(S) = Cardinality(R)
<1>a. /\ DevicesApart(used) /\ fans = AllFans(used)
      /\ next = Over(Summary(used), OverLines(Sensors, used))
  BY Zenon DEF StuckFans
<1>b. \A x : x \in S <=> /\ x \in DOMAIN next /\ EndsWith(x, ".target") /\ next[x].int # 0
                         /\ next[SubSeq(x, 1, Len(x) - 6) \o "input"].int = 0
  BY Zenon DEF StuckFans
<1>c. R = {p \in Places(fans) : Stuck(At(fans, p))}
  BY Zenon DEF StuckFans
<1>1. PICK P, w, v, Q : /\ P = Places(fans) /\ w = ".target" /\ v = ".input"
                        /\ Q = {p \in P : Stuck(At(fans, p))}
  OBVIOUS
<1>2. Lists(next, w, P, PlaceKey(fans, w), TargetAt(fans))
  BY <1>a, <1>1, AllSensors, Zenon
<1>3. Lists(next, v, P, PlaceKey(fans, v), InputAt(fans))
  BY <1>a, <1>1, AllSensors, Zenon
<1>4. IsFiniteSet(P)
  BY <1>a, <1>1, SensorsOfDevices
<1>5. PICK C : SpelledIn(C)
  BY DEF Spelled
<1>6. \A p \in P : At(fans, p).name \in Seq(C)
  <2>1. PICK n \in Nat : /\ n = Len(used) /\ DOMAIN used = 1 .. n /\ DOMAIN fans = 1 .. n
                         /\ \A i \in 1 .. n : used[i] \in HwDevice /\ fans[i] = Fans(used[i])
    BY <1>a DEF DevicesApart, AllFans
  <2> SUFFICES ASSUME NEW p \in P PROVE At(fans, p).name \in Seq(C)
    OBVIOUS
  <2>2. PICK i \in 1 .. n : \E a \in DOMAIN fans[i] : p = <<i, a>>
    BY <1>1, <2>1 DEF Places
  <2>3. PICK a \in DOMAIN fans[i] : p = <<i, a>>
    BY <2>2
  <2>4. PICK xs, d : /\ xs = fans[i] /\ d = used[i] /\ At(fans, p) = xs[a] /\ a \in DOMAIN xs
                     /\ xs = Fans(d) /\ d \in HwDevice /\ Dotless(d.name)
    BY <1>a, <2>1, <2>3 DEF At, DevicesApart
  <2>5. NamedAfter(xs, d.name, Listed(d.fans, HasFan))
    BY <2>4, FansNamed, Zenon
  <2>6. PICK dev, sensors : NamedAfter(xs, dev, sensors)
    BY <2>5, Zenon
  <2>7. xs[a].name \in Seq(C)
    BY <1>5, <2>4, <2>6, KeySpelled
  <2> QED BY <2>4, <2>7, Zenon
<1>7. ASSUME NEW p \in P
      PROVE  \E x : /\ x = PlaceKey(fans, w)[p]
                    /\ next[x] = Integer(At(fans, p).target)
                    /\ next[SubSeq(x, 1, Len(x) - 6) \o "input"] = Integer(At(fans, p).input)
  <2>1. PICK name, x, y : /\ name = At(fans, p).name /\ x = name \o w /\ y = name \o v
                          /\ name \in Seq(C)
    BY <1>6
  <2>2. x = PlaceKey(fans, w)[p] /\ y = PlaceKey(fans, v)[p]
    BY <1>1, <2>1 DEF PlaceKey
  <2>3. next[x] = Integer(At(fans, p).target) /\ next[y] = Integer(At(fans, p).input)
    BY <1>1, <1>2, <1>3, <2>2 DEF Lists, TargetAt, InputAt
  <2>4. SubSeq(x, 1, Len(x) - 6) \o "input" = y
    BY <1>1, <1>5, <2>1, InputOfTarget, Zenon
  <2> QED BY <2>2, <2>3, <2>4, Zenon
<1>8. ASSUME NEW p \in P PROVE PlaceKey(fans, w)[p] \in S <=> p \in Q
  <2>1. PICK x, i, t : /\ x = PlaceKey(fans, w)[p] /\ t = next[x]
                       /\ i = next[SubSeq(x, 1, Len(x) - 6) \o "input"]
                       /\ t = Integer(At(fans, p).target) /\ i = Integer(At(fans, p).input)
    BY <1>7, Zenon
  <2>2. x \in DOMAIN next /\ EndsWith(x, w)
    BY <1>2, <2>1 DEF Lists
  <2>3. x \in S <=> t.int # 0 /\ i.int = 0
    BY <1>1, <1>b, <2>1, <2>2, Zenon
  <2>4. t.int = At(fans, p).target /\ i.int = At(fans, p).input
    BY <2>1 DEF Integer
  <2>5. p \in Q <=> At(fans, p).input = 0 /\ At(fans, p).target # 0
    BY <1>1 DEF Stuck
  <2> QED BY <2>1, <2>3, <2>4, <2>5, Zenon
<1>9. \A x \in S : \E p \in P : x = PlaceKey(fans, w)[p]
  <2>1. \A x \in S : x \in DOMAIN next /\ EndsWith(x, w)
    BY <1>1, <1>b, Zenon
  <2> QED BY <1>2, <2>1 DEF Lists
<1>10. \A x : x \in S <=> \E p \in Q : x = PlaceKey(fans, w)[p]
  <2>1. \A p \in Q : p \in P
    BY <1>1
  <2> QED BY <1>8, <1>9, <2>1
<1>11. Cardinality(S) = Cardinality(Q)
  <2>1. Q \subseteq P
    BY <1>1
  <2>2. SomeOf(next, w, P, PlaceKey(fans, w), TargetAt(fans), Q, S)
    BY <1>2, <1>4, <1>10, <2>1 DEF SomeOf
  <2> QED BY <2>2, SomeCounted
<1> QED
  BY <1>c, <1>1, <1>11, Zenon

\* The sensors of the first devices are those at the places.
LEMMA AsManySensors ==
    ASSUME Spelled, NEW used, DevicesTold(used),
           NEW temps, temps = AllTemps(used), NEW fans, fans = AllFans(used)
    PROVE  /\ Cardinality(UNION {{d} \X TempPlaces(d) : d \in FirstDevices}) = Cardinality(Places(temps))
           /\ Cardinality(UNION {{d} \X FanPlaces(d) : d \in FirstDevices}) = Cardinality(Places(fans))
<1>1. DevicesApart(used) /\ FirstDevices = Range(used)
  BY DEF DevicesTold
<1>2. PICK n \in Nat :
        /\ DOMAIN used = 1 .. n /\ DOMAIN temps = 1 .. n /\ DOMAIN fans = 1 .. n
        /\ \A i \in 1 .. n : /\ DOMAIN temps[i] = TempPlaces(used[i])
                             /\ DOMAIN fans[i] = FanPlaces(used[i])
        /\ IsFiniteSet(Places(temps)) /\ IsFiniteSet(Places(fans))
  BY <1>1, SensorsOfDevices
<1>3. \A i, j \in 1 .. n : used[i] = used[j] => i = j
  BY <1>1, <1>2 DEF DevicesApart
<1>4. \A d : d \in FirstDevices <=> \E i \in 1 .. n : d = used[i]
  BY <1>1, <1>2 DEF Range
<1>5. PICK T, F : /\ T = UNION {{d} \X TempPlaces(d) : d \in FirstDevices}
                  /\ F = UNION {{d} \X FanPlaces(d) : d \in FirstDevices}
  OBVIOUS
<1>6. \A x : x \in T <=> \E i \in 1 .. n : \E a \in DOMAIN temps[i] : x = <<used[i], a>>
  BY <1>2, <1>4, <1>5
<1>7. \A x : x \in F <=> \E i \in 1 .. n : \E a \in DOMAIN fans[i] : x = <<used[i], a>>
  BY <1>2, <1>4, <1>5
<1>8. Cardinality(T) = Cardinality(Places(temps))
  <2>1. SensorsOf(n, temps, used, T)
    BY <1>2, <1>3, <1>6 DEF SensorsOf
  <2> QED BY <2>1, PlacesCounted
<1>9. Cardinality(F) = Cardinality(Places(fans))
  <2>1. SensorsOf(n, fans, used, F)
    BY <1>2, <1>3, <1>7 DEF SensorsOf
  <2> QED BY <2>1, PlacesCounted
<1> QED
  BY <1>5, <1>8, <1>9, Zenon

\* However many devices and sensors there are, and however they are labelled:
\* each sensor has names of its own, and the fans are counted as they are
\* published.
THEOREM SensorsAreApart ==
    ASSUME Spelled, Decimal
    PROVE  Spec => []SensorsApart
<1>1. Told => SensorsApart
  <2> SUFFICES ASSUME Told, HwmonTold PROVE SensorsApart
    BY DEF SensorsApart
  <2>1. PICK used : DevicesTold(used)
    BY DevicesAreTold
  <2>2. PICK temps, fans, next, P, Q, w, v :
          /\ temps = AllTemps(used) /\ fans = AllFans(used) /\ next = current
          /\ P = Places(temps) /\ Q = Places(fans) /\ w = ".temp" /\ v = ".input"
    OBVIOUS
  <2>3. DevicesApart(used) /\ next = Over(Summary(used), OverLines(Sensors, used))
    BY <2>1, <2>2 DEF DevicesTold
  <2>4. Lists(next, w, P, PlaceKey(temps, w), TempAt(temps))
    BY <2>2, <2>3, AllSensors, Zenon
  <2>5. Lists(next, v, Q, PlaceKey(fans, v), InputAt(fans))
    BY <2>2, <2>3, AllSensors, Zenon
  <2>6. IsFiniteSet(P) /\ IsFiniteSet(Q)
    BY <2>2, <2>3, SensorsOfDevices
  <2>7. PICK A, F : /\ A = WithSuffix(w) /\ \A x : x \in A <=> x \in DOMAIN next /\ EndsWith(x, w)
                    /\ F = WithSuffix(v) /\ \A x : x \in F <=> x \in DOMAIN next /\ EndsWith(x, v)
    <3>1. \A s : WithSuffix(s) = {x \in DOMAIN next : EndsWith(x, s)}
      BY <2>2, Zenon DEF WithSuffix
    <3>2. \A s : \A x : x \in WithSuffix(s) <=> x \in DOMAIN next /\ EndsWith(x, s)
      BY <3>1
    <3> QED BY <3>2, Zenon
  <2>8. Cardinality(A) = Cardinality(P)
    <3>1. SomeOf(next, w, P, PlaceKey(temps, w), TempAt(temps), P, A)
      BY <2>4, <2>6, <2>7 DEF SomeOf, Lists
    <3> QED BY <3>1, SomeCounted
  <2>9. Cardinality(F) = Cardinality(Q)
    <3>1. SomeOf(next, v, Q, PlaceKey(fans, v), InputAt(fans), Q, F)
      BY <2>5, <2>6, <2>7 DEF SomeOf, Lists
    <3> QED BY <3>1, SomeCounted
  <2>10. /\ Cardinality(UNION {{d} \X TempPlaces(d) : d \in FirstDevices}) = Cardinality(P)
         /\ Cardinality(UNION {{d} \X FanPlaces(d) : d \in FirstDevices}) = Cardinality(Q)
    BY <2>1, <2>2, AsManySensors, Zenon
  <2>11. SummaryIs(next, temps, fans)
    BY <2>2, <2>3, SummaryTells
  <2>12. Value("fans_num") = Cardinality(Q)
    <3>1. next["fans_num"] = Integer(Cardinality(Q))
      BY <2>2, <2>11, Zenon DEF SummaryIs
    <3> QED BY <2>2, <3>1 DEF Value, Integer
  <2>13. Value("fans_turning") = Cardinality({x \in F : Value(x) # 0})
    <3>1. PICK R, S : R = {p \in Q : Turning(At(fans, p))} /\ S = {x \in F : Value(x) # 0}
      OBVIOUS
    <3>2. ASSUME NEW p \in Q PROVE PlaceKey(fans, v)[p] \in S <=> p \in R
      <4>1. PICK x : x = PlaceKey(fans, v)[p]
        OBVIOUS
      <4>2. x \in F /\ next[x] = Integer(At(fans, p).input)
        BY <2>2, <2>5, <2>7, <4>1 DEF Lists, InputAt
      <4>3. Value(x) = At(fans, p).input
        BY <2>2, <4>2 DEF Value, Integer
      <4> QED BY <3>1, <4>1, <4>2, <4>3 DEF Turning
    <3>3. \A x \in S : \E p \in Q : x = PlaceKey(fans, v)[p]
      BY <2>5, <2>7, <3>1 DEF Lists
    <3>4. R \subseteq Q
      BY <3>1
    <3>5. \A x : x \in S <=> \E p \in R : x = PlaceKey(fans, v)[p]
      BY <3>2, <3>3, <3>4
    <3>6. SomeOf(next, v, Q, PlaceKey(fans, v), InputAt(fans), R, S)
      BY <2>5, <2>6, <3>4, <3>5 DEF SomeOf
    <3>7. Cardinality(S) = Cardinality(R)
      BY <3>6, SomeCounted
    <3>8. next["fans_turning"] = Integer(Cardinality(R))
      BY <2>2, <2>11, <3>1, Zenon DEF SummaryIs
    <3> QED BY <2>2, <3>1, <3>7, <3>8 DEF Value, Integer
  <2>14. Value("fans_stuck") = Cardinality(
             {x \in WithSuffix(".target") :
                  Value(x) # 0 /\ Value(SubSeq(x, 1, Len(x) - 6) \o "input") = 0})
    <3>1. PICK S : S = {x \in WithSuffix(".target") :
                            Value(x) # 0 /\ Value(SubSeq(x, 1, Len(x) - 6) \o "input") = 0}
      OBVIOUS
    <3>2. \A x : x \in S <=> /\ x \in WithSuffix(".target") /\ Value(x) # 0
                             /\ Value(SubSeq(x, 1, Len(x) - 6) \o "input") = 0
      BY <3>1, Zenon
    <3>3. \A x : x \in WithSuffix(".target") <=> x \in DOMAIN next /\ EndsWith(x, ".target")
      BY <2>2, Zenon DEF WithSuffix
    <3>4. \A x : x \in S <=> /\ x \in DOMAIN next /\ EndsWith(x, ".target")
                             /\ next[x].int # 0
                             /\ next[SubSeq(x, 1, Len(x) - 6) \o "input"].int = 0
      BY <2>2, <3>2, <3>3, Zenon DEF Value
    <3>5. PICK R : R = {p \in Q : Stuck(At(fans, p))}
      OBVIOUS
    <3>6. Cardinality(S) = Cardinality(R)
      <4>1. StuckFans(used, next, fans, S, R)
        BY <2>2, <2>3, <3>4, <3>5, Zenon DEF StuckFans
      <4> QED BY <4>1, StuckCounted
    <3>7. next["fans_stuck"] = Integer(Cardinality(R))
      BY <2>2, <2>11, <3>5, Zenon DEF SummaryIs
    <3> QED BY <2>2, <3>1, <3>6, <3>7 DEF Value, Integer
  <2> QED
    BY <2>2, <2>7, <2>8, <2>9, <2>10, <2>12, <2>13, <2>14, Zenon
    DEF SensorsApart, TempPlaces, FanPlaces
<1> QED
  BY ToldInit, ToldStep, <1>1, PTL DEF Spec
===============================================================================
