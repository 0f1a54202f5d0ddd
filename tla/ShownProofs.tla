----------------------------- MODULE ShownProofs ------------------------------
(***************************************************************************)
(* Whatever a table of any kind publishes is of one of the alternatives of *)
(* Value (linStat.h 53-56), so whatever a record shows without an alarm is *)
(* what was published.                                                     *)
(***************************************************************************)
EXTENDS TableFoldProofs, FiniteSetTheorems

IsSequence(t) == \E C : t \in Seq(C)

\* What the types of C++ say of a value.
IsValue(v) ==
    \/ v = NoValue
    \/ \E n \in Int : v = Integer(n)
    \/ \E q : v = Float(q)
    \/ \E t : IsSequence(t) /\ v = Text(t)

AllValues(next) == \A n \in DOMAIN next : IsValue(next[n])

\* Strings are sequences of characters; a literal, and what ToString gives,
\* are strings.  The provers know neither.
Words == UnameFields \cup SensorParams \cup SummaryNames
         \cup {"path", "rtc:", ".", " [", "]", "driver", "version", "N/A",
               "name", "input", "target"}
SpelledIn(C) == /\ STRING \cup Words \subseteq Seq(C)
                /\ \A n \in Nat : ToString(n) \in Seq(C)
Spelled == \E C : SpelledIn(C)

\* A string is a text.
LEMMA StringIsValue ==
    ASSUME Spelled, NEW s \in STRING \cup Words
    PROVE  IsValue(Text(s))
  BY DEF Spelled, SpelledIn, IsValue, IsSequence

\* What is put together of values holds nothing else.
LEMMA NamedValues ==
    ASSUME NEW S, \A p \in S : IsValue(p[2])
    PROVE  AllValues(Named(S))
<1> SUFFICES ASSUME NEW n \in DOMAIN Named(S) PROVE IsValue(Named(S)[n])
  BY DEF AllValues
<1>1. n \in {p[1] : p \in S} /\ Named(S)[n] = (CHOOSE p \in S : p[1] = n)[2]
  BY DEF Named
<1>2. PICK q : q = CHOOSE p \in S : p[1] = n
  OBVIOUS
<1>3. q \in S
  BY <1>1, <1>2
<1> QED BY <1>1, <1>2, <1>3

\* One value under a name, or none.
LEMMA OneValue ==
    ASSUME NEW name, NEW v, IsValue(v)
    PROVE  AllValues(One(name, v)) /\ AllValues(Nothing)
<1>1. \A p \in {<<name, v>>} : IsValue(p[2])
  OBVIOUS
<1>2. AllValues(One(name, v))
  BY <1>1, NamedValues DEF One
<1> QED BY <1>2, NothingIsEmpty DEF AllValues

\* Values laid over values.
LEMMA OverValues ==
    ASSUME NEW a, NEW b, AllValues(a), AllValues(b)
    PROVE  AllValues(Over(a, b))
  BY DEF AllValues, Over

\* Line after line of values.
LEMMA OverAllValues ==
    ASSUME NEW n \in Nat, NEW maps, DOMAIN maps = 1 .. n, \A i \in 1 .. n : AllValues(maps[i])
    PROVE  AllValues(OverAll(maps))
<1> SUFFICES ASSUME NEW x \in DOMAIN OverAll(maps) PROVE IsValue(OverAll(maps)[x])
  BY DEF AllValues
<1>1. PICK i \in 1 .. n : x \in DOMAIN maps[i] /\ OverAll(maps)[x] = maps[i][x]
  BY LastIsOver
<1> QED BY <1>1 DEF AllValues

\* No value is two things, and none is nothing.
LEMMA ValueIsOne ==
    ASSUME NEW v, IsValue(v)
    PROVE  /\ v # Absent
           /\ v # NoValue => IsInteger(v) \/ IsFloat(v) \/ IsText(v)
           /\ IsInteger(v) => v # NoValue /\ ~IsFloat(v) /\ ~IsText(v) /\ v.int \in Int /\ v = Integer(v.int)
           /\ IsFloat(v) => v # NoValue /\ ~IsText(v)
           /\ IsText(v) => v # NoValue /\ IsSequence(v.text) /\ v = Text(v.text)
  BY DEF IsValue, Integer, Float, Text, NoValue, Absent, IsInteger, IsFloat, IsText

-----------------------------------------------------------------------------
(* What a record shows of a value                                          *)

\* A text is shown as far as it fits.
LEMMA PrefixShown ==
    ASSUME NEW t, IsSequence(t), NEW size \in Nat \ {0}
    PROVE  ShownText(Prefix(t, size - 1), t, size)
<1>1. PICK C : t \in Seq(C)
  BY DEF IsSequence
<1>2. PICK n, p : n \in Nat /\ n = size - 1 /\ p = Prefix(t, n)
  OBVIOUS
<1>3. /\ p \in Seq(C) /\ Len(p) = IF n <= Len(t) THEN n ELSE Len(t)
      /\ \A i \in 1 .. Len(p) : p[i] = t[i]
  BY <1>1, <1>2, PrefixOf
<1>4. p = SubSeq(t, 1, Len(p))
  <2>1. PICK m \in Nat : m = Len(p) /\ m <= Len(t)
    BY <1>1, <1>2, <1>3
  <2>2. /\ SubSeq(t, 1, m) \in Seq(C) /\ Len(SubSeq(t, 1, m)) = m
        /\ \A i \in 1 .. m : SubSeq(t, 1, m)[i] = t[i]
    BY <1>1, <2>1
  <2>3. PICK s : s = SubSeq(t, 1, m)
    OBVIOUS
  <2>4. s \in Seq(C) /\ Len(s) = Len(p) /\ \A i \in 1 .. Len(s) : s[i] = p[i]
    BY <1>3, <2>1, <2>2, <2>3
  <2> QED BY <1>3, <2>1, <2>3, <2>4, SeqEqual, Zenon
<1>5. p = t \/ Len(p) = size - 1
  <2>1. CASE n <= Len(t)
    BY <1>2, <1>3, <2>1
  <2>2. CASE ~(n <= Len(t))
    <3>1. Len(p) = Len(t) /\ \A i \in 1 .. Len(p) : p[i] = t[i]
      BY <1>3, <2>2
    <3>2. p = t
      BY <1>1, <1>3, <3>1, SeqEqual, Zenon
    <3> QED BY <3>2
  <2> QED BY <2>1, <2>2
<1> QED
  BY <1>2, <1>4, <1>5 DEF ShownText

\* What ShownIsPublished says of one record: that it shows v.
Shows(type, val, v) ==
    /\ v \notin {Absent, NoValue}
    /\ IF IsText(v)
       THEN ShownText(val.text, v.text, IF type = "lsi" THEN LsiSize ELSE ValSize)
       ELSE IF IsFloat(v) \/ type = "int64in" THEN val = v
       ELSE /\ val.int % Word = v.int % Word
            /\ v.int \in 0 .. (Word \div 2) - 1 => val = v

\* A value that fits the type of a record is shown by it.
LEMMA FittingShown ==
    ASSUME NEW type \in Types \ {"time"}, NEW v, IsValue(v), v # NoValue, Fits(type, v)
    PROVE  Shows(type, Shown(type, v), v)
<1>0. Word \in Nat \ {0} /\ ValSize \in Nat \ {0} /\ LsiSize \in Nat \ {0}
  BY RecordAssumption, WidthAssumption
<1>1. v # Absent
  BY ValueIsOne
<1>2. CASE IsText(v)
  <2>1. IsSequence(v.text) /\ ~IsInteger(v) /\ ~IsFloat(v)
    BY <1>2, ValueIsOne
  <2>2. type \in {"stringin", "lsi"}
    BY <2>1 DEF Fits, Types
  <2>3. \A t : Text(t).text = t
    BY DEF Text
  <2>4. CASE type = "stringin"
    <3>1. Shown("stringin", v) = Text(Prefix(v.text, ValSize - 1))
      BY <2>1 DEF Shown
    <3> QED BY <1>0, <1>1, <1>2, <2>1, <2>3, <2>4, <3>1, PrefixShown DEF Shows
  <2>5. CASE type = "lsi"
    <3>1. Shown("lsi", v) = Text(Prefix(v.text, LsiSize - 1))
      BY <2>1 DEF Shown
    <3> QED BY <1>0, <1>1, <1>2, <2>1, <2>3, <2>5, <3>1, PrefixShown DEF Shows
  <2> QED BY <2>2, <2>4, <2>5
<1>3. CASE IsFloat(v)
  <2>1. ~IsInteger(v) /\ ~IsText(v)
    BY <1>3, ValueIsOne
  <2>2. type = "ai"
    BY <2>1 DEF Fits, Types
  <2>3. Shown(type, v) = v
    BY <1>3, <2>2 DEF Shown
  <2> QED BY <1>1, <1>3, <2>1, <2>3 DEF Shows
<1>4. CASE IsInteger(v)
  <2>1. ~IsFloat(v) /\ ~IsText(v) /\ v = Integer(v.int)
    BY <1>4, ValueIsOne
  <2>2. PICK n \in Int : n = v.int /\ v = Integer(n)
    BY <1>4, <2>1, ValueIsOne
  <2>3. type \in {"int64in", "longin", "bi", "ai"}
    BY <2>1 DEF Fits, Types
  <2>4. CASE type = "int64in"
    BY <1>1, <2>1, <2>4 DEF Shows, Shown
  <2>5. CASE type = "bi"
    <3>1. Shown(type, v) = Integer(n % Word)
      <4>1. Shown("bi", v) = Integer(v.int % Word)
        BY <2>1 DEF Shown
      <4> QED BY <2>2, <2>5, <4>1
    <3>2. PICK m, q : m = n % Word /\ q = n \div Word
      OBVIOUS
    <3>3. q \in Int /\ m \in 0 .. Word - 1 /\ n = (Word * q) + m
      BY <1>0, <3>2, Division
    <3>4. m % Word = m
      <4>1. m \in Int /\ m = (Word * 0) + m /\ 0 \in Int
        BY <1>0, <3>3
      <4> QED BY <1>0, <3>3, <4>1, OnlyRemainder
    <3>5. n \in 0 .. (Word \div 2) - 1 => m = n
      <4>1. n \in 0 .. (Word \div 2) - 1 => n \in 0 .. Word - 1
        BY <1>0
      <4>2. n = (Word * 0) + n /\ 0 \in Int
        BY <1>0
      <4> QED BY <1>0, <3>2, <4>1, <4>2, OnlyRemainder
    <3>6. Integer(m).int = m
      BY DEF Integer
    <3> QED BY <1>1, <2>1, <2>2, <2>5, <3>1, <3>2, <3>4, <3>5, <3>6 DEF Shows
  <2>6. CASE type \in {"longin", "ai"}
    <3>1. Shown(type, v) = Integer(Signed(n, Word))
      BY <2>1, <2>2, <2>6 DEF Shown
    <3>2. PICK m : m = Signed(n, Word)
      OBVIOUS
    <3>3. m % Word = n % Word /\ (n \in 0 .. (Word \div 2) - 1 => m = n)
      BY <1>0, <3>2, SignedBits
    <3>4. Integer(m).int = m
      BY DEF Integer
    <3> QED BY <1>1, <2>1, <2>2, <2>6, <3>1, <3>2, <3>3, <3>4 DEF Shows
  <2> QED BY <2>3, <2>4, <2>5, <2>6
<1> QED
  BY <1>2, <1>3, <1>4, ValueIsOne

-----------------------------------------------------------------------------
(* What the host tables publish                                            *)

\* Numbers, quotients and texts are values.
LEMMA Alternatives ==
    /\ \A n \in Int : IsValue(Integer(n))
    /\ \A q : IsValue(Float(q))
    /\ \A t : IsSequence(t) => IsValue(Text(t))
    /\ IsValue(NoValue)
  BY DEF IsValue

\* A pair of lines of netstat, and a file of them.
LEMMA NetstatValues ==
    ASSUME NEW s, NEW now, Readable("netstat", s, now)
    PROVE  AllValues(Netstat(s).next)
<1>1. CASE s = NoFile
  BY <1>1, NothingIsEmpty DEF Netstat, Throws, AllValues
<1>2. CASE s # NoFile
  <2>1. PICK lines \in Seq(Line) : lines = s.lines
    BY <1>2 DEF Readable, Line
  <2>2. PICK ill, some : /\ ill = {i \in DOMAIN lines : ~WellFormatted(lines[i])}
                         /\ some = SubSeq(lines, 1, Min(ill))
    OBVIOUS
  <2>3. ill = {} => Netstat(s).next = ColumnsOver(lines)
    BY <1>2, <2>1, <2>2, Zenon DEF Netstat, Returns, ColumnsOver
  <2>4. ill # {} => Netstat(s).next = ColumnsOver(some)
    BY <1>2, <2>1, <2>2, Zenon DEF Netstat, Throws, ColumnsOver
  <2>5. ill # {} => some \in Seq(Line) /\ \A i \in DOMAIN some : i \in DOMAIN lines /\ some[i] = lines[i]
    <3> SUFFICES ASSUME ill # {} PROVE some \in Seq(Line)
                           /\ \A i \in DOMAIN some : i \in DOMAIN lines /\ some[i] = lines[i]
      OBVIOUS
    <3>1. ill \subseteq Nat /\ ill \subseteq 1 .. Len(lines)
      BY <2>1, <2>2
    <3>2. Min(ill) \in 1 .. Len(lines)
      BY <3>1, LeastOf
    <3>3. PICK m \in 1 .. Len(lines) : m = Min(ill) /\ some = SubSeq(lines, 1, m)
      BY <2>2, <3>2
    <3> QED BY <2>1, <3>3
  <2>6. ASSUME NEW all \in Seq(Line) PROVE AllValues(ColumnsOver(all))
    <3>1. PICK next : next = ColumnsOver(all)
      OBVIOUS
    <3>2. AtPlace(all, next)
      BY <3>1, ColumnsOfLines
    <3>3. ASSUME NEW x \in DOMAIN next PROVE IsValue(next[x])
      <4>1. PICK i \in DOMAIN all : \E j \in DOMAIN all[i].names :
              j \in DOMAIN all[i].vals /\ next[x] = Integer(all[i].vals[j])
        BY <3>2 DEF AtPlace
      <4>2. PICK j \in DOMAIN all[i].vals : next[x] = Integer(all[i].vals[j])
        BY <4>1
      <4>3. all[i] \in Line
        OBVIOUS
      <4>5. all[i].vals \in Seq(Int)
        BY <4>3 DEF Line
      <4>4. all[i].vals[j] \in Int
        BY <4>5
      <4> QED BY <4>2, <4>4, Alternatives
    <3> QED BY <3>1, <3>3 DEF AllValues
  <2> QED BY <2>1, <2>3, <2>4, <2>5, <2>6
<1> QED
  BY <1>1, <1>2

\* Numbered columns.
LEMMA NumberedValues ==
    ASSUME NEW prefix, NEW first \in Nat, NEW tokens \in Seq(Int)
    PROVE  AllValues(Numbered(prefix, first, tokens))
<1>1. PICK h : IntegerColumns(h, prefix, first, tokens, Len(tokens))
  BY NumberedSteps
<1>2. \A x \in DOMAIN Numbered(prefix, first, tokens) :
          \E v \in Int : Numbered(prefix, first, tokens)[x] = Integer(v)
  BY <1>1 DEF IntegerColumns
<1> QED
  BY <1>2, Alternatives DEF AllValues

\* A line of stat.
LEMMA StatValues ==
    ASSUME NEW s, NEW now, Readable("stat", s, now)
    PROVE  AllValues(Stat(s).next)
<1>1. Stat(s).next = IF s = NoFile THEN Nothing ELSE Numbered("cpu:", 2, s.lines)
  BY DEF Stat, Returns
<1>2. s # NoFile => s.lines \in Seq(Int)
  BY DEF Readable
<1>3. AllValues(Nothing)
  BY NothingIsEmpty DEF AllValues
<1> QED
  BY <1>1, <1>2, <1>3, NumberedValues

\* The lines of memInfo.
LEMMA MemInfoValues ==
    ASSUME NEW s, NEW now, Readable("memInfo", s, now)
    PROVE  AllValues(MemInfo(s).next)
<1>1. s = NoFile => MemInfo(s).next = Nothing
  BY Zenon DEF MemInfo, Returns
<1>2. AllValues(Nothing)
  BY NothingIsEmpty DEF AllValues
<1>3. CASE s # NoFile
  <2>1. PICK lines \in Seq(STRING \X Int) : lines = s.lines
    BY <1>3 DEF Readable
  <2>2. PICK large, some : /\ large = {i \in DOMAIN lines : lines[i][2] > LongMax}
                           /\ some = IF large = {} THEN lines
                                     ELSE SubSeq(lines, 1, Min(large) - 1)
    OBVIOUS
  <2>3. MemInfo(s).next = OverLines(MemLine, some)
    BY <1>3, <2>1, <2>2, Zenon DEF MemInfo, Returns, Throws
  <2>4. some \in Seq(STRING \X Int)
    <3>1. CASE large = {}
      BY <2>1, <2>2, <3>1
    <3>2. CASE large # {}
      <4>1. large \subseteq Nat /\ large \subseteq 1 .. Len(lines)
        BY <2>1, <2>2
      <4>2. Min(large) \in 1 .. Len(lines)
        BY <3>2, <4>1, LeastOf
      <4>3. PICK m : m = Min(large) - 1 /\ some = SubSeq(lines, 1, m)
        BY <2>2, <3>2
      <4> QED BY <2>1, <4>2, <4>3
    <3> QED BY <3>1, <3>2
  <2>5. PICK n, maps : /\ n = Len(some) /\ maps = [i \in DOMAIN some |-> MemLine(some[i])]
                       /\ MemInfo(s).next = OverAll(maps)
    BY <2>3 DEF OverLines
  <2>6. ASSUME NEW i \in 1 .. n PROVE AllValues(maps[i])
    <3>0. i \in DOMAIN some /\ some[i] \in STRING \X Int
      BY <2>4, <2>5
    <3>1. PICK l \in STRING \X Int : l = some[i] /\ maps[i] = MemLine(l)
      BY <2>5, <3>0
    <3>2. l[2] \in Int
      OBVIOUS
    <3>3. AllValues(One(l[1], Integer(l[2])))
      BY <3>2, Alternatives, OneValue
    <3> QED BY <1>2, <3>1, <3>3 DEF MemLine
  <2>7. n \in Nat /\ DOMAIN maps = 1 .. n
    BY <2>4, <2>5
  <2> QED BY <2>5, <2>6, <2>7, OverAllValues
<1> QED
  BY <1>1, <1>2, <1>3

\* The number of uptime.
LEMMA UptimeValues ==
    ASSUME NEW s
    PROVE  AllValues(Uptime(s).next)
<1>1. PICK q : q = <<s.lines[1], 1>>
  OBVIOUS
<1>2. Uptime(s).next \in {Nothing, One("uptime", Float(q))}
  BY <1>1, Zenon DEF Uptime, Returns
<1>3. AllValues(One("uptime", Float(q))) /\ AllValues(Nothing)
  BY Alternatives, OneValue
<1> QED
  BY <1>2, <1>3

\* What uname() tells, and the processors.
LEMMA HostValues ==
    ASSUME Spelled, NEW s, NEW now, Readable("host", s, now)
    PROVE  AllValues(Host(s).next)
<1>1. PICK fields : fields = [f \in UnameFields |-> Text(f)]
  OBVIOUS
<1>2. Host(s).next = Over(One("ncpu", Integer(s.ncpu)), IF s.uname THEN fields ELSE Nothing)
  BY <1>1, Zenon DEF Host, Returns
<1>3. AllValues(One("ncpu", Integer(s.ncpu))) /\ AllValues(Nothing)
  BY Alternatives, OneValue DEF Readable
<1>4. AllValues(fields)
  <2>1. ASSUME NEW f \in UnameFields PROVE IsValue(Text(f))
    <3>1. f \in STRING \cup Words
      BY DEF Words
    <3> QED BY <3>1, StringIsValue
  <2> QED BY <1>1, <2>1 DEF AllValues
<1> QED
  BY <1>2, <1>3, <1>4, OverValues

\* A file system.
LEMMA StatVFSValues ==
    ASSUME Spelled, NEW s, NEW now, Readable("statvfs", s, now)
    PROVE  AllValues(StatVFS("path", s).next)
<1>1. PICK path, size, avail, files, favail :
        /\ path = Text("path") /\ size = Integer(ToMB(s.frsize * s.blocks))
        /\ avail = Integer(ToMB(s.bsize * s.bavail))
        /\ files = Integer(s.files) /\ favail = Integer(s.favail)
  OBVIOUS
<1>2. IsValue(path) /\ IsValue(size) /\ IsValue(avail) /\ IsValue(files) /\ IsValue(favail)
  <2>1. /\ s.frsize \in Nat /\ s.blocks \in Nat /\ s.bsize \in Nat /\ s.bavail \in Nat
        /\ s.files \in Nat /\ s.favail \in Nat
    BY DEF Readable
  <2>2. PICK a \in Nat, b \in Nat : a = s.frsize * s.blocks /\ b = s.bsize * s.bavail
    BY <2>1
  <2>3. ToMB(a) \in Int /\ ToMB(b) \in Int
    BY Rounding
  <2>4. "path" \in STRING \cup Words
    BY DEF Words
  <2> QED BY <1>1, <2>1, <2>2, <2>3, <2>4, StringIsValue, Alternatives
<1>3. PICK S : /\ StatVFS("path", s).next = Named(S)
               /\ S = {<<"path", path>>} \cup
                      (IF s.fails THEN {}
                       ELSE {<<"size", size>>, <<"avail", avail>>, <<"isize", files>>,
                             <<"iavail", favail>>})
  BY <1>1, Zenon DEF StatVFS, Returns
<1>4. \A p \in S : IsValue(p[2])
  BY <1>2, <1>3
<1> QED
  BY <1>3, <1>4, NamedValues

\* A clock.
LEMMA RTCValues ==
    ASSUME Spelled, NEW s, NEW now \in Int, Readable("rtc", s, now)
    PROVE  AllValues(RTC(s, now).next)
<1>0. AllValues(Nothing)
  BY NothingIsEmpty DEF AllValues
<1>1. CASE s = NoFile
  BY <1>0, <1>1 DEF RTC, Throws
<1>2. CASE s # NoFile
  <2>1. PICK clock : /\ clock = s.lines /\ clock.error \in Int /\ clock.zone \in Int
                     /\ clock.digits \in Int /\ clock.batt \in DOMAIN Battery
                     /\ clock.keys \in SUBSET STRING
    <3>1. PICK clock : clock = s.lines
      OBVIOUS
    <3>2. /\ clock.error \in Int /\ clock.zone \in Int /\ clock.saving \in Int
          /\ clock.digits = now + clock.error
                            + IF clock.utc THEN 0 ELSE clock.zone + clock.saving
          /\ clock.batt \in DOMAIN Battery /\ clock.keys \in SUBSET STRING
      BY <1>2, <3>1 DEF Readable
    <3>3. clock.digits \in Int
      BY <3>2
    <3> QED BY <3>1, <3>2, <3>3
  <2>2. PICK utc, local : /\ utc = Distance(now, clock.digits)
                          /\ local = Distance(now, clock.digits - clock.zone)
    OBVIOUS
  <2>3. utc \in Int /\ local \in Int
    BY <2>1, <2>2 DEF Distance
  <2>4. PICK ref, delta, battery, keys :
          /\ ref = Integer(IF LocalIsNearer(utc, local) THEN 1 ELSE 0)
          /\ delta = Integer(IF local < utc THEN local ELSE utc)
          /\ battery = Integer(Battery[clock.batt])
          /\ keys = [k \in {"rtc:" \o key : key \in clock.keys} |-> Text(k)]
    OBVIOUS
  <2>5. PICK S : /\ RTC(s, now).next = Over(Named(S), keys)
                 /\ S = {<<"battery", battery>>} \cup
                        IF clock.time /\ clock.date THEN {<<"ref", ref>>, <<"delta", delta>>} ELSE {}
    BY <1>2, <2>1, <2>2, <2>4, Zenon DEF RTC, Returns
  <2>6. IsValue(ref) /\ IsValue(delta) /\ IsValue(battery)
    <3>1. Battery[clock.batt] \in Int
      BY <2>1 DEF Battery
    <3>2. (IF LocalIsNearer(utc, local) THEN 1 ELSE 0) \in Int
      OBVIOUS
    <3>3. (IF local < utc THEN local ELSE utc) \in Int
      BY <2>3
    <3> QED BY <2>4, <3>1, <3>2, <3>3, Alternatives
  <2>7. \A p \in S : IsValue(p[2])
    BY <2>5, <2>6
  <2>8. AllValues(keys)
    <3>1. ASSUME NEW k \in DOMAIN keys PROVE IsValue(keys[k])
      <4>1. PICK key \in STRING : k = "rtc:" \o key /\ keys[k] = Text(k)
        BY <2>1, <2>4
      <4>2. PICK C : STRING \cup Words \subseteq Seq(C)
        BY DEF Spelled, SpelledIn
      <4>3. PICK a : a = "rtc:" /\ a \in Words
        BY DEF Words
      <4>4. a \o key \in Seq(C)
        BY <4>2, <4>3
      <4> QED BY <4>1, <4>3, <4>4, Alternatives DEF IsSequence
    <3> QED BY <3>1 DEF AllValues
  <2> QED BY <2>5, <2>7, <2>8, NamedValues, OverValues
<1> QED
  BY <1>1, <1>2

-----------------------------------------------------------------------------
(* What a link message and the process tables publish                      *)

OneAttribute == [type : STRING, size : Nat, value : Int]

\* A link message.
LEMMA NewLinkValues ==
    ASSUME Spelled, NEW s, NEW now, Readable("ifstat", s, now)
    PROVE  AllValues(NewLink("name", s).next)
<1>1. PICK list \in Seq(OneAttribute) : list = s.attributes
  BY DEF Readable, OneAttribute
<1>2. PICK name, flags : name = Text("name") /\ flags = Integer(s.flags)
  OBVIOUS
<1>3. PICK n, maps, S :
        /\ n = Len(list) /\ maps = [i \in DOMAIN list |-> Attribute(list[i])]
        /\ S = {<<"name", name>>, <<"if_flags", flags>>}
        /\ NewLink("name", s).next = Over(OverAll(maps), Named(S))
  BY <1>1, <1>2 DEF NewLink, Returns, OverLines
<1>4. n \in Nat /\ DOMAIN maps = 1 .. n
  BY <1>1, <1>3
<1>5. ASSUME NEW i \in 1 .. n PROVE AllValues(maps[i])
  <2>1. i \in DOMAIN list /\ list[i] \in OneAttribute
    BY <1>1, <1>3
  <2>2. PICK a \in OneAttribute : maps[i] = Attribute(a)
    BY <1>3, <2>1
  <2>3. a.value \in Int
    BY DEF OneAttribute
  <2>4. PICK v : v = Integer(a.value) /\ IsValue(v)
    BY <2>3, Alternatives
  <2>5. maps[i] = Nothing \/ maps[i] = [x \in Attributes[a.type] |-> v]
    BY <2>2, <2>4 DEF Attribute
  <2> QED BY <2>4, <2>5, NothingIsEmpty DEF AllValues
<1>6. AllValues(OverAll(maps))
  BY <1>4, <1>5, OverAllValues
<1>7. IsValue(name) /\ IsValue(flags)
  <2>1. "name" \in STRING \cup Words
    BY DEF Words
  <2> QED BY <1>2, <2>1, StringIsValue, Alternatives DEF Readable
<1>8. \A p \in S : IsValue(p[2])
  BY <1>3, <1>7
<1> QED
  BY <1>3, <1>6, <1>8, NamedValues, OverValues

\* The limits of the process and its paths.
LEMMA PidValues ==
    ASSUME NEW s, NEW now, Readable("pid", s, now)
    PROVE  AllValues(Pid(100, s).next)
<1>0. AllValues(Nothing)
  BY NothingIsEmpty DEF AllValues
<1>1. AllValues(One("ticks_per_sec", Integer(100)))
  BY Alternatives, OneValue
<1>2. \A path \in {s.exe, s.cwd} : path # NoFile => path.lines \in Seq(Nat)
  BY DEF Readable
<1>3. s.exe # NoFile => AllValues(One("exe", Text(s.exe.lines)))
  BY <1>2, Alternatives, OneValue DEF IsSequence
<1>4. s.cwd # NoFile => AllValues(Directory(s.cwd.lines))
  <2> SUFFICES ASSUME s.cwd # NoFile PROVE AllValues(Directory(s.cwd.lines))
    OBVIOUS
  <2>1. PICK cwd \in Seq(Nat) : cwd = s.cwd.lines
    BY <1>2
  <2>2. PICK all, first, rest : /\ all = Text(cwd) /\ first = Text(Prefix(cwd, StrMax))
                                /\ rest = Text(Rest(cwd))
    OBVIOUS
  <2>3. IsSequence(cwd) /\ IsSequence(Prefix(cwd, StrMax)) /\ IsSequence(Rest(cwd))
    BY ProcessAssumption, PrefixOf, RestOf DEF IsSequence
  <2>4. IsValue(all) /\ IsValue(first) /\ IsValue(rest)
    BY <2>2, <2>3, Alternatives
  <2>5. PICK S : /\ S = {<<"cwd", all>>, <<"cwd1", first>>, <<"cwd2", rest>>}
                 /\ Directory(cwd) = Named(S)
    BY <2>2 DEF Directory
  <2>6. \A p \in S : IsValue(p[2])
    BY <2>4, <2>5
  <2> QED BY <2>1, <2>5, <2>6, NamedValues
<1>5. AllValues(Limits(s.limits))
  <2>1. PICK limits : limits = s.limits /\ \A r \in DOMAIN limits : limits[r] \in Int \X Int
    BY DEF Readable
  <2>2. PICK S : /\ S = {<<r, Integer(Signed(limits[r][1], DWord))>> : r \in DOMAIN limits} \cup
                        {<<r \o ":MAX", Integer(Signed(limits[r][2], DWord))>> : r \in DOMAIN limits}
                 /\ Limits(limits) = Named(S)
    BY DEF Limits
  <2>3. ASSUME NEW p \in S PROVE IsValue(p[2])
    <3>1. PICK r \in DOMAIN limits : \E k \in 1 .. 2 : p[2] = Integer(Signed(limits[r][k], DWord))
      BY <2>2
    <3>2. PICK k \in 1 .. 2 : p[2] = Integer(Signed(limits[r][k], DWord))
      BY <3>1
    <3>3. limits[r][k] \in Int
      <4>1. limits[r] \in Int \X Int /\ k \in {1, 2}
        BY <2>1
      <4> QED BY <4>1
    <3>4. Signed(limits[r][k], DWord) \in Int
      BY <3>3, SignedBits, WidthAssumption
    <3> QED BY <3>2, <3>4, Alternatives
  <2> QED BY <2>1, <2>2, <2>3, NamedValues
<1>6. PICK exe, cwd, limits :
        /\ exe = (IF s.exe = NoFile THEN Nothing ELSE One("exe", Text(s.exe.lines)))
        /\ cwd = (IF s.cwd = NoFile THEN Nothing ELSE Directory(s.cwd.lines))
        /\ limits = Limits(s.limits)
  OBVIOUS
<1>7. Pid(100, s).next = Over(One("ticks_per_sec", Integer(100)), Over(exe, Over(cwd, limits)))
  BY <1>6, Zenon DEF Pid, Returns
<1>8. AllValues(exe) /\ AllValues(cwd) /\ AllValues(limits)
  BY <1>0, <1>3, <1>4, <1>5, <1>6
<1> QED
  BY <1>1, <1>7, <1>8, OverValues

\* The columns of procStat.
LEMMA ProcStatValues ==
    ASSUME Spelled, NEW s, NEW now, Readable("procStat", s, now)
    PROVE  AllValues(ProcStat(s).next)
<1>0. AllValues(Nothing)
  BY NothingIsEmpty DEF AllValues
<1>1. CASE s = NoFile \/ ~s.lines.match
  BY <1>0, <1>1 DEF ProcStat, Returns
<1>2. CASE ~(s = NoFile \/ ~s.lines.match)
  <2>1. /\ s.lines.pid \in Int /\ s.lines.name \in STRING /\ s.lines.state \in STRING
        /\ s.lines.columns \in Seq(Int)
    BY <1>2 DEF Readable
  <2>2. PICK pid, name, state, a, b, c :
          /\ pid = Integer(s.lines.pid) /\ name = Text(s.lines.name) /\ state = Text(s.lines.state)
          /\ a = ColumnName(NoPrefix, 1) /\ b = ColumnName(NoPrefix, 2) /\ c = ColumnName(NoPrefix, 3)
    OBVIOUS
  <2>3. IsValue(pid) /\ IsValue(name) /\ IsValue(state)
    BY <2>1, <2>2, StringIsValue, Alternatives
  <2>4. PICK S, columns :
          /\ S = {<<a, pid>>, <<b, name>>, <<c, state>>}
          /\ columns = Numbered(NoPrefix, 4, s.lines.columns)
          /\ ProcStat(s).next = Over(Named(S), columns)
    BY <1>2, <2>2 DEF ProcStat, Returns
  <2>5. \A p \in S : IsValue(p[2])
    BY <2>3, <2>4
  <2>6. AllValues(columns)
    BY <2>1, <2>4, NumberedValues
  <2> QED BY <2>4, <2>5, <2>6, NamedValues, OverValues
<1> QED
  BY <1>1, <1>2

\* The numbers of procStatus, whatever their base.
LEMMA StatusValues ==
    ASSUME NEW line \in STRING \X Seq(0 .. 15)
    PROVE  AllValues(StatusLine(line))
<1>0. AllValues(Nothing)
  BY NothingIsEmpty DEF AllValues
<1>1. PICK key, all : key = line[1] /\ all = line[2] /\ all \in Seq(0 .. 15)
  OBVIOUS
<1>2. PICK base, digits, n : /\ base = Base(key, all) /\ digits = Accepted(base, all)
                             /\ n = Evaluated(base, digits)
  OBVIOUS
<1>3. StatusLine(line) \in {Nothing, One(key, Integer(n))}
  BY <1>1, <1>2, Zenon DEF StatusLine
<1>4. base \in {8, 10, 16}
  BY <1>2 DEF Base
<1>5. digits \in Seq(0 .. 15)
  <2>1. PICK wrong : wrong = {i \in DOMAIN all : all[i] >= base}
    OBVIOUS
  <2>2. digits = IF wrong = {} THEN all ELSE SubSeq(all, 1, Min(wrong) - 1)
    BY <1>2, <2>1 DEF Accepted
  <2>3. CASE wrong # {}
    <3>1. wrong \subseteq Nat /\ wrong \subseteq 1 .. Len(all)
      BY <1>1, <2>1
    <3>2. Min(wrong) \in 1 .. Len(all)
      BY <2>3, <3>1, LeastOf
    <3>3. PICK m \in 0 .. Len(all) : digits = SubSeq(all, 1, m)
      BY <2>2, <2>3, <3>2
    <3> QED BY <1>1, <3>3
  <2> QED BY <1>1, <2>2, <2>3
<1>6. n \in Nat
  <2>1. PICK m \in Nat : m = Len(digits)
    BY <1>5
  <2>2. PICK h \in [0 .. m -> Nat] : Evaluated(base, digits) = h[m]
    BY <1>4, <1>5, <2>1, EvaluatedByDigit
  <2> QED BY <1>2, <2>2
<1>7. AllValues(One(key, Integer(n)))
  BY <1>6, Alternatives, OneValue
<1> QED
  BY <1>0, <1>3, <1>7

\* The lines of procStatus.
LEMMA ProcStatusValues ==
    ASSUME NEW s, NEW now, Readable("procStatus", s, now)
    PROVE  AllValues(ProcStatus(s).next)
<1>1. ProcStatus(s).next = IF s = NoFile THEN Nothing ELSE OverLines(StatusLine, s.lines)
  BY Zenon DEF ProcStatus, Returns
<1>2. AllValues(Nothing)
  BY NothingIsEmpty DEF AllValues
<1>3. CASE s # NoFile
  <2>1. PICK lines \in Seq(STRING \X Seq(0 .. 15)) : lines = s.lines
    BY <1>3 DEF Readable
  <2>2. PICK n, maps : /\ n = Len(lines) /\ maps = [i \in DOMAIN lines |-> StatusLine(lines[i])]
                       /\ ProcStatus(s).next = OverAll(maps)
    BY <1>1, <1>3, <2>1 DEF OverLines
  <2>3. n \in Nat /\ DOMAIN maps = 1 .. n
    BY <2>1, <2>2
  <2>4. ASSUME NEW i \in 1 .. n PROVE AllValues(maps[i])
    <3>1. i \in DOMAIN lines /\ lines[i] \in STRING \X Seq(0 .. 15)
      BY <2>1, <2>2
    <3> QED BY <2>2, <3>1, StatusValues
  <2> QED BY <2>2, <2>3, <2>4, OverAllValues
<1> QED
  BY <1>1, <1>2, <1>3

\* The open files.
LEMMA FDValues ==
    ASSUME NEW s, NEW now, Readable("fd", s, now)
    PROVE  AllValues(FD(s).next)
<1>1. AllValues(Nothing)
  BY NothingIsEmpty DEF AllValues
<1>2. CASE s = NoFile
  BY <1>1, <1>2 DEF FD, Throws
<1>3. CASE s # NoFile
  <2>1. PICK open : open = s.lines \ {".", ".."}
    OBVIOUS
  <2>2. IsFiniteSet(open)
    BY <1>3, <2>1, FS_Subset DEF Readable
  <2>3. FD(s).next = One("FD_CNT", Integer(Cardinality(open)))
    BY <1>3, <2>1 DEF FD, Returns
  <2>4. Cardinality(open) \in Int
    BY <2>2, FS_CardinalityType
  <2> QED BY <2>3, <2>4, Alternatives, OneValue
<1> QED
  BY <1>2, <1>3

\* What the allocator tells.
LEMMA MallinfoValues ==
    ASSUME NEW n \in Int
    PROVE  AllValues(Mallinfo(n).next)
<1>1. Mallinfo(n).next = [f \in MallFields |-> Integer(n)]
  BY DEF Mallinfo, Returns
<1> QED
  BY <1>1, Alternatives DEF AllValues

\* What the servers and the database tell.
LEMMA PDBValues ==
    ASSUME NEW nrec \in Nat, NEW nsus \in Nat, NEW asked, NEW n \in Int
    PROVE  AllValues(PDB(nrec, nsus, asked, n).next)
<1>1. PICK a, b, c : a = Integer(nrec) /\ b = Integer(nsus) /\ c = Integer(n)
  OBVIOUS
<1>2. IsValue(a) /\ IsValue(b) /\ IsValue(c)
  BY <1>1, Alternatives
<1>3. PICK S, queues :
        /\ S = {<<"nrec", a>>, <<"nsuspend", b>>}
        /\ queues = (IF MayAsk(asked) THEN [x \in QueueNames |-> c] ELSE Nothing)
        /\ PDB(nrec, nsus, asked, n).next = Over(Named(S), queues)
  BY <1>1 DEF PDB, Returns
<1>4. \A p \in S : IsValue(p[2])
  BY <1>2, <1>3
<1>5. AllValues(queues)
  BY <1>2, <1>3, NothingIsEmpty DEF AllValues
<1> QED
  BY <1>3, <1>4, <1>5, NamedValues, OverValues

-----------------------------------------------------------------------------
(* What the table of interrupts publishes                                  *)

First(t) == CHOOSE x \in t : TRUE
Without(t) == t \ {First(t)}

\* How a sum over a set is told from those over smaller sets.
Adds(counts, g, t) == g[t] = IF t = {} THEN 0 ELSE counts[First(t)] + g[Without(t)]

\* A set without one of its members is smaller.
LEMMA SmallerSet ==
    ASSUME NEW L, IsFiniteSet(L), NEW t \in SUBSET L
    PROVE  /\ Cardinality(t) \in Nat
           /\ Cardinality(t) = 0 <=> t = {}
           /\ t # {} => /\ First(t) \in t /\ Without(t) \in SUBSET L
                        /\ Cardinality(Without(t)) = Cardinality(t) - 1
<1>1. IsFiniteSet(t)
  BY FS_Subset
<1>2. t # {} => First(t) \in t /\ Without(t) \in SUBSET L
  BY DEF First, Without
<1>3. t # {} => Cardinality(Without(t)) = Cardinality(t) - 1
  BY <1>1, <1>2, FS_RemoveElement DEF Without
<1> QED
  BY <1>1, <1>2, <1>3, FS_CardinalityType, FS_EmptySet

\* There is a function that tells the sums.
LEMMA SumsExist ==
    ASSUME NEW L, IsFiniteSet(L), NEW counts \in [L -> Int]
    PROVE  \E g \in [SUBSET L -> Int] : \A t \in SUBSET L : Adds(counts, g, t)
<1> DEFINE Small(m) == {t \in SUBSET L : Cardinality(t) <= m}
           Telling(m, g) == g \in [Small(m) -> Int] /\ \A t \in Small(m) : Adds(counts, g, t)
           S == {m \in Nat : \E g : Telling(m, g)}
<1>0. \A m : m \in S <=> m \in Nat /\ \E g : Telling(m, g)
  <2> HIDE DEF Telling
  <2> QED OBVIOUS
<1> HIDE DEF S
<1>1. 0 \in S
  <2> DEFINE g == [t \in Small(0) |-> 0]
  <2>1. \A t \in Small(0) : t = {}
    BY SmallerSet
  <2>2. \A t \in Small(0) : Adds(counts, g, t)
    BY <2>1 DEF Adds
  <2>3. Telling(0, g)
    BY <2>2
  <2> HIDE DEF Telling, g
  <2> QED BY <1>0, <2>3
<1>2. ASSUME NEW m \in Nat, m \in S PROVE m + 1 \in S
  <2>1. PICK f : Telling(m, f)
    <3> HIDE DEF Telling
    <3> QED BY <1>0, <1>2
  <2>2. f \in [Small(m) -> Int] /\ \A t \in Small(m) : Adds(counts, f, t)
    BY <2>1
  <2> DEFINE g == [t \in Small(m + 1) |->
                       IF t \in Small(m) THEN f[t] ELSE counts[First(t)] + f[Without(t)]]
  <2>3. ASSUME NEW t \in Small(m + 1), t # {}
        PROVE  /\ First(t) \in L /\ Without(t) \in Small(m) /\ Without(t) \in Small(m + 1)
    <3>1. /\ t \in SUBSET L /\ Cardinality(t) \in Nat /\ Cardinality(t) <= m + 1
          /\ First(t) \in t /\ Without(t) \in SUBSET L
          /\ Cardinality(Without(t)) = Cardinality(t) - 1
      BY <2>3, SmallerSet
    <3> QED BY <3>1
  <2>4. ASSUME NEW t \in Small(m + 1), t \notin Small(m) PROVE t # {}
    <3>1. Cardinality({}) = 0
      BY FS_EmptySet
    <3> QED BY <2>4, <3>1
  <2>5. g \in [Small(m + 1) -> Int]
    <3>1. ASSUME NEW t \in Small(m + 1)
          PROVE (IF t \in Small(m) THEN f[t] ELSE counts[First(t)] + f[Without(t)]) \in Int
      <4>1. CASE t \in Small(m)
        BY <2>2, <4>1
      <4>2. CASE t \notin Small(m)
        <5>1. First(t) \in L /\ Without(t) \in Small(m)
          BY <2>3, <2>4, <4>2
        <5>2. counts[First(t)] \in Int /\ f[Without(t)] \in Int
          BY <2>2, <5>1
        <5> QED BY <4>2, <5>2
      <4> QED BY <4>1, <4>2
    <3> QED BY <3>1
  <2>6. ASSUME NEW t \in Small(m + 1) PROVE Adds(counts, g, t)
    <3>1. t # {} => g[Without(t)] = f[Without(t)]
      BY <2>3
    <3>2. g[t] = IF t \in Small(m) THEN f[t] ELSE counts[First(t)] + f[Without(t)]
      OBVIOUS
    <3> HIDE DEF g
    <3>3. CASE t \in Small(m)
      BY <2>2, <3>1, <3>2, <3>3 DEF Adds
    <3>4. CASE t \notin Small(m)
      BY <2>4, <3>1, <3>2, <3>4 DEF Adds
    <3> QED BY <3>3, <3>4
  <2>7. Telling(m + 1, g)
    <3> HIDE DEF g
    <3> QED BY <2>5, <2>6
  <2> HIDE DEF Telling, g
  <2> QED BY <1>0, <2>7
<1>3. PICK n \in Nat : n = Cardinality(L) /\ n \in S
  <2>1. \A m \in Nat : m \in S
    BY <1>1, <1>2, SetInduction
  <2> QED BY <2>1, FS_CardinalityType
<1>4. Small(n) = SUBSET L
  <2>1. ASSUME NEW t \in SUBSET L PROVE Cardinality(t) <= n
    BY <1>3, FS_Subset
  <2> QED BY <2>1
<1>5. PICK g : Telling(n, g)
  <2> HIDE DEF Telling
  <2> QED BY <1>0, <1>3
<1> QED
  BY <1>4, <1>5

\* Such a function gives integers.
LEMMA SumsAreIntegers ==
    ASSUME NEW L, IsFiniteSet(L), NEW counts \in [L -> Int], NEW g,
           \A t \in SUBSET L : Adds(counts, g, t)
    PROVE  g[L] \in Int
<1> DEFINE S == {m \in Nat : \A t \in SUBSET L : Cardinality(t) = m => g[t] \in Int}
<1>1. 0 \in S
  <2>1. ASSUME NEW t \in SUBSET L, Cardinality(t) = 0 PROVE g[t] \in Int
    <3>1. t = {}
      BY <2>1, SmallerSet
    <3>2. Adds(counts, g, t)
      OBVIOUS
    <3> QED BY <3>1, <3>2 DEF Adds
  <2> QED BY <2>1
<1>2. ASSUME NEW m \in Nat, m \in S PROVE m + 1 \in S
  <2>1. ASSUME NEW t \in SUBSET L, Cardinality(t) = m + 1 PROVE g[t] \in Int
    <3>1. t # {} /\ First(t) \in t /\ Without(t) \in SUBSET L
          /\ Cardinality(Without(t)) = m
      BY <2>1, SmallerSet
    <3>2. g[Without(t)] \in Int /\ counts[First(t)] \in Int
      BY <1>2, <3>1
    <3>3. g[t] = counts[First(t)] + g[Without(t)]
      BY <3>1 DEF Adds
    <3> QED BY <3>2, <3>3
  <2> QED BY <2>1
<1>3. Cardinality(L) \in Nat
  BY FS_CardinalityType
<1>4. Cardinality(L) \in S
  <2> HIDE DEF S
  <2>1. \A m \in Nat : m \in S
    BY <1>1, <1>2, SetInduction
  <2> QED BY <1>3, <2>1
<1> QED
  BY <1>4

\* The total of all labels.
LEMMA TotalIsInteger ==
    ASSUME NEW L, IsFiniteSet(L), NEW counts \in [L -> Int]
    PROVE  TotalCount(counts) \in Int
<1> DEFINE Def(g) == [t \in SUBSET DOMAIN counts |->
                          IF t = {} THEN 0
                          ELSE counts[CHOOSE x \in t : TRUE] + g[t \ {CHOOSE x \in t : TRUE}]]
<1>1. TotalCount(counts) = (CHOOSE f : f = Def(f))[DOMAIN counts] % DWord
  BY Zenon DEF TotalCount, MapThenSumSet, MapThenFoldSet
<1>2. DOMAIN counts = L
  OBVIOUS
<1>3. PICK g \in [SUBSET L -> Int] : \A t \in SUBSET L : Adds(counts, g, t)
  BY SumsExist
<1>4. g = Def(g)
  BY <1>2, <1>3 DEF Adds, First, Without
<1>5. PICK f : f = Def(f) /\ TotalCount(counts) = f[L] % DWord
  <2> HIDE DEF Def
  <2> QED BY <1>1, <1>2, <1>4, Zenon
<1>6. ASSUME NEW t \in SUBSET L PROVE Adds(counts, f, t)
  BY <1>2, <1>5 DEF Adds, First, Without
<1>7. PICK n \in Int : n = f[L]
  BY <1>6, SumsAreIntegers
<1> QED
  BY <1>5, <1>7, WidthAssumption

\* The total, the highest rate and its label.
LEMMA IrqValues ==
    ASSUME NEW s, NEW now, Readable("irq", s, now), NEW before, NEW since
    PROVE  AllValues(Irq(s, before, since, now).next)
<1>0. AllValues(Nothing)
  BY NothingIsEmpty DEF AllValues
<1>1. CASE s = NoFile
  BY <1>0, <1>1 DEF Irq, Throws
<1>2. CASE s # NoFile
  <2>1. PICK L : L = DOMAIN s.lines /\ IsFiniteSet(L) /\ \A l \in L : s.lines[l] \in Seq(Int)
    BY <1>2 DEF Readable
  <2>2. PICK counts : counts = Counts(s)
    OBVIOUS
  <2>3. counts \in [L -> Int]
    <3>1. ASSUME NEW l \in L PROVE counts[l] \in Int
      BY <2>1, <2>2, CountsBounded, WidthAssumption
    <3>2. counts = [l \in L |-> counts[l]]
      BY <2>1, <2>2 DEF Counts
    <3> QED BY <3>1, <3>2
  <2>4. PICK total : total = Integer(Signed(TotalCount(counts), DWord)) /\ IsValue(total)
    <3>1. PICK n \in Int : n = TotalCount(counts)
      BY <2>1, <2>3, TotalIsInteger
    <3>2. Signed(n, DWord) \in Int
      BY SignedBits, WidthAssumption
    <3> QED BY <3>1, <3>2, Alternatives
  <2> DEFINE delta == [l \in DOMAIN counts |-> Delta(counts, before, l)]
             max == Max({0} \cup Range(delta))
             most == {l \in DOMAIN delta : max > 0 /\ delta[l] = max}
             label == IF most = {} THEN <<>> ELSE <<Min(most)>>
             S == {<<"total_irq", total>>, <<"max_irq", Float(<<max, now - since>>)>>,
                   <<"max_irq_name", Text(label)>>}
  <2>5. Irq(s, before, since, now).next = Named(S)
    BY <1>2, <2>2, <2>4 DEF Irq, Returns
  <2>6. IsSequence(label)
    <3>1. PICK x : x = Min(most)
      OBVIOUS
    <3>2. <<>> \in Seq({x}) /\ <<x>> \in Seq({x})
      OBVIOUS
    <3> HIDE DEF most
    <3> QED BY <3>1, <3>2 DEF IsSequence
  <2> HIDE DEF label, max
  <2>7. \A p \in S : IsValue(p[2])
    <3>1. PICK rate, name : rate = Float(<<max, now - since>>) /\ name = Text(label)
                            /\ IsValue(rate) /\ IsValue(name)
      BY <2>6, Alternatives
    <3>2. \A p \in S : p[2] \in {total, rate, name}
      BY <3>1
    <3> QED BY <2>4, <3>1, <3>2
  <2> HIDE DEF S
  <2> QED BY <2>5, <2>7, NamedValues
<1> QED
  BY <1>1, <1>2

-----------------------------------------------------------------------------
(* What the hardware tables publish                                        *)

\* The statistics of a driver have a value each.
Valued(n, stats, out) == n \in Nat /\ DOMAIN stats = 1 .. n /\ \A i \in 1 .. n : out[i] \in Nat

\* Statistic by statistic, and their sums.
LEMMA StatisticsValues ==
    ASSUME NEW stats, NEW nic,
           nic.stats # NoFile => \E n : Valued(n, stats, nic.stats.lines)
    PROVE  AllValues(Statistics(stats, nic))
<1>0. AllValues(Nothing)
  BY NothingIsEmpty DEF AllValues
<1>1. CASE stats = <<>>
  <2>1. PICK zero : zero = Integer(0) /\ IsValue(zero)
    BY Alternatives
  <2>2. Statistics(stats, nic) = [x \in {"found_stat", "rx_dropped", "tx_dropped"} |-> zero]
    BY <1>1, <2>1, Zenon DEF Statistics
  <2> QED BY <2>1, <2>2 DEF AllValues
<1>2. CASE stats # <<>> /\ nic.stats = NoFile
  <2>1. Statistics(stats, nic) = Nothing
    BY <1>2, Zenon DEF Statistics
  <2> QED BY <1>0, <2>1
<1>3. CASE stats # <<>> /\ nic.stats # NoFile
  <2>1. PICK out, n : out = nic.stats.lines /\ Valued(n, stats, out)
    BY <1>3
  <2>2. PICK rx, tx : rx = Part(stats, out, DropsRX) /\ tx = Part(stats, out, DropsTX)
    OBVIOUS
  <2>3. rx \in [1 .. n -> Int] /\ tx \in [1 .. n -> Int]
    BY <2>1, <2>2 DEF Part, Valued
  <2>4. Sum(rx) \in Int /\ Sum(tx) \in Int
    BY <2>1, <2>3, SumIsInteger DEF Valued
  <2>5. Total(stats, out, DropsRX) = Sum(rx) % DWord /\ Total(stats, out, DropsTX) = Sum(tx) % DWord
    BY <2>2 DEF Total, Part
  <2>6. /\ Signed(Total(stats, out, DropsRX), DWord) \in Int
        /\ Signed(Total(stats, out, DropsTX), DWord) \in Int
    <3>1. PICK x \in Int, y \in Int : x = Sum(rx) /\ y = Sum(tx)
      BY <2>4
    <3>2. x % DWord \in Int /\ y % DWord \in Int
      BY WidthAssumption
    <3>3. Signed(x % DWord, DWord) \in Int /\ Signed(y % DWord, DWord) \in Int
      BY <3>2, SignedBits, WidthAssumption
    <3> QED BY <2>5, <3>1, <3>3
  <2>7. PICK found : found = \E i \in DOMAIN stats : DropsRX(stats[i]) \/ DropsTX(stats[i])
    OBVIOUS
  <2>8. PICK a, b, c : /\ a = Integer(Signed(Total(stats, out, DropsRX), DWord))
                       /\ b = Integer(Signed(Total(stats, out, DropsTX), DWord))
                       /\ c = Integer(IF found THEN 1 ELSE 0)
                       /\ IsValue(a) /\ IsValue(b) /\ IsValue(c)
    <3>1. (IF found THEN 1 ELSE 0) \in Int
      OBVIOUS
    <3> QED BY <2>6, <3>1, Alternatives
  <2>9. PICK S, maps :
          /\ S = {<<"rx_dropped", a>>, <<"tx_dropped", b>>, <<"found_stat", c>>}
          /\ maps = [i \in DOMAIN stats |-> One("stat." \o stats[i].name, Integer(Signed(out[i], DWord)))]
          /\ Statistics(stats, nic) = Over(Named(S), OverAll(maps))
    BY <1>3, <2>1, <2>7, <2>8, Zenon DEF Statistics
  <2>10. \A p \in S : IsValue(p[2])
    BY <2>8, <2>9
  <2>11. ASSUME NEW i \in 1 .. n PROVE AllValues(maps[i])
    <3>1. PICK name, v : name = "stat." \o stats[i].name /\ v = Signed(out[i], DWord)
      OBVIOUS
    <3>2. maps[i] = One(name, Integer(v))
      BY <2>1, <2>9, <3>1 DEF Valued
    <3>3. v \in Int
      <4>1. PICK x \in Int : x = out[i]
        BY <2>1 DEF Valued
      <4> QED BY <3>1, <4>1, SignedBits, WidthAssumption
    <3> QED BY <3>2, <3>3, Alternatives, OneValue
  <2>12. n \in Nat /\ DOMAIN maps = 1 .. n
    BY <2>1, <2>9 DEF Valued
  <2>13. AllValues(OverAll(maps))
    BY <2>11, <2>12, OverAllValues
  <2> QED BY <2>9, <2>10, <2>13, NamedValues, OverValues
<1> QED
  BY <1>1, <1>2, <1>3

\* What is asked of a driver.
LEMMA EthtoolValues ==
    ASSUME Spelled, NEW constants, NEW s, NEW now, Readable("ethtool", s, now),
           s.stats # NoFile => \E n : Valued(n, constants.stats, s.stats.lines)
    PROVE  AllValues(Ethtool(constants, s).next)
<1>1. PICK statistics, link, driver :
        /\ statistics = Statistics(constants.stats, s)
        /\ link = Link(constants.handshake, s)
        /\ driver = [n \in {"driver", "version"} |-> Text(IF constants.supported THEN n ELSE "N/A")]
        /\ Ethtool(constants, s).next = Over(statistics, Over(link, driver))
  BY DEF Ethtool, Returns
<1>2. AllValues(statistics)
  BY <1>1, StatisticsValues
<1>3. AllValues(link)
  <2>1. CASE constants.handshake /\ s.link # NoFile
    <3>1. PICK speed, duplex : speed = Integer(s.link.lines.speed) /\ duplex = Integer(s.link.lines.duplex)
      OBVIOUS
    <3>2. IsValue(speed) /\ IsValue(duplex)
      BY <2>1, <3>1, Alternatives DEF Readable
    <3>3. PICK S : S = {<<"speed", speed>>, <<"duplex", duplex>>} /\ link = Named(S)
      BY <1>1, <2>1, <3>1 DEF Link
    <3>4. \A p \in S : IsValue(p[2])
      BY <3>2, <3>3
    <3> QED BY <3>3, <3>4, NamedValues
  <2>2. CASE ~(constants.handshake /\ s.link # NoFile)
    <3>1. link = [n \in {"speed", "duplex"} |-> NoValue]
      BY <1>1, <2>2 DEF Link
    <3> QED BY <3>1, Alternatives DEF AllValues
  <2> QED BY <2>1, <2>2
<1>4. AllValues(driver)
  <2>1. IsValue(Text("driver")) /\ IsValue(Text("version")) /\ IsValue(Text("N/A"))
    BY StringIsValue DEF Words
  <2>2. \A n \in DOMAIN driver : driver[n] \in {Text("driver"), Text("version"), Text("N/A")}
    BY <1>1
  <2> QED BY <2>1, <2>2 DEF AllValues
<1> QED
  BY <1>1, <1>2, <1>3, <1>4, OverValues

TempSensor == [id : STRING, label : STRING, input : Int]
FanSensor == [id : STRING, label : STRING, input : Int, target : Int]
HwDevice == [name : STRING, gone : BOOLEAN, temps : Seq(TempSensor), fans : Seq(FanSensor)]

\* Used(), a fold, takes the devices one after the other.
LEMMA UsedByPrefix ==
    ASSUME NEW devices \in Seq(HwDevice)
    PROVE  \E h \in [0 .. Len(devices) -> Seq(HwDevice)] :
               /\ h[0] = <<>> /\ Used(devices) = h[Len(devices)]
               /\ \A k \in 1 .. Len(devices) : h[k] = Use(h[k - 1], devices[k])
<1> DEFINE Def(g) == [t \in SUBSET DOMAIN devices |->
                          IF t = {} THEN <<>> ELSE Use(g[t \ {Max(t)}], devices[Max(t)])]
<1>1. PICK V, base, n : V = Seq(HwDevice) /\ base = <<>> /\ n = Len(devices)
  OBVIOUS
<1>2. n \in Nat /\ DOMAIN devices = 1 .. n /\ \A i \in 1 .. n : devices[i] \in HwDevice
  BY <1>1
<1>3. \A i \in 1 .. n, v \in V : Use(v, devices[i]) \in V
  <2>1. \A v, d : Use(v, d) = v \/ Use(v, d) = Append(v, d)
    BY Zenon DEF Use
  <2>2. \A v \in V, d \in HwDevice : Append(v, d) \in V
    BY <1>1
  <2> QED BY <1>2, <2>1, <2>2
<1>4. PICK step \in [(1 .. n) \X V -> V] : \A i \in 1 .. n, v \in V : step[<<i, v>>] = Use(v, devices[i])
  <2> DEFINE step == [p \in (1 .. n) \X V |-> Use(p[2], devices[p[1]])]
  <2>1. step \in [(1 .. n) \X V -> V] /\ \A i \in 1 .. n, v \in V : step[<<i, v>>] = Use(v, devices[i])
    BY <1>3
  <2> HIDE DEF step
  <2> QED BY <2>1
<1>5. base \in V
  BY <1>1
<1>6. PICK g \in SetFolds(n, V, base, step) : TRUE
  BY <1>2, <1>5, FoldExists
<1>7. g = Def(g)
  <2>1. /\ g \in [SUBSET (1 .. n) -> V]
        /\ \A t \in SUBSET (1 .. n) :
               g[t] = IF t = {} THEN base ELSE step[<<Max(t), g[t \ {Max(t)}]>>]
    BY DEF SetFolds
  <2>2. ASSUME NEW t \in SUBSET (1 .. n)
        PROVE  g[t] = IF t = {} THEN <<>> ELSE Use(g[t \ {Max(t)}], devices[Max(t)])
    <3>1. CASE t = {}
      BY <1>1, <2>1, <3>1
    <3>2. CASE t # {}
      <4>1. Max(t) \in 1 .. n /\ t \ {Max(t)} \in SUBSET (1 .. n)
        BY <1>2, <3>2, GreatestOfPrefix
      <4> QED BY <1>4, <2>1, <3>2, <4>1
    <3> QED BY <3>1, <3>2
  <2> QED BY <1>2, <2>1, <2>2
<1>8. PICK iter : iter = Def(iter) /\ Used(devices) = iter[1 .. n]
  <2>1. Used(devices) = (CHOOSE f : f = Def(f))[1 .. n]
    BY <1>2, Zenon DEF Used, FoldLeft, MapThenFoldSet
  <2> HIDE DEF Def
  <2> QED BY <1>7, <2>1, Zenon
<1>9. Iterates(iter, n, V, base, step)
  <2>1. iter[{}] = base
    BY <1>1, <1>8
  <2>2. ASSUME NEW t \in SUBSET (1 .. n), t # {}, iter[t \ {Max(t)}] \in V
        PROVE  iter[t] = step[<<Max(t), iter[t \ {Max(t)}]>>]
    <3>1. Max(t) \in 1 .. n
      BY <1>2, <2>2, GreatestOfPrefix
    <3>2. iter[t] = Use(iter[t \ {Max(t)}], devices[Max(t)])
      BY <1>2, <1>8, <2>2
    <3> QED BY <1>4, <2>2, <3>1, <3>2
  <2> QED BY <2>1, <2>2 DEF Iterates
<1>10. OfPrefixes(iter, n) \in PrefixFolds(n, V, base, step)
  BY <1>2, <1>5, <1>9, FoldByPrefix
<1>11. PICK h \in [0 .. n -> V] :
         /\ h[0] = base /\ \A k \in 1 .. n : h[k] = step[<<k, h[k - 1]>>]
         /\ h[n] = iter[1 .. n]
  <2>1. PICK h : h = OfPrefixes(iter, n)
    OBVIOUS
  <2>2. h[n] = iter[1 .. n]
    BY <1>2, <2>1 DEF OfPrefixes
  <2>3. h \in [0 .. n -> V] /\ h[0] = base /\ \A k \in 1 .. n : h[k] = step[<<k, h[k - 1]>>]
    BY <1>10, <2>1 DEF PrefixFolds
  <2> QED BY <2>2, <2>3
<1>12. \A k \in 1 .. n : h[k] = Use(h[k - 1], devices[k])
  <2>1. \A k \in 1 .. n : k - 1 \in 0 .. n
    BY <1>2
  <2> QED BY <1>4, <1>11, <2>1
<1> QED
  BY <1>1, <1>8, <1>11, <1>12

\* What it keeps is some of the devices.
LEMMA UsedDevices ==
    ASSUME NEW devices \in Seq(HwDevice)
    PROVE  Used(devices) \in Seq(HwDevice)
<1>1. PICK n : n = Len(devices) /\ n \in Nat
  <2>1. Len(devices) \in Nat
    OBVIOUS
  <2> QED BY <2>1, Zenon
<1>2. PICK h \in [0 .. n -> Seq(HwDevice)] : Used(devices) = h[n]
  BY <1>1, UsedByPrefix
<1> QED
  BY <1>1, <1>2

\* The devices up to one that is gone.
LEMMA OpenedDevices ==
    ASSUME NEW used \in Seq(HwDevice)
    PROVE  Opened(used) \in Seq(HwDevice)
<1>1. PICK gone : gone = {i \in DOMAIN used : used[i].gone}
  OBVIOUS
<1>2. Opened(used) = IF gone = {} THEN used ELSE SubSeq(used, 1, Min(gone) - 1)
  BY <1>1 DEF Opened
<1>3. CASE gone # {}
  <2>1. gone \subseteq Nat /\ gone \subseteq 1 .. Len(used)
    BY <1>1
  <2>2. Min(gone) \in 1 .. Len(used)
    BY <1>3, <2>1, LeastOf
  <2>3. PICK m : m = Min(gone) - 1 /\ Opened(used) = SubSeq(used, 1, m)
    BY <1>2, <1>3
  <2>4. m \in 0 .. Len(used)
    BY <2>2, <2>3
  <2> QED BY <2>3, <2>4
<1> QED
  BY <1>2, <1>3

\* A number tells sensors of one label apart.
LEMMA CountIsNatural ==
    ASSUME NEW n \in Nat, NEW sensors, DOMAIN sensors \subseteq 1 .. n, NEW i
    PROVE  LabelCount(sensors, i) \in Nat
<1>1. PICK same :
        same = {j \in DOMAIN sensors : j < i /\ Label(sensors[j]) = Label(sensors[i])}
  OBVIOUS
<1>2. IsFiniteSet(1 .. n)
  BY FS_Interval
<1>3. IsFiniteSet(same)
  <2>1. same \in SUBSET (1 .. n)
    BY <1>1
  <2> QED BY <1>2, <2>1, FS_Subset
<1> QED
  BY <1>1, <1>3, FS_CardinalityType DEF LabelCount

\* A sensor's label and its name are texts.
LEMMA NamesSpelled ==
    ASSUME Spelled, NEW dev \in STRING,
           NEW n \in Nat, NEW sensors, DOMAIN sensors \subseteq 1 .. n, NEW i,
           sensors[i].id \in STRING, sensors[i].label \in STRING
    PROVE  /\ IsSequence(SensorName(dev, sensors, i))
           /\ IsSequence(LabelText(sensors, i))
<1>1. PICK C : SpelledIn(C)
  BY DEF Spelled
<1>2. PICK dot, open, close, label, count, number :
        /\ dot = "." /\ open = " [" /\ close = "]"
        /\ label = Label(sensors[i]) /\ count = LabelCount(sensors, i)
        /\ number = ToString(count)
  OBVIOUS
<1>3. dot \in Seq(C) /\ open \in Seq(C) /\ close \in Seq(C)
  BY <1>1, <1>2 DEF SpelledIn, Words
<1>4. label \in Seq(C)
  <2>1. Label(sensors[i]) \in {sensors[i].id, sensors[i].label}
    BY Zenon DEF Label
  <2>2. sensors[i].id \in Seq(C) /\ sensors[i].label \in Seq(C)
    BY <1>1 DEF SpelledIn
  <2> QED BY <1>2, <2>1, <2>2
<1>5. number \in Seq(C)
  BY <1>1, <1>2, CountIsNatural DEF SpelledIn
<1>6. dev \in Seq(C)
  BY <1>1 DEF SpelledIn
<1>7. SensorName(dev, sensors, i) = dev \o dot \o label \o dot \o number
  BY <1>2, Zenon DEF SensorName
<1>8. LabelText(sensors, i) = label \o open \o number \o close
  BY <1>2, Zenon DEF LabelText
<1>9. dev \o dot \o label \o dot \o number \in Seq(C) /\ label \o open \o number \o close \in Seq(C)
  BY <1>3, <1>4, <1>5, <1>6
<1> QED
  BY <1>7, <1>8, <1>9 DEF IsSequence

OfTemp(x) == x.temp \in Int /\ IsSequence(x.name) /\ IsSequence(x.label)
OfFan(x) == x.input \in Int /\ x.target \in Int /\ IsSequence(x.label)
\* At most as many as there are sensors.
ManyOf(xs, n, Test(_)) == DOMAIN xs \subseteq 1 .. n /\ \A i \in DOMAIN xs : Test(xs[i])

\* An entry of a map is the sensor that made it.
LEMMA ListedOnes ==
    ASSUME NEW R, NEW sensors \in Seq(R)
    PROVE  LET temps == Listed(sensors, HasTemp)
               fans == Listed(sensors, HasFan)
           IN  /\ Len(sensors) \in Nat
               /\ DOMAIN temps \subseteq 1 .. Len(sensors)
               /\ \A i \in DOMAIN temps : temps[i] = sensors[i] /\ temps[i] \in R
               /\ DOMAIN fans \subseteq 1 .. Len(sensors)
               /\ \A i \in DOMAIN fans : fans[i] = sensors[i] /\ fans[i] \in R
<1>1. PICK n : n = Len(sensors)
  OBVIOUS
<1>2. n \in Nat /\ DOMAIN sensors = 1 .. n /\ \A i \in 1 .. n : sensors[i] \in R
  BY <1>1
<1>3. PICK temps, fans : /\ temps = Listed(sensors, HasTemp) /\ fans = Listed(sensors, HasFan)
  OBVIOUS
<1>4. DOMAIN temps \subseteq 1 .. n /\ \A i \in DOMAIN temps : temps[i] = sensors[i]
  BY <1>2, <1>3 DEF Listed, Restrict
<1>5. DOMAIN fans \subseteq 1 .. n /\ \A i \in DOMAIN fans : fans[i] = sensors[i]
  BY <1>2, <1>3 DEF Listed, Restrict
<1> QED
  BY <1>1, <1>2, <1>3, <1>4, <1>5

\* What is read of a sensor is an integer.
LEMMA ReadIsInteger ==
    /\ \A s : s.input \in Int => Temperature(s) \in Int
    /\ \A x \in Int : Speed(x) \in Int
<1>1. Word \in Nat \ {0}
  BY WidthAssumption
<1>2. \A x \in Int : Signed(x, Word) \in Int
  BY <1>1, SignedBits
<1>3. 0 \in Int /\ -1 \in Int
  OBVIOUS
<1>4. ASSUME NEW s, s.input \in Int PROVE Temperature(s) \in Int
  <2>1. Signed(s.input, Word) \in Int
    BY <1>2, <1>4, Zenon
  <2> QED BY <1>3, <2>1, Zenon DEF Temperature
<1>5. ASSUME NEW x \in Int PROVE Speed(x) \in Int
  <2>1. Signed(x, Word) \in Int
    BY <1>2, Zenon
  <2> QED BY <1>3, <2>1, Zenon DEF Speed
<1> QED
  BY <1>4, <1>5, Zenon

\* What is read of the thermometers of a device.
LEMMA TempsOfDevice ==
    ASSUME Spelled, NEW d \in HwDevice
    PROVE  \E n \in Nat : ManyOf(Temps(d), n, OfTemp)
<1>1. PICK sensors, dev, n : sensors = Listed(d.temps, HasTemp) /\ dev = d.name /\ n = Len(d.temps)
  OBVIOUS
<1>2. dev \in STRING /\ d.temps \in Seq(TempSensor)
  BY <1>1 DEF HwDevice
<1>3. n \in Nat /\ DOMAIN sensors \subseteq 1 .. n /\ \A i \in DOMAIN sensors : sensors[i] \in TempSensor
  BY <1>1, <1>2, ListedOnes
<1>4. DOMAIN Temps(d) = DOMAIN sensors
  BY <1>1 DEF Temps
<1>5. ASSUME NEW i \in DOMAIN sensors PROVE OfTemp(Temps(d)[i])
  <2>1. PICK x : x = Temps(d)[i]
    OBVIOUS
  <2>2. PICK name, label, temp :
          /\ name = SensorName(dev, sensors, i) /\ label = LabelText(sensors, i)
          /\ temp = Temperature(sensors[i])
          /\ x = [name |-> name, label |-> label, temp |-> temp]
    BY <1>1, <2>1 DEF Temps
  <2>3. sensors[i].id \in STRING /\ sensors[i].label \in STRING /\ sensors[i].input \in Int
    BY <1>3 DEF TempSensor
  <2>4. IsSequence(name) /\ IsSequence(label)
    BY <1>2, <1>3, <2>2, <2>3, NamesSpelled
  <2>5. temp \in Int
    BY <2>2, <2>3, ReadIsInteger
  <2> QED BY <2>1, <2>2, <2>4, <2>5 DEF OfTemp
<1> QED
  BY <1>3, <1>4, <1>5 DEF ManyOf

\* And of its fans.
LEMMA FansOfDevice ==
    ASSUME Spelled, NEW d \in HwDevice
    PROVE  \E n \in Nat : ManyOf(Fans(d), n, OfFan)
<1>1. PICK sensors, dev, n : sensors = Listed(d.fans, HasFan) /\ dev = d.name /\ n = Len(d.fans)
  OBVIOUS
<1>2. dev \in STRING /\ d.fans \in Seq(FanSensor)
  BY <1>1 DEF HwDevice
<1>3. n \in Nat /\ DOMAIN sensors \subseteq 1 .. n /\ \A i \in DOMAIN sensors : sensors[i] \in FanSensor
  BY <1>1, <1>2, ListedOnes
<1>4. DOMAIN Fans(d) = DOMAIN sensors
  BY <1>1 DEF Fans
<1>5. ASSUME NEW i \in DOMAIN sensors PROVE OfFan(Fans(d)[i])
  <2>1. PICK x : x = Fans(d)[i]
    OBVIOUS
  <2>2. PICK name, label, input, target :
          /\ label = LabelText(sensors, i)
          /\ input = Speed(sensors[i].input) /\ target = Speed(sensors[i].target)
          /\ x = [name |-> name, label |-> label, input |-> input, target |-> target]
    BY <1>1, <2>1 DEF Fans
  <2>3. /\ sensors[i].id \in STRING /\ sensors[i].label \in STRING
        /\ sensors[i].input \in Int /\ sensors[i].target \in Int
    BY <1>3 DEF FanSensor
  <2>4. IsSequence(label)
    BY <1>2, <1>3, <2>2, <2>3, NamesSpelled
  <2>5. input \in Int /\ target \in Int
    BY <2>2, <2>3, ReadIsInteger
  <2> QED BY <2>1, <2>2, <2>4, <2>5 DEF OfFan
<1> QED
  BY <1>3, <1>4, <1>5 DEF ManyOf

\* The values of one device.
LEMMA SensorValues ==
    ASSUME Spelled, NEW d \in HwDevice
    PROVE  AllValues(Sensors(d))
<1>1. PICK temps, fans : temps = Range(Temps(d)) /\ fans = Range(Fans(d))
  OBVIOUS
<1>2. ASSUME NEW x \in temps PROVE OfTemp(x)
  <2>1. PICK n \in Nat : ManyOf(Temps(d), n, OfTemp)
    BY TempsOfDevice
  <2> QED BY <1>1, <2>1 DEF ManyOf, Range
<1>3. ASSUME NEW x \in fans PROVE OfFan(x)
  <2>1. PICK n \in Nat : ManyOf(Fans(d), n, OfFan)
    BY FansOfDevice
  <2> QED BY <1>1, <2>1 DEF ManyOf, Range
<1>4. PICK S :
        /\ S = {<<x.name \o ".temp", Integer(x.temp)>> : x \in temps}
               \cup {<<x.name \o ".input", Integer(x.input)>> : x \in fans}
               \cup {<<x.name \o ".target", Integer(x.target)>> : x \in fans}
               \cup {<<x.name \o ".label", Text(x.label)>> : x \in temps \cup fans}
        /\ Sensors(d) = Named(S)
  BY <1>1, Zenon DEF Sensors
<1>5. ASSUME NEW p \in S PROVE IsValue(p[2])
  <2>1. \/ \E x \in temps : p[2] = Integer(x.temp) \/ p[2] = Text(x.label)
        \/ \E x \in fans : p[2] = Integer(x.input) \/ p[2] = Integer(x.target) \/ p[2] = Text(x.label)
    BY <1>4
  <2> QED BY <1>2, <1>3, <2>1, Alternatives DEF OfTemp, OfFan
<1> QED
  BY <1>4, <1>5, NamedValues

\* All sensors of all devices are finitely many.
LEMMA PlacesAreFinite ==
    ASSUME NEW n \in Nat, NEW of, DOMAIN of = 1 .. n,
           \A i \in 1 .. n : IsFiniteSet(DOMAIN of[i])
    PROVE  IsFiniteSet(Places(of))
<1> DEFINE rows == {{i} \X DOMAIN of[i] : i \in 1 .. n}
           row == [i \in 1 .. n |-> {i} \X DOMAIN of[i]]
<1>1. row \in Surjection(1 .. n, rows)
  BY DEF Surjection
<1>2. IsFiniteSet(1 .. n)
  <2> HIDE DEF rows, row
  <2>1. 1 \in Int /\ n \in Int
    OBVIOUS
  <2> QED BY <2>1, FS_Interval
<1>3. IsFiniteSet(rows)
  <2> HIDE DEF rows, row
  <2> QED BY <1>1, <1>2, FS_Surjection
<1>4. ASSUME NEW r \in rows PROVE IsFiniteSet(r)
  <2>1. PICK i \in 1 .. n : r = {i} \X DOMAIN of[i]
    OBVIOUS
  <2>2. PICK a, b : a = {i} /\ b = DOMAIN of[i] /\ IsFiniteSet(a) /\ IsFiniteSet(b) /\ r = a \X b
    BY <2>1, FS_Singleton
  <2>3. IsFiniteSet(a \X b)
    BY <2>2, FS_Product
  <2> QED BY <2>2, <2>3
<1>5. Places(of) = UNION rows
  BY DEF Places
<1> HIDE DEF rows
<1> QED
  BY <1>3, <1>4, <1>5, FS_UNION

\* The summary over all devices.
LEMMA SummaryValues ==
    ASSUME Spelled, NEW devices \in Seq(HwDevice)
    PROVE  AllValues(Summary(devices))
<1>1. PICK n, temps, fans : /\ n = Len(devices)
                            /\ temps = [i \in DOMAIN devices |-> Temps(devices[i])]
                            /\ fans = [i \in DOMAIN devices |-> Fans(devices[i])]
  OBVIOUS
<1>2. n \in Nat /\ DOMAIN devices = 1 .. n /\ \A i \in 1 .. n : devices[i] \in HwDevice
  BY <1>1
<1>3. ASSUME NEW i \in 1 .. n
      PROVE  \E m \in Nat : ManyOf(temps[i], m, OfTemp)
  <2>1. temps[i] = Temps(devices[i]) /\ devices[i] \in HwDevice
    BY <1>1, <1>2
  <2> QED BY <2>1, TempsOfDevice
<1>4. IsFiniteSet(Places(fans))
  <2>1. ASSUME NEW i \in 1 .. n PROVE IsFiniteSet(DOMAIN fans[i])
    <3>1. fans[i] = Fans(devices[i]) /\ devices[i] \in HwDevice
      BY <1>1, <1>2
    <3>2. PICK m \in Nat : ManyOf(fans[i], m, OfFan)
      BY <3>1, FansOfDevice
    <3>3. DOMAIN fans[i] \in SUBSET (1 .. m) /\ IsFiniteSet(1 .. m)
      BY <3>2, FS_Interval DEF ManyOf
    <3> QED BY <3>3, FS_Subset
  <2>2. n \in Nat /\ DOMAIN fans = 1 .. n
    BY <1>1, <1>2
  <2> QED BY <2>1, <2>2, PlacesAreFinite
<1>5. PICK turning, stuck : /\ turning = {p \in Places(fans) : Turning(At(fans, p))}
                            /\ stuck = {p \in Places(fans) : Stuck(At(fans, p))}
  OBVIOUS
<1>6. PICK a, b, c : /\ a = Integer(Cardinality(Places(fans)))
                     /\ b = Integer(Cardinality(turning)) /\ c = Integer(Cardinality(stuck))
                     /\ IsValue(a) /\ IsValue(b) /\ IsValue(c)
  <2>1. turning \in SUBSET Places(fans) /\ stuck \in SUBSET Places(fans)
    BY <1>5
  <2>2. IsFiniteSet(turning) /\ IsFiniteSet(stuck)
    BY <1>4, <2>1, FS_Subset
  <2>3. Cardinality(Places(fans)) \in Int /\ Cardinality(turning) \in Int /\ Cardinality(stuck) \in Int
    BY <1>4, <2>2, FS_CardinalityType
  <2> QED BY <2>3, Alternatives
<1>7. PICK hottest, at, max : /\ hottest = Hottest(temps) /\ at = (CHOOSE p \in hottest : TRUE)
                              /\ max = At(temps, at)
  OBVIOUS
<1>8. hottest # {} => OfTemp(max)
  <2> SUFFICES ASSUME hottest # {} PROVE OfTemp(max)
    OBVIOUS
  <2>1. at \in Places(temps)
    BY <1>7 DEF Hottest
  <2>2. PICK i \in DOMAIN temps : at \in {i} \X DOMAIN temps[i]
    BY <2>1 DEF Places
  <2>3. at[1] = i /\ at[2] \in DOMAIN temps[i] /\ i \in 1 .. n
    BY <1>1, <1>2, <2>2
  <2>4. PICK m \in Nat : ManyOf(temps[i], m, OfTemp)
    BY <1>3, <2>3
  <2> QED BY <1>7, <2>3, <2>4 DEF ManyOf, At
<1>9. PICK temp, name : /\ temp = (IF hottest = {} THEN NoValue ELSE Integer(max.temp))
                        /\ name = (IF hottest = {} THEN NoValue ELSE Text(max.name))
                        /\ IsValue(temp) /\ IsValue(name)
  BY <1>8, Alternatives DEF OfTemp
<1>10. PICK S : /\ S = {<<"temp_max", temp>>, <<"name_max", name>>, <<"fans_num", a>>,
                        <<"fans_turning", b>>, <<"fans_stuck", c>>}
                /\ Summary(devices) = Named(S)
  BY <1>1, <1>5, <1>6, <1>7, <1>9, Zenon DEF Summary, Count
<1>11. \A p \in S : IsValue(p[2])
  BY <1>6, <1>9, <1>10
<1> QED
  BY <1>10, <1>11, NamedValues

\* What the devices tell.
LEMMA HWMonValues ==
    ASSUME Spelled, NEW s, NEW now, Readable("hwmon", s, now)
    PROVE  AllValues(HWMon(s).next)
<1>1. CASE s = NoFile
  BY <1>1, NothingIsEmpty DEF HWMon, Throws, AllValues
<1>2. CASE s # NoFile
  <2>1. s.lines \in Seq(HwDevice)
    BY <1>2 DEF Readable, HwDevice, TempSensor, FanSensor
  <2>2. PICK used, open : /\ used = Used(s.lines) /\ open = Opened(used)
                          /\ used \in Seq(HwDevice) /\ open \in Seq(HwDevice)
    BY <2>1, UsedDevices, OpenedDevices
  <2>3. ASSUME NEW all \in Seq(HwDevice) PROVE AllValues(OverLines(Sensors, all))
    <3>1. PICK n, maps : /\ n = Len(all) /\ maps = [i \in DOMAIN all |-> Sensors(all[i])]
                         /\ OverLines(Sensors, all) = OverAll(maps)
      BY DEF OverLines
    <3>2. n \in Nat /\ DOMAIN maps = 1 .. n
      BY <3>1
    <3>3. ASSUME NEW i \in 1 .. n PROVE AllValues(maps[i])
      <4>1. maps[i] = Sensors(all[i]) /\ all[i] \in HwDevice
        BY <3>1
      <4> QED BY <4>1, SensorValues
    <3> QED BY <3>1, <3>2, <3>3, OverAllValues
  <2>4. \/ HWMon(s).next = OverLines(Sensors, open)
        \/ HWMon(s).next = Over(Summary(used), OverLines(Sensors, used))
    BY <1>2, <2>2, Zenon DEF HWMon, Returns, Throws
  <2>5. AllValues(OverLines(Sensors, open)) /\ AllValues(OverLines(Sensors, used))
    BY <2>2, <2>3
  <2>6. AllValues(Over(Summary(used), OverLines(Sensors, used)))
    BY <2>2, <2>5, SummaryValues, OverValues
  <2> QED BY <2>4, <2>5, <2>6
<1> QED
  BY <1>1, <1>2

-----------------------------------------------------------------------------
(* What the records show                                                   *)

\* Whatever was read last, of any kind, what is published is of values.
LEMMA CurrentValues ==
    ASSUME Spelled, Told
    PROVE  AllValues(current)
<1>1. CASE made = 0
  BY <1>1, NothingIsEmpty DEF Told, AllValues
<1>2. CASE made # 0
  <2>1. /\ kind \in Factories /\ time \in 1 .. Horizon /\ FromSource
        /\ Readable(kind, source, time) /\ source \in Sources(kind, time)
    BY <1>2, LastRead, KindsAssumption DEF Told
  <2>2. CASE kind = "irq"
    <3>1. PICK before, since : current = Irq(source, before, since, time).next
      BY <2>1, <2>2 DEF FromSource
    <3> QED BY <2>1, <2>2, <3>1, IrqValues
  <2>3. CASE kind = "ethtool"
    <3>1. PICK d \in Drivers : /\ info = EthtoolInfo(d) /\ ~EthtoolFails(d)
                               /\ current = Ethtool(info, source).next
      BY <2>1, <2>3 DEF FromSource
    <3>2. source.stats # NoFile => \E n : Valued(n, info.stats, source.stats.lines)
      <4> SUFFICES ASSUME source.stats # NoFile
                   PROVE  \E n : Valued(n, info.stats, source.stats.lines)
        OBVIOUS
      <4>1. CASE ~HasNames(d)
        <5>1. info.stats = <<>>
          BY <3>1, <4>1 DEF EthtoolInfo
        <5>2. PICK stats, out : stats = info.stats /\ out = source.stats.lines
          OBVIOUS
        <5>3. DOMAIN stats = 1 .. 0
          BY <5>1, <5>2
        <5>4. Valued(0, stats, out)
          BY <5>3 DEF Valued
        <5> QED BY <5>2, <5>4
      <4>2. CASE HasNames(d)
        <5>1. d.names # NoFile /\ info.stats = d.names.lines
          BY <3>1, <4>2 DEF EthtoolInfo, EthtoolFails
        <5>2. /\ info.stats \in Seq([name : STRING, drop : BOOLEAN, rx : BOOLEAN, tx : BOOLEAN])
              /\ Len(info.stats) <= Len(source.stats.lines)
          <6>1. "ethtool" \in Kinds /\ source \in Sources("ethtool", time) /\ time \in 1 .. Horizon
            BY <2>1, <2>3 DEF Told
          <6> QED BY <2>3, <4>2, <5>1, <6>1, DriversAssumption
        <5>3. source.stats.lines \in Seq(Nat)
          BY <2>1, <2>3 DEF Readable
        <5>4. PICK R, stats, out : stats = info.stats /\ out = source.stats.lines
                                   /\ stats \in Seq(R) /\ out \in Seq(Nat) /\ Len(stats) <= Len(out)
          BY <5>2, <5>3
        <5>5. Valued(Len(stats), stats, out)
          <6>1. Len(stats) \in Nat /\ DOMAIN stats = 1 .. Len(stats)
            BY <5>4
          <6>2. DOMAIN out = 1 .. Len(out) /\ Len(out) \in Nat
            BY <5>4
          <6>3. ASSUME NEW i \in 1 .. Len(stats) PROVE out[i] \in Nat
            <7>1. i \in 1 .. Len(out)
              BY <5>4, <6>1, <6>2
            <7> QED BY <5>4, <7>1
          <6> QED BY <6>1, <6>3, Zenon DEF Valued
        <5> QED BY <5>4, <5>5
      <4> QED BY <4>1, <4>2
    <3> QED BY <2>1, <2>3, <3>1, <3>2, EthtoolValues
  <2>4. CASE kind = "pdb"
    <3>1. PICK asked \in BOOLEAN, nsus \in Nat :
            current = PDB(Cardinality(Recs), nsus, asked, source.n).next
      BY <2>1, <2>4 DEF FromSource
    <3>2. Cardinality(Recs) \in Nat
      BY TablesAssumption, FS_CardinalityType
    <3>3. source.n \in Int
      BY <2>1, <2>4 DEF Readable
    <3> QED BY <3>1, <3>2, <3>3, PDBValues
  <2>5. CASE kind \in Memoryless
    <3>1. current = Tells(kind, source, time).next
      BY <2>1, <2>5 DEF FromSource
    <3>2. CASE kind = "mallinfo"
      <4>1. source.n \in Int
        BY <2>1, <3>2 DEF Readable
      <4> QED BY <3>1, <3>2, <4>1, MallinfoValues DEF Tells
    <3>3. CASE kind \in {"netstat", "stat", "memInfo", "uptime", "host", "statvfs"}
      BY <2>1, <3>1, <3>3, NetstatValues, StatValues, MemInfoValues, UptimeValues, HostValues,
         StatVFSValues DEF Tells
    <3>4. CASE kind = "rtc"
      <4>1. time \in Int
        BY <2>1, TablesAssumption
      <4> QED BY <2>1, <3>1, <3>4, <4>1, RTCValues DEF Tells
    <3>5. CASE kind \in {"hwmon", "ifstat", "pid", "procStat", "procStatus", "fd"}
      BY <2>1, <3>1, <3>5, HWMonValues, NewLinkValues, PidValues, ProcStatValues,
         ProcStatusValues, FDValues DEF Tells
    <3> QED BY <2>5, <3>2, <3>3, <3>4, <3>5 DEF Memoryless
  <2> QED BY <2>1, <2>2, <2>3, <2>4, <2>5 DEF Factories, Memoryless
<1> QED
  BY <1>1, <1>2

\* What ShownIsPublished says of one record, as a step keeps it.
RecordShows(r) ==
    recs[r].alarm = "none" => /\ handle[r] > Failed /\ recs[r].time = seen[r]
                              /\ Shows(links[r].type, recs[r].val, got[r])

RecordsKept ==
    /\ links \in [Recs -> Links(kind)]
    /\ handle \in [Recs -> Nat \cup {NotYet}]
    /\ phase # "build" => \A r \in Recs : handle[r] # NotYet
    /\ DOMAIN recs = Recs /\ DOMAIN seen = Recs /\ DOMAIN got = Recs
    /\ \A r \in Recs : "alarm" \in DOMAIN recs[r]
    /\ \A r \in Recs : RecordShows(r)

\* No record was processed at first.
LEMMA RecordsKeptInit == Init => RecordsKept
<1> SUFFICES ASSUME Init PROVE RecordsKept
  OBVIOUS
<1>1. /\ links \in [Recs -> Links(kind)] /\ handle = [r \in Recs |-> NotYet] /\ phase = "build"
      /\ recs = [r \in Recs |-> Blank] /\ DOMAIN seen = Recs /\ DOMAIN got = Recs
  BY DEF Init
<1>2. Blank.alarm = "UDF" /\ "alarm" \in DOMAIN Blank
  BY DEF Blank
<1> QED
  BY <1>1, <1>2 DEF RecordsKept, RecordShows

\* A record that is processed shows what is published then.
LEMMA ProcessedShows ==
    ASSUME Spelled, Told, RecordsKept, NEW r \in Recs, Process(r)
    PROVE  RecordShows(r)'
<1>1. PICK type, name : type = links[r].type /\ name = links[r].param /\ type \in Types
  BY KindsAssumption DEF RecordsKept, Told
<1>2. handle[r] > Failed /\ handle' = handle /\ links' = links
  BY DEF Process, RecordsKept, iocVars, Failed, NotYet
<1>3. /\ recs' = [recs EXCEPT ![r] = IF type = "time" THEN ReadTime(time)
                                     ELSE ReadValue(recs[r], type, current, name, time)]
      /\ seen' = [seen EXCEPT ![r] = time]
      /\ got' = [got EXCEPT ![r] = IF type = "time" THEN Float(<<time, 1>>)
                                   ELSE IF name \in DOMAIN current THEN current[name] ELSE Absent]
  BY <1>1 DEF Process
<1>4. seen'[r] = time
  BY <1>3 DEF RecordsKept
<1>5. CASE type = "time"
  <2>1. PICK v : v = Float(<<time, 1>>) /\ IsValue(v) /\ IsFloat(v)
    <3>1. PICK q : q = <<time, 1>>
      OBVIOUS
    <3>2. IsFloat(Float(q))
      BY DEF IsFloat, Float
    <3> QED BY <3>1, <3>2, Alternatives
  <2>2. recs'[r] = ReadTime(time) /\ got'[r] = v
    BY <1>3, <1>5, <2>1 DEF RecordsKept
  <2>3. recs'[r].time = time /\ recs'[r].val = v
    BY <2>1, <2>2 DEF ReadTime
  <2>4. Shows(type, v, v)
    BY <2>1, ValueIsOne DEF Shows
  <2> QED BY <1>1, <1>2, <1>4, <2>2, <2>3, <2>4 DEF RecordShows
<1>6. CASE type # "time"
  <2>1. PICK old, trouble : old = recs[r] /\ trouble = Trouble(type, current, name)
    OBVIOUS
  <2>2. recs'[r] = ReadValue(old, type, current, name, time)
    BY <1>3, <1>6, <2>1 DEF RecordsKept
  <2>3. recs'[r].alarm = trouble
    BY <2>1, <2>2 DEF ReadValue
  <2>4. SUFFICES ASSUME trouble = "none" PROVE RecordShows(r)'
    BY <2>3 DEF RecordShows
  <2>5. recs'[r].val = Shown(type, current[name]) /\ recs'[r].time = time
    BY <2>1, <2>2, <2>4 DEF ReadValue
  <2>6. name \in DOMAIN current /\ current[name] # NoValue /\ Fits(type, current[name])
    BY <2>1, <2>4 DEF Trouble
  <2>7. PICK v : v = current[name] /\ IsValue(v) /\ v # NoValue /\ Fits(type, v)
    BY <2>6, CurrentValues DEF AllValues
  <2>8. got'[r] = v
    BY <1>3, <1>6, <2>6, <2>7 DEF RecordsKept
  <2>9. Shows(type, Shown(type, v), v)
    BY <1>1, <1>6, <2>7, FittingShown
  <2> QED BY <1>1, <1>2, <1>4, <2>5, <2>7, <2>8, <2>9 DEF RecordShows
<1> QED
  BY <1>5, <1>6

\* A step leaves a record alone, or processes it, or gives it a table before
\* it was ever processed.
LEMMA RecordsKeptStep ==
    ASSUME Spelled
    PROVE  Told /\ Entered /\ RecordsKept /\ [Next]_vars => RecordsKept'
<1> SUFFICES ASSUME Told, Entered, RecordsKept, [Next]_vars PROVE RecordsKept'
  OBVIOUS
<1>1. ASSUME UNCHANGED <<kind, links, handle, recs, seen, got>>,
             phase' # "build" => \A r \in Recs : handle[r] # NotYet
      PROVE  RecordsKept'
  BY <1>1 DEF RecordsKept, RecordShows
<1>2. ASSUME NEW r \in Recs, NEW h \in Nat, Initialise(r, h) PROVE RecordsKept'
  <2>1. /\ phase = "build" /\ phase' = phase /\ handle[r] = NotYet
        /\ handle' = [handle EXCEPT ![r] = h]
        /\ UNCHANGED <<kind, links, recs, seen, got>>
    BY <1>2 DEF Initialise, recVars
  <2>2. handle' \in [Recs -> Nat \cup {NotYet}]
    BY <2>1 DEF RecordsKept
  <2>3. recs[r].alarm # "none"
    BY <2>1 DEF RecordsKept, RecordShows, NotYet, Failed
  <2>4. \A q \in Recs : q # r => handle'[q] = handle[q]
    BY <2>1 DEF RecordsKept
  <2> QED BY <2>1, <2>2, <2>3, <2>4 DEF RecordsKept, RecordShows
<1>3. ASSUME NEW r \in Recs, InitRecord(r) PROVE RecordsKept'
  <2>1. registry \in Nat /\ made + 1 \in Nat /\ Failed \in Nat
    BY DEF Entered, Failed
  <2>2. \E h \in Nat : Initialise(r, h)
    BY <1>3, <2>1 DEF InitRecord, BadLink, FindTable, MakeTable, MakeFails
  <2> QED BY <1>2, <2>2
<1>4. ASSUME NEW r \in Recs, Process(r) PROVE RecordsKept'
  <2>1. RecordShows(r)'
    BY <1>4, ProcessedShows
  <2>2. /\ UNCHANGED <<kind, links, handle, phase>>
        /\ DOMAIN recs' = Recs /\ DOMAIN seen' = Recs /\ DOMAIN got' = Recs
        /\ \A q \in Recs : q # r => recs'[q] = recs[q] /\ seen'[q] = seen[q] /\ got'[q] = got[q]
    BY <1>4 DEF Process, RecordsKept, iocVars
  <2>3. "alarm" \in DOMAIN recs'[r]
    BY <1>4 DEF Process, RecordsKept, ReadTime, ReadValue
  <2>4. \A q \in Recs : RecordShows(q)'
    BY <2>1, <2>2 DEF RecordsKept, RecordShows
  <2> QED BY <2>2, <2>3, <2>4 DEF RecordsKept
<1>5. ASSUME NEW r \in Recs, ProcessFailed(r) PROVE RecordsKept'
  <2>1. /\ UNCHANGED <<kind, links, handle, phase, seen, got>>
        /\ recs' = [recs EXCEPT ![r] = Alarm(recs[r], "COMM")]
    BY <1>5 DEF ProcessFailed, iocVars
  <2>2. /\ DOMAIN recs' = Recs /\ recs'[r] = Alarm(recs[r], "COMM")
        /\ \A q \in Recs : q # r => recs'[q] = recs[q]
    BY <2>1 DEF RecordsKept
  <2>3. "alarm" \in DOMAIN recs'[r] /\ recs'[r].alarm # "none"
    BY <2>2 DEF Alarm, RecordsKept
  <2>4. \A q \in Recs : RecordShows(q)'
    BY <2>1, <2>2, <2>3 DEF RecordsKept, RecordShows
  <2> QED BY <2>1, <2>2, <2>3, <2>4 DEF RecordsKept
<1>6. CASE IocRuns
  BY <1>1, <1>6 DEF IocRuns, recVars
<1>7. CASE ServerRuns \/ Update \/ Suspend \/ ProcessParam \/ UNCHANGED vars
  <2>1. UNCHANGED <<kind, links, handle, recs, seen, got>> /\ (phase' = phase \/ phase # "build")
    BY <1>7 DEF ServerRuns, Update, Suspend, ProcessParam, vars, iocVars, recVars
  <2> QED BY <1>1, <2>1 DEF RecordsKept
<1> QED
  BY <1>3, <1>4, <1>5, <1>6, <1>7 DEF Next

\* Whatever a table reads, and however often a record is processed before,
\* between and after its updates: without an alarm it shows what was published
\* when it was last processed, with the time of that.
THEOREM ShownIsAsPublished ==
    ASSUME Spelled
    PROVE  Spec => []ShownIsPublished
<1>1. RecordsKept => ShownIsPublished
  BY Zenon DEF RecordsKept, RecordShows, Shows, ShownIsPublished
<1>2. Told /\ Entered /\ RecordsKept /\ [Next]_vars => RecordsKept'
  BY RecordsKeptStep
<1> QED
  BY ToldInit, ToldStep, EnteredInit, EnteredStep, RecordsKeptInit, <1>1, <1>2, PTL DEF Spec
===============================================================================
