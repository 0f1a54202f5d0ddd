----------------------------- MODULE TablesProofs -----------------------------
(***************************************************************************)
(* Theorems about Tables for every value of its constants.                 *)
(***************************************************************************)
EXTENDS TablePromises, FoldLemmas, SequenceTheorems, TLAPS

\* ToMB(b) is b in MB, rounded up.
LEMMA Rounding ==
    ASSUME NEW b \in Nat
    PROVE  /\ ToMB(b) \in Nat
           /\ b <= MB * ToMB(b)
           /\ MB * ToMB(b) < b + MB
  BY UnitAssumption DEF ToMB

-----------------------------------------------------------------------------
(* Every record that has a table has the one in the registry.              *)

Entered ==
    /\ handle \in [Recs -> Int]
    /\ registry \in Nat /\ made \in Nat
    /\ \A r \in Recs : handle[r] > Failed => handle[r] = registry

\* No record has a table at first.
LEMMA EnteredInit == Init => Entered
  BY DEF Init, Entered, NotYet, Failed

\* A record is given the entry of the registry, which is entered once.
LEMMA EnteredStep == Entered /\ [Next]_vars => Entered'
<1> SUFFICES ASSUME Entered, [Next]_vars PROVE Entered'
  OBVIOUS
<1> USE DEF Entered, Failed, iocVars
<1>1. ASSUME NEW r \in Recs, BadLink(r) PROVE Entered'
  BY <1>1 DEF BadLink, Initialise
<1>2. ASSUME NEW r \in Recs, FindTable(r) PROVE Entered'
  BY <1>2 DEF FindTable, Initialise
<1>3. ASSUME NEW r \in Recs, MakeTable(r) PROVE Entered'
  <2>1. /\ registry = Failed /\ registry' = made + 1 /\ made' = made + 1
        /\ handle' = [handle EXCEPT ![r] = made + 1]
    BY <1>3 DEF MakeTable, Initialise, Enter
  <2>2. \A q \in Recs : ~(handle[q] > 0)
    BY <2>1
  <2> QED BY <2>1, <2>2
<1>4. ASSUME NEW r \in Recs, MakeFails(r) PROVE Entered'
  BY <1>4 DEF MakeFails, Initialise
<1>5. ASSUME UNCHANGED <<handle, registry, made>> PROVE Entered'
  BY <1>5
<1>6. (\E r \in Recs : Process(r) \/ ProcessFailed(r)) \/ IocRuns \/ ServerRuns \/ Update
      \/ Suspend \/ ProcessParam \/ UNCHANGED vars => UNCHANGED <<handle, registry, made>>
  BY DEF Process, ProcessFailed, IocRuns, ServerRuns, Update, Suspend, ProcessParam, vars
<1> QED
  BY <1>1, <1>2, <1>3, <1>4, <1>5, <1>6 DEF Next, InitRecord

\* All records of one table share it: lookup() never makes a second one.
THEOREM OneTable == Spec => []SharedTable
<1>1. Entered => SharedTable
  BY DEF Entered, SharedTable
<1> QED
  BY EnteredInit, EnteredStep, <1>1, PTL DEF Spec

-----------------------------------------------------------------------------
(* What is published is the update() of what was read.                     *)

\* The update() of the tables that remember nothing, and ask nobody else.
Memoryless == {"netstat", "stat", "memInfo", "uptime", "host", "statvfs", "rtc", "hwmon",
               "ifstat", "pid", "procStat", "procStatus", "fd", "mallinfo"}
Tells(k, s, now) ==
    CASE k = "netstat" -> Netstat(s)
      [] k = "stat" -> Stat(s)
      [] k = "memInfo" -> MemInfo(s)
      [] k = "uptime" -> Uptime(s)
      [] k = "host" -> Host(s)
      [] k = "statvfs" -> StatVFS("path", s)
      [] k = "rtc" -> RTC(s, now)
      [] k = "hwmon" -> HWMon(s)
      [] k = "ifstat" -> NewLink("name", s)
      [] k = "pid" -> Pid(100, s)
      [] k = "procStat" -> ProcStat(s)
      [] k = "procStatus" -> ProcStatus(s)
      [] k = "fd" -> FD(s)
      [] k = "mallinfo" -> Mallinfo(s.n)

\* What is published, and remembered, comes from what was read last.
FromSource ==
    /\ kind \in Memoryless => /\ current = Tells(kind, source, time).next
                             /\ ok = Tells(kind, source, time).ok
    /\ kind = "ethtool" => \E d \in Drivers : /\ info = EthtoolInfo(d) /\ ~EthtoolFails(d)
                                              /\ current = Ethtool(info, source).next
    /\ kind = "irq" => /\ ok = (source # NoFile)
                       /\ ok => prev = Counts(source)
                       /\ \E before, since : current = Irq(source, before, since, time).next
    /\ kind = "pdb" => \E asked \in BOOLEAN : \E nsus \in Nat :
                          /\ current = PDB(Cardinality(Recs), nsus, asked, source.n).next
                          /\ asked => started

Told ==
    /\ kind \in Kinds /\ time \in 0 .. Horizon /\ nsuspend \in Nat
    /\ started \in BOOLEAN /\ hooked \in BOOLEAN
    /\ started => phase = "serving"
    /\ made \in Nat
    /\ made > 0 => /\ kind # "env" /\ time > 0 /\ source \in Sources(kind, time)
                   /\ FromSource
    /\ made = 0 => registry = Failed /\ current = Nothing

\* Nothing was read at first.
LEMMA ToldInit == Init => Told
<1> SUFFICES ASSUME Init PROVE Told
  OBVIOUS
<1>1. /\ kind \in Kinds /\ made = 0 /\ time = 0 /\ started = FALSE /\ hooked = FALSE
      /\ nsuspend = 0 /\ registry = Failed /\ current = Nothing
  BY DEF Init
<1>2. time \in 0 .. Horizon /\ made \in Nat /\ ~(made > 0)
  BY <1>1, TablesAssumption
<1> QED
  BY <1>1, <1>2 DEF Told

\* After a Fetch what is published is told by what was read.
LEMMA ToldByFetch ==
    ASSUME Told, Fetch, kind' = kind, kind # "env", made' \in Nat \ {0},
           started' = started, hooked' \in BOOLEAN, phase' = phase, nsuspend' = nsuspend,
           kind = "ethtool" => \E d \in Drivers : info' = EthtoolInfo(d) /\ ~EthtoolFails(d)
    PROVE  Told'
<1>1. PICK now \in time + 1 .. Horizon :
        \E s \in Sources(kind, now) :
            /\ source' = s /\ time' = now
            /\ current' = Outcome(s, now).next /\ ok' = Outcome(s, now).ok
            /\ prev' = IF kind = "irq" THEN PrevAfter(s, prev) ELSE prev
  BY Zenon DEF Fetch
<1>2. PICK s \in Sources(kind, now) :
        /\ source' = s /\ time' = now
        /\ current' = Outcome(s, now).next /\ ok' = Outcome(s, now).ok
        /\ prev' = IF kind = "irq" THEN PrevAfter(s, prev) ELSE prev
  BY <1>1, Zenon
<1>3. now \in 1 .. Horizon
  BY TablesAssumption DEF Told
<1>4. kind \in Memoryless => Outcome(s, now) = Tells(kind, s, now)
  BY DEF Outcome, Tells, Memoryless
<1>5. kind = "ethtool" => Outcome(s, now) = Ethtool(info', s)
  BY DEF Outcome
<1>6. kind = "irq" => Outcome(s, now) = Irq(s, prev, time, now)
  BY DEF Outcome
<1>7. kind = "pdb" => Outcome(s, now) = PDB(Cardinality(Recs), nsuspend, started, s.n)
  BY DEF Outcome
<1>8. Irq(s, prev, time, now).ok = (s # NoFile)
  BY Zenon DEF Irq, Returns, Throws
<1>9. s # NoFile => PrevAfter(s, prev) = Counts(s)
  BY DEF PrevAfter
<1>10. FromSource'
  <2>1. kind \in Memoryless => /\ current' = Tells(kind', source', time').next
                              /\ ok' = Tells(kind', source', time').ok
    BY <1>2, <1>4
  <2>2. kind = "ethtool" => \E d \in Drivers : /\ info' = EthtoolInfo(d) /\ ~EthtoolFails(d)
                                               /\ current' = Ethtool(info', source').next
    BY <1>2, <1>5
  <2>3. kind = "irq" =>
            /\ ok' = (source' # NoFile) /\ (ok' => prev' = Counts(source'))
            /\ \E before, since : current' = Irq(source', before, since, time').next
    BY <1>2, <1>6, <1>8, <1>9
  <2>4. kind = "pdb" => \E asked \in BOOLEAN : \E nsus \in Nat :
                           /\ current' = PDB(Cardinality(Recs), nsus, asked, source'.n).next
                           /\ asked => started'
    BY <1>2, <1>7 DEF Told
  <2> QED
    BY <2>1, <2>2, <2>3, <2>4 DEF FromSource
<1> QED
  BY <1>2, <1>3, <1>10 DEF Told

\* Only a Fetch changes what is published.
LEMMA ToldStep == Told /\ [Next]_vars => Told'
<1> SUFFICES ASSUME Told, [Next]_vars PROVE Told'
  OBVIOUS
<1>1. ASSUME NEW r \in Recs, MakeTable(r) PROVE Told'
  <2>1. /\ Fetch /\ kind' = kind /\ kind # "env" /\ made' = made + 1 /\ phase' = phase
        /\ started' = started /\ nsuspend' = nsuspend /\ hooked' \in BOOLEAN
        /\ kind = "ethtool" => \E d \in Drivers : info' = EthtoolInfo(d) /\ ~EthtoolFails(d)
    BY <1>1 DEF MakeTable, Initialise, Told
  <2> QED BY <2>1, ToldByFetch DEF Told
<1>2. CASE Update
  <2>1. Fetch /\ UNCHANGED <<kind, made, phase, started, hooked, nsuspend, info>>
    BY <1>2 DEF Update, iocVars, pdbVars
  <2>2. made > 0
    BY <1>2 DEF Update, Told
  <2> QED BY <2>1, <2>2, ToldByFetch DEF Told, FromSource
<1>3. ASSUME UNCHANGED <<kind, registry, made, tableVars>>, nsuspend' \in Nat,
             started' \in BOOLEAN, hooked' \in BOOLEAN, started => started',
             started' => phase' = "serving"
      PROVE  Told'
  BY <1>3 DEF Told, FromSource, tableVars
<1>4. ASSUME NEW r \in Recs, BadLink(r) \/ FindTable(r) \/ MakeFails(r) PROVE Told'
  <2>1. /\ UNCHANGED <<kind, registry, made, tableVars, phase, started, nsuspend>>
        /\ hooked' \in BOOLEAN
    BY <1>4 DEF BadLink, FindTable, MakeFails, Initialise, tableVars, pdbVars, Told
  <2> QED BY <1>3, <2>1 DEF Told
<1>5. CASE ServerRuns
  BY <1>3, <1>5 DEF ServerRuns, Told
<1>6. CASE (\E r \in Recs : Process(r) \/ ProcessFailed(r)) \/ Suspend \/ ProcessParam
           \/ UNCHANGED vars
  <2>1. UNCHANGED <<kind, registry, made, tableVars, phase, started, hooked>> /\ nsuspend' \in Nat
    BY <1>6 DEF Process, ProcessFailed, Suspend, ProcessParam, vars, iocVars, pdbVars, Told
  <2> QED BY <1>3, <2>1 DEF Told
<1>7. CASE IocRuns
  BY <1>3, <1>7 DEF IocRuns, pdbVars, Told
<1> QED
  BY <1>1, <1>2, <1>3, <1>4, <1>5, <1>6, <1>7 DEF Next, InitRecord, Told

\* What was read last is readable, and told by its kind.
LEMMA LastRead ==
    ASSUME Told, made > 0
    PROVE  time \in 1 .. Horizon /\ Readable(kind, source, time) /\ FromSource
  BY SourcesAssumption DEF Told

\* Named gives a name that occurs in one pair the value of that pair.
LEMMA NamedOnce ==
    ASSUME NEW S, NEW a, NEW b, <<a, b>> \in S, \A p \in S : p[1] = a => p[2] = b
    PROVE  a \in DOMAIN Named(S) /\ Named(S)[a] = b
<1>1. <<a, b>>[1] = a /\ <<a, b>>[2] = b
  OBVIOUS
<1>2. a \in {p[1] : p \in S}
  BY <1>1
<1>3. (CHOOSE p \in S : p[1] = a)[2] = b
  BY <1>1
<1> QED
  BY <1>2, <1>3 DEF Named

\* What StatVFS publishes of the space.
LEMMA SpacePublished ==
    ASSUME NEW fs, fs.fails = FALSE
    PROVE  LET next == StatVFS("path", fs).next
           IN  /\ next["size"].int = ToMB(fs.frsize * fs.blocks)
               /\ next["avail"].int = ToMB(fs.bsize * fs.bavail)
<1> DEFINE S == {<<"path", Text("path")>>} \cup
                  {<<"size", Integer(ToMB(fs.frsize * fs.blocks))>>,
                   <<"avail", Integer(ToMB(fs.bsize * fs.bavail))>>,
                   <<"isize", Integer(fs.files)>>, <<"iavail", Integer(fs.favail)>>}
<1>1. StatVFS("path", fs).next = Named(S)
  BY DEF StatVFS, Returns
<1>2. \A p \in S : /\ p[1] = "size" => p[2] = Integer(ToMB(fs.frsize * fs.blocks))
                   /\ p[1] = "avail" => p[2] = Integer(ToMB(fs.bsize * fs.bavail))
  OBVIOUS
<1>3. /\ <<"size", Integer(ToMB(fs.frsize * fs.blocks))>> \in S
      /\ <<"avail", Integer(ToMB(fs.bsize * fs.bavail))>> \in S
  OBVIOUS
<1> HIDE DEF S
<1>4. /\ Named(S)["size"] = Integer(ToMB(fs.frsize * fs.blocks))
      /\ Named(S)["avail"] = Integer(ToMB(fs.bsize * fs.bavail))
  BY <1>2, <1>3, NamedOnce
<1> QED
  BY <1>1, <1>4 DEF Integer

\* What RTC publishes of the clock.
LEMMA ReferencePublished ==
    ASSUME NEW file, NEW now, file # NoFile, file.lines.time, file.lines.date
    PROVE  LET next == RTC(file, now).next
               u == Distance(now, file.lines.digits)
               l == Distance(now, file.lines.digits - file.lines.zone)
           IN  /\ next["ref"].int = IF LocalIsNearer(u, l) THEN 1 ELSE 0
               /\ next["delta"].int = IF l < u THEN l ELSE u
<1> DEFINE u == Distance(now, file.lines.digits)
           l == Distance(now, file.lines.digits - file.lines.zone)
           ref == Integer(IF LocalIsNearer(u, l) THEN 1 ELSE 0)
           delta == Integer(IF l < u THEN l ELSE u)
           S == {<<"battery", Integer(Battery[file.lines.batt])>>} \cup
                    {<<"ref", ref>>, <<"delta", delta>>}
           keys == [k \in {"rtc:" \o key : key \in file.lines.keys} |-> Text(k)]
<1>1. RTC(file, now).next = Over(Named(S), keys)
  BY DEF RTC, Returns
<1>2. \A p \in S : (p[1] = "ref" => p[2] = ref) /\ (p[1] = "delta" => p[2] = delta)
  OBVIOUS
<1>3. <<"ref", ref>> \in S /\ <<"delta", delta>> \in S
  OBVIOUS
<1> HIDE DEF S, keys, ref, delta
<1>4. /\ "ref" \in DOMAIN Named(S) /\ Named(S)["ref"] = ref
      /\ "delta" \in DOMAIN Named(S) /\ Named(S)["delta"] = delta
  BY <1>2, <1>3, NamedOnce
<1>5. Over(Named(S), keys)["ref"] = ref /\ Over(Named(S), keys)["delta"] = delta
  BY <1>4 DEF Over
<1> QED
  BY <1>1, <1>5 DEF Integer, ref, delta

\* Multiplication keeps an order.
LEMMA Monotone ==
    ASSUME NEW a \in Nat, NEW b \in Nat, a <= b
    PROVE  ToMB(a) <= ToMB(b)
<1> DEFINE p == ToMB(a)
           q == ToMB(b)
<1>1. /\ p \in Nat /\ q \in Nat /\ MB \in Nat \ {0}
      /\ MB * p < a + MB /\ b <= MB * q
  BY Rounding, UnitAssumption
<1> HIDE DEF p, q
<1>2. SUFFICES ASSUME q + 1 <= p PROVE FALSE
  BY <1>1 DEF p, q
<1>3. MB * (q + 1) <= MB * p
  BY <1>1, <1>2
<1>4. MB * (q + 1) = MB * q + MB
  BY <1>1
<1> QED
  BY <1>1, <1>3, <1>4

\* Free space is never hidden by rounding nor more than the file system has,
\* whatever the sizes and block sizes.
THEOREM SpaceIsWithin == Spec => []SpaceWithin
<1>1. Told => SpaceWithin
  <2> SUFFICES ASSUME Told, Fresh("statvfs"), source.fails = FALSE
               PROVE  /\ Value("avail") = 0 => source.bsize * source.bavail = 0
                      /\ MB * (Value("avail") - 1) < source.bsize * source.bavail
                      /\ source.bsize = source.frsize => Value("avail") <= Value("size")
    <3>1. Told /\ Fresh("statvfs") => source.fails \in BOOLEAN
      BY LastRead DEF Fresh, Readable
    <3> QED BY <3>1 DEF SpaceWithin
  <2>1. Readable("statvfs", source, time) /\ current = StatVFS("path", source).next
    BY LastRead DEF Fresh, FromSource, Memoryless, Tells
  <2> DEFINE free == source.bsize * source.bavail
             all == source.frsize * source.blocks
  <2>2. /\ source.bsize \in Nat /\ source.bavail \in Nat /\ source.frsize \in Nat
        /\ source.blocks \in Nat /\ source.bavail <= source.blocks
    BY <2>1 DEF Readable
  <2>3. free \in Nat /\ all \in Nat /\ MB \in Nat \ {0}
    BY <2>2, UnitAssumption
  <2>4. Value("size") = ToMB(all) /\ Value("avail") = ToMB(free)
    BY <2>1, SpacePublished DEF Value
  <2>5. source.bsize = source.frsize => free <= all
    BY <2>2
  <2> HIDE DEF free, all
  <2>6. ToMB(free) \in Nat /\ free <= MB * ToMB(free) /\ MB * ToMB(free) < free + MB
    BY <2>3, Rounding
  <2>7. MB * (ToMB(free) - 1) = MB * ToMB(free) - MB
    BY <2>3, <2>6
  <2>8. ToMB(free) = 0 => free = 0
    BY <2>3, <2>6
  <2>9. MB * (ToMB(free) - 1) < free
    <3> DEFINE up == MB * ToMB(free)
    <3>1. up \in Int
      BY <2>3, <2>6
    <3> HIDE DEF up
    <3> QED BY <2>3, <2>6, <2>7, <3>1 DEF up
  <2> QED
    BY <2>3, <2>4, <2>5, <2>8, <2>9, Monotone DEF free
<1> QED
  BY ToldInit, ToldStep, <1>1, PTL DEF Spec

\* The clock's reference is guessed right, and how far it is off published
\* exactly, daylight saving counted in, for every clock that is off by less than
\* half the zone's offset.
THEOREM ReferenceIsGuessed == Spec => []ReferenceGuessed
<1>1. Told => ReferenceGuessed
  <2> DEFINE off == source.lines.error + IF source.lines.utc THEN 0 ELSE source.lines.saving
  <2> SUFFICES ASSUME Told, Fresh("rtc"), source.lines.time, source.lines.date,
                      2 * Distance(off, 0) < Distance(source.lines.zone, 0)
                          \/ source.lines.zone = 0
               PROVE  /\ Value("ref") = IF source.lines.utc \/ source.lines.zone = 0 THEN 0 ELSE 1
                      /\ Value("delta") = Distance(off, 0)
    BY DEF ReferenceGuessed
  <2>0. PICK now : now = time
    OBVIOUS
  <2>1. /\ now \in 1 .. Horizon /\ Readable("rtc", source, now)
        /\ current = RTC(source, now).next
    BY <2>0, LastRead DEF Fresh, FromSource, Memoryless, Tells
  <2>2. PICK zone, isUtc, o, digits :
          /\ zone = source.lines.zone /\ isUtc = source.lines.utc /\ o = off
          /\ digits = source.lines.digits
    OBVIOUS
  <2>3. /\ o \in Int /\ zone \in Int /\ isUtc \in BOOLEAN /\ now \in Int
        /\ digits = now + o + IF isUtc THEN 0 ELSE zone
    <3>1. PICK clock : clock = source.lines
      OBVIOUS
    <3>2. /\ clock.error \in Int /\ clock.zone \in Int /\ clock.saving \in Int
          /\ clock.utc \in BOOLEAN /\ now \in Int
          /\ clock.digits = now + clock.error
                            + IF clock.utc THEN 0 ELSE clock.zone + clock.saving
      BY <2>1, <3>1 DEF Readable, Fresh
    <3>3. /\ zone = clock.zone /\ isUtc = clock.utc /\ digits = clock.digits
          /\ o = clock.error + IF clock.utc THEN 0 ELSE clock.saving
      BY <2>2, <3>1
    <3> QED BY <3>2, <3>3
  <2> DEFINE u == Distance(now, digits)
             l == Distance(now, digits - zone)
  <2>4. /\ Value("ref") = IF LocalIsNearer(u, l) THEN 1 ELSE 0
        /\ Value("delta") = IF l < u THEN l ELSE u
    BY <2>1, <2>2, ReferencePublished DEF Value, Fresh
  <2>5. 2 * Distance(o, 0) < Distance(zone, 0) \/ zone = 0
    BY <2>2
  <2>6. /\ LocalIsNearer(u, l) <=> ~(isUtc \/ zone = 0)
        /\ (IF l < u THEN l ELSE u) = Distance(o, 0)
    BY <2>3, <2>5 DEF Distance, LocalIsNearer
  <2> HIDE DEF u, l
  <2> QED
    BY <2>2, <2>4, <2>6
<1> QED
  BY ToldInit, ToldStep, <1>1, PTL DEF Spec

-----------------------------------------------------------------------------
(* The working directory is shown whole by two records.                    *)

\* Min of two numbers.
LEMMA Smaller ==
    ASSUME NEW m \in Nat, NEW n \in Nat
    PROVE  Min({m, n}) = IF m <= n THEN m ELSE n
<1>1. Min({m, n}) \in {m, n} /\ \A k \in {m, n} : Min({m, n}) <= k
  BY LeastOf
<1> QED BY <1>1

\* What Prefix() returns: so many elements, or as many as there are.
LEMMA PrefixOf ==
    ASSUME NEW C, NEW s \in Seq(C), NEW n \in Nat
    PROVE  /\ Prefix(s, n) \in Seq(C)
           /\ Len(Prefix(s, n)) = IF n <= Len(s) THEN n ELSE Len(s)
           /\ \A i \in 1 .. Len(Prefix(s, n)) : Prefix(s, n)[i] = s[i]
<1> DEFINE m == IF n <= Len(s) THEN n ELSE Len(s)
<1>1. Prefix(s, n) = SubSeq(s, 1, m)
  BY Smaller DEF Prefix
<1>2. m \in Nat /\ m <= Len(s)
  OBVIOUS
<1> HIDE DEF m
<1>3. /\ SubSeq(s, 1, m) \in Seq(C) /\ Len(SubSeq(s, 1, m)) = m
      /\ \A i \in 1 .. m : SubSeq(s, 1, m)[i] = s[i]
  BY <1>2
<1> QED BY <1>1, <1>3 DEF m

\* What Rest() returns: up to two more pieces, or as much as there is.
LEMMA RestOf ==
    ASSUME NEW C, NEW s \in Seq(C)
    PROVE  /\ Rest(s) \in Seq(C)
           /\ Len(s) <= StrMax => Len(Rest(s)) = 0
           /\ Len(s) > StrMax => Len(Rest(s)) = Min({2 * StrMax, Len(s) - StrMax})
           /\ \A i \in 1 .. Len(Rest(s)) : Rest(s)[i] = s[StrMax + i]
<1> DEFINE m == IF 3 * StrMax <= Len(s) THEN 3 * StrMax ELSE Len(s)
<1>1. Rest(s) = SubSeq(s, StrMax + 1, m)
  <2>1. Min({3 * StrMax, Len(s)}) = m
    BY Smaller, ProcessAssumption
  <2> QED BY <2>1 DEF Rest
<1>2. m \in Nat /\ m <= Len(s) /\ StrMax \in Nat /\ Len(s) \in Nat
  BY ProcessAssumption
<1>3. /\ m <= StrMax => m = Len(s)
      /\ Len(s) > StrMax => m - StrMax = Min({2 * StrMax, Len(s) - StrMax})
  <2>1. Len(s) > StrMax => Min({2 * StrMax, Len(s) - StrMax}) =
            IF 2 * StrMax <= Len(s) - StrMax THEN 2 * StrMax ELSE Len(s) - StrMax
    BY <1>2, Smaller
  <2> QED BY <2>1, ProcessAssumption
<1>4. m <= Len(s) /\ (Len(s) <= StrMax => m <= StrMax)
  BY <1>2
<1> HIDE DEF m
<1>5. /\ SubSeq(s, StrMax + 1, m) \in Seq(C)
      /\ Len(SubSeq(s, StrMax + 1, m)) = IF StrMax + 1 <= m THEN m - StrMax ELSE 0
      /\ \A i \in 1 .. Len(SubSeq(s, StrMax + 1, m)) :
             SubSeq(s, StrMax + 1, m)[i] = s[StrMax + i]
  BY <1>2
<1> QED BY <1>1, <1>2, <1>3, <1>4, <1>5

\* A sequence that has the elements of two, one after the other.
LEMMA Joined ==
    ASSUME NEW C, NEW a \in Seq(C), NEW b \in Seq(C), NEW c \in Seq(C),
           Len(c) = Len(a) + Len(b),
           \A i \in 1 .. Len(c) : c[i] = IF i <= Len(a) THEN a[i] ELSE b[i - Len(a)]
    PROVE  a \o b = c
<1>1. /\ a \o b \in Seq(C) /\ Len(a \o b) = Len(a) + Len(b)
      /\ \A i \in 1 .. Len(a) + Len(b) :
             (a \o b)[i] = IF i <= Len(a) THEN a[i] ELSE b[i - Len(a)]
  BY ConcatProperties, Zenon
<1> QED
  BY <1>1, SeqEqual, Zenon

\* So do the lengths of what fits a record, of the rest, and of both.
LEMMA LengthsAdd ==
    ASSUME NEW l \in Nat, NEW m \in Nat \ {0}, NEW la, NEW lb, NEW lc,
           la = IF m <= l THEN m ELSE l,
           lb = IF l <= m THEN 0 ELSE IF 2 * m <= l THEN m ELSE l - m,
           lc = IF 2 * m <= l THEN 2 * m ELSE l
    PROVE  lc = la + lb
<1>1. CASE l <= m
  BY <1>1
<1>2. CASE l > m /\ 2 * m <= l
  BY <1>2
<1>3. CASE l > m /\ 2 * m > l
  BY <1>3
<1> QED BY <1>1, <1>2, <1>3

\* Two pieces of the length of a record are the beginning of the whole.
LEMMA PiecesJoin ==
    ASSUME NEW C, NEW s \in Seq(C)
    PROVE  Prefix(Prefix(s, StrMax), StrMax) \o Prefix(Rest(s), StrMax) = Prefix(s, 2 * StrMax)
<1>a. PICK a, b, c : /\ a = Prefix(Prefix(s, StrMax), StrMax)
                     /\ b = Prefix(Rest(s), StrMax)
                     /\ c = Prefix(s, 2 * StrMax)
  OBVIOUS
<1>0. StrMax \in Nat \ {0} /\ Len(s) \in Nat
  BY ProcessAssumption
<1>1. /\ a \in Seq(C) /\ Len(a) = IF StrMax <= Len(s) THEN StrMax ELSE Len(s)
      /\ \A i \in 1 .. Len(a) : a[i] = s[i]
  <2> DEFINE p == Prefix(s, StrMax)
  <2>1. /\ p \in Seq(C) /\ Len(p) = IF StrMax <= Len(s) THEN StrMax ELSE Len(s)
        /\ \A i \in 1 .. Len(p) : p[i] = s[i]
    BY <1>0, PrefixOf
  <2> HIDE DEF p
  <2>2. /\ Prefix(p, StrMax) \in Seq(C)
        /\ Len(Prefix(p, StrMax)) = IF StrMax <= Len(p) THEN StrMax ELSE Len(p)
        /\ \A i \in 1 .. Len(Prefix(p, StrMax)) : Prefix(p, StrMax)[i] = p[i]
    BY <1>0, <2>1, PrefixOf
  <2>3. Len(Prefix(p, StrMax)) = Len(p)
    BY <1>0, <2>1, <2>2
  <2> QED BY <1>a, <2>1, <2>2, <2>3 DEF p
<1>2. /\ b \in Seq(C)
      /\ Len(b) = IF Len(s) <= StrMax THEN 0
                  ELSE IF 2 * StrMax <= Len(s) THEN StrMax ELSE Len(s) - StrMax
      /\ \A i \in 1 .. Len(b) : b[i] = s[StrMax + i]
  <2> DEFINE p == Rest(s)
  <2>1. /\ p \in Seq(C)
        /\ Len(p) = IF Len(s) <= StrMax THEN 0
                    ELSE IF 2 * StrMax <= Len(s) - StrMax THEN 2 * StrMax ELSE Len(s) - StrMax
        /\ \A i \in 1 .. Len(p) : p[i] = s[StrMax + i]
    <3>1. Len(s) > StrMax => Min({2 * StrMax, Len(s) - StrMax}) =
              IF 2 * StrMax <= Len(s) - StrMax THEN 2 * StrMax ELSE Len(s) - StrMax
      BY <1>0, Smaller
    <3>2. /\ Rest(s) \in Seq(C)
          /\ Len(s) <= StrMax => Len(Rest(s)) = 0
          /\ Len(s) > StrMax => Len(Rest(s)) = Min({2 * StrMax, Len(s) - StrMax})
          /\ \A i \in 1 .. Len(Rest(s)) : Rest(s)[i] = s[StrMax + i]
      BY RestOf, Zenon
    <3>3. Len(s) <= StrMax \/ Len(s) > StrMax
      BY <1>0
    <3> QED BY <3>1, <3>2, <3>3
  <2> HIDE DEF p
  <2>2. /\ Prefix(p, StrMax) \in Seq(C)
        /\ Len(Prefix(p, StrMax)) = IF StrMax <= Len(p) THEN StrMax ELSE Len(p)
        /\ \A i \in 1 .. Len(Prefix(p, StrMax)) : Prefix(p, StrMax)[i] = p[i]
    BY <1>0, <2>1, PrefixOf
  <2>3. Len(Prefix(p, StrMax)) = IF Len(s) <= StrMax THEN 0
            ELSE IF 2 * StrMax <= Len(s) THEN StrMax ELSE Len(s) - StrMax
    BY <1>0, <2>1, <2>2
  <2>4. \A i \in 1 .. Len(Prefix(p, StrMax)) : i \in 1 .. Len(p)
    BY <1>0, <2>1, <2>2
  <2> QED BY <1>a, <2>1, <2>2, <2>3, <2>4 DEF p
<1>3. /\ c \in Seq(C) /\ Len(c) = IF 2 * StrMax <= Len(s) THEN 2 * StrMax ELSE Len(s)
      /\ \A i \in 1 .. Len(c) : c[i] = s[i]
  BY <1>a, <1>0, PrefixOf
<1>5. Len(c) = Len(a) + Len(b)
  <2>1. PICK l, m, la, lb, lc : /\ l = Len(s) /\ m = StrMax
                                /\ la = Len(a) /\ lb = Len(b) /\ lc = Len(c)
    OBVIOUS
  <2>2. l \in Nat /\ m \in Nat \ {0} /\ la = (IF m <= l THEN m ELSE l)
    BY <1>0, <1>1, <2>1, Zenon
  <2>3. /\ lb = IF l <= m THEN 0 ELSE IF 2 * m <= l THEN m ELSE l - m
        /\ lc = IF 2 * m <= l THEN 2 * m ELSE l
    BY <1>2, <1>3, <2>1, Zenon
  <2>4. lc = la + lb
    BY <2>2, <2>3, LengthsAdd
  <2> QED BY <2>1, <2>4
<1>6. \A i \in 1 .. Len(c) : c[i] = IF i <= Len(a) THEN a[i] ELSE b[i - Len(a)]
  <2> SUFFICES ASSUME NEW i \in 1 .. Len(c)
               PROVE  c[i] = IF i <= Len(a) THEN a[i] ELSE b[i - Len(a)]
    OBVIOUS
  <2>0. i \in Nat /\ Len(a) \in Nat /\ Len(b) \in Nat /\ Len(c) \in Nat
    BY <1>1, <1>2, <1>3
  <2>1. CASE i <= Len(a)
    <3>1. i \in 1 .. Len(a)
      BY <2>0, <2>1
    <3> QED BY <1>1, <1>3, <2>1, <3>1
  <2>2. CASE i > Len(a)
    <3>1. Len(a) = StrMax /\ i - Len(a) \in 1 .. Len(b) /\ StrMax + (i - Len(a)) = i
      BY <1>0, <1>1, <1>2, <1>3, <1>5, <2>0, <2>2
    <3> QED BY <1>2, <1>3, <2>0, <2>2, <3>1
  <2> QED BY <2>0, <2>1, <2>2
<1>7. a \o b = c
  BY <1>1, <1>2, <1>3, <1>5, <1>6, Joined
<1> QED BY <1>7, <1>a

\* What Pid publishes of the directory.
LEMMA DirectoryPublished ==
    ASSUME NEW self, self.cwd # NoFile
    PROVE  LET next == Pid(100, self).next
           IN  /\ next["cwd1"] = Text(Prefix(self.cwd.lines, StrMax))
               /\ next["cwd2"] = Text(Rest(self.cwd.lines))
<1> DEFINE cwd == self.cwd.lines
           S == {<<"cwd", Text(cwd)>>, <<"cwd1", Text(Prefix(cwd, StrMax))>>,
                 <<"cwd2", Text(Rest(cwd))>>}
           ticks == One("ticks_per_sec", Integer(100))
           exe == IF self.exe = NoFile THEN Nothing ELSE One("exe", Text(self.exe.lines))
           rest == Over(Directory(cwd), Limits(self.limits))
<1>1. Pid(100, self).next = Over(ticks, Over(exe, rest))
  BY DEF Pid, Returns
<1>2. DOMAIN ticks = {"ticks_per_sec"} /\ DOMAIN exe \subseteq {"exe"}
  BY NothingIsEmpty DEF One, Named
<1>3. /\ "cwd1" \in DOMAIN Directory(cwd) /\ Directory(cwd)["cwd1"] = Text(Prefix(cwd, StrMax))
      /\ "cwd2" \in DOMAIN Directory(cwd) /\ Directory(cwd)["cwd2"] = Text(Rest(cwd))
  <2>1. Directory(cwd) = Named(S)
    BY DEF Directory
  <2>2. /\ <<"cwd1", Text(Prefix(cwd, StrMax))>> \in S /\ <<"cwd2", Text(Rest(cwd))>> \in S
        /\ \A p \in S : /\ p[1] = "cwd1" => p[2] = Text(Prefix(cwd, StrMax))
                        /\ p[1] = "cwd2" => p[2] = Text(Rest(cwd))
    OBVIOUS
  <2> HIDE DEF S
  <2> QED BY <2>1, <2>2, NamedOnce
<1> HIDE DEF ticks, exe
<1>4. /\ "cwd1" \in DOMAIN rest /\ rest["cwd1"] = Text(Prefix(cwd, StrMax))
      /\ "cwd2" \in DOMAIN rest /\ rest["cwd2"] = Text(Rest(cwd))
  BY <1>3 DEF Over
<1> HIDE DEF rest
<1>5. /\ "cwd1" \notin DOMAIN ticks /\ "cwd1" \notin DOMAIN exe
      /\ "cwd2" \notin DOMAIN ticks /\ "cwd2" \notin DOMAIN exe
  BY <1>2
<1>6. /\ Over(ticks, Over(exe, rest))["cwd1"] = rest["cwd1"]
      /\ Over(ticks, Over(exe, rest))["cwd2"] = rest["cwd2"]
  BY <1>4, <1>5 DEF Over
<1> QED BY <1>1, <1>4, <1>6

\* Two string records show the whole directory, whatever its length and the
\* size of a record, as far as two of them can.
THEOREM PathIsWhole == Spec => []PathWhole
<1>1. Told => PathWhole
  <2> SUFFICES ASSUME Told, Fresh("pid"), source.cwd # NoFile
               PROVE  Shown("stringin", current["cwd1"]).text
                          \o Shown("stringin", current["cwd2"]).text
                      = Prefix(source.cwd.lines, 2 * StrMax)
    BY DEF PathWhole
  <2>1. source.cwd.lines \in Seq(Nat) /\ current = Pid(100, source).next
    BY LastRead DEF Fresh, FromSource, Memoryless, Tells, Readable
  <2>2. ValSize - 1 = StrMax
    BY TablesAssumption, ProcessAssumption
  <2>3. \A t : Shown("stringin", Text(t)).text = Prefix(t, StrMax)
    BY <2>2 DEF Shown, Text, IsFloat
  <2>4. /\ Shown("stringin", current["cwd1"]).text
               = Prefix(Prefix(source.cwd.lines, StrMax), StrMax)
        /\ Shown("stringin", current["cwd2"]).text = Prefix(Rest(source.cwd.lines), StrMax)
    BY <2>1, <2>3, DirectoryPublished
  <2> QED
    BY <2>1, <2>4, PiecesJoin
<1> QED
  BY ToldInit, ToldStep, <1>1, PTL DEF Spec

-----------------------------------------------------------------------------
(* The server is asked only once it runs.                                  *)

\* No statistics of the server are published before it runs, whatever the
\* records do during the start.
THEOREM ServerStatsAreLate == Spec => []ServerStatsLate
<1>1. Told => ServerStatsLate
  <2> SUFFICES ASSUME Told, Fresh("pdb"), DOMAIN current \cap QueueNames # {}
               PROVE  phase = "serving"
    BY DEF ServerStatsLate
  <2>0. PICK asked \in BOOLEAN : \E nrec, nsus, queues :
            current = PDB(nrec, nsus, asked, queues).next /\ (asked => started)
    BY LastRead DEF Fresh, FromSource
  <2>1. PICK nrec, nsus, queues :
            current = PDB(nrec, nsus, asked, queues).next /\ (asked => started)
    BY <2>0
  <2>2. CASE asked
    BY <2>1, <2>2 DEF Told
  <2>3. CASE ~asked
    <3>1. current = Over(Named({<<"nrec", Integer(nrec)>>, <<"nsuspend", Integer(nsus)>>}), Nothing)
      BY <2>1, <2>3 DEF PDB, Returns, MayAsk
    <3>2. DOMAIN Named({<<"nrec", Integer(nrec)>>, <<"nsuspend", Integer(nsus)>>})
              = {"nrec", "nsuspend"}
      BY DEF Named
    <3>3. DOMAIN current = {"nrec", "nsuspend"}
      BY <3>1, <3>2, NothingIsEmpty DEF Over
    <3> QED BY <3>3 DEF QueueNames
  <2> QED BY <2>2, <2>3
<1> QED
  BY ToldInit, ToldStep, <1>1, PTL DEF Spec

-----------------------------------------------------------------------------
(* A parameter is shown whole or marked as cut.                            *)

Marked ==
    /\ env.text \in Seq(Chars)
    /\ param \in [val : Seq(Chars), time : Nat, alarm : {"UDF", "READ", "COMM", "none"}]
    /\ ParamMarked

\* The parameter record is empty at first.
LEMMA MarkedInit == Init => Marked
  BY RecordAssumption DEF Init, Marked, ParamMarked

\* The last three of a sequence.
LEMMA LastThree ==
    ASSUME NEW S, NEW v \in Seq(S), NEW a \in Nat, Len(v) = a + 3
    PROVE  LET t == SubSeq(v, a + 1, a + 3)
           IN  t \in Seq(S) /\ Len(t) = 3 /\ \A i \in 1 .. 3 : t[i] = v[a + i]
<1>1. PICK m \in Int, n \in Int : m = a + 1 /\ n = a + 3
  OBVIOUS
<1>2. \A i \in m .. n : v[i] \in S
  BY <1>1
<1>3. /\ SubSeq(v, m, n) \in Seq(S) /\ Len(SubSeq(v, m, n)) = IF m <= n THEN n - m + 1 ELSE 0
      /\ \A i \in 1 .. n - m + 1 : SubSeq(v, m, n)[i] = v[m + i - 1]
  BY <1>2, SubSeqProperties
<1>4. m <= n /\ n - m + 1 = 3 /\ \A i \in 1 .. 3 : m + i - 1 = a + i
  BY <1>1
<1>5. /\ SubSeq(v, m, n) \in Seq(S) /\ Len(SubSeq(v, m, n)) = 3
      /\ \A i \in 1 .. 3 : SubSeq(v, m, n)[i] = v[a + i]
  BY <1>3, <1>4, Zenon
<1> QED BY <1>1, <1>5, Zenon

\* A cut text differs from the whole, fits, and ends in dots.
LEMMA CutMarked ==
    ASSUME NEW s \in Seq(Chars), Len(s) >= ValSize,
           NEW v, v = SubSeq(s, 1, ValSize - 4) \o Dots
    PROVE  /\ v \in Seq(Chars) /\ Len(v) = ValSize - 1 /\ v # s
           /\ SubSeq(v, 1, ValSize - 4) = SubSeq(s, 1, ValSize - 4)
           /\ SubSeq(v, ValSize - 3, ValSize - 1) = Dots
<1> DEFINE head == SubSeq(s, 1, ValSize - 4)
<1>1. ValSize \in Nat /\ ValSize >= 4
  BY RecordAssumption
<1>2. /\ head \in Seq(Chars) /\ Len(head) = ValSize - 4
      /\ \A i \in 1 .. ValSize - 4 : head[i] = s[i]
  BY <1>1
<1>3. Dots \in Seq(Chars) /\ Len(Dots) = 3
  BY RecordAssumption DEF Dots
<1> HIDE DEF head
<1>4. v = head \o Dots
  BY DEF head
<1>5. /\ v \in Seq(Chars) /\ Len(v) = ValSize - 1
      /\ \A i \in 1 .. ValSize - 4 : v[i] = head[i]
      /\ \A i \in 1 .. 3 : v[ValSize - 4 + i] = Dots[i]
  <2>1. /\ head \o Dots \in Seq(Chars) /\ Len(head \o Dots) = Len(head) + Len(Dots)
        /\ \A i \in 1 .. Len(head) + Len(Dots) :
               (head \o Dots)[i] = IF i <= Len(head) THEN head[i] ELSE Dots[i - Len(head)]
    BY <1>2, <1>3, ConcatProperties, Zenon
  <2>2. /\ v \in Seq(Chars) /\ Len(v) = ValSize - 4 + 3
        /\ \A i \in 1 .. ValSize - 4 + 3 :
               v[i] = IF i <= ValSize - 4 THEN head[i] ELSE Dots[i - (ValSize - 4)]
    BY <1>2, <1>3, <1>4, <2>1, Zenon
  <2>3. Len(v) = ValSize - 1 /\ \A i \in 1 .. ValSize - 4 : v[i] = head[i]
    BY <1>1, <2>2
  <2>4. ASSUME NEW i \in 1 .. 3 PROVE v[ValSize - 4 + i] = Dots[i]
    <3> DEFINE k == ValSize - 4 + i
    <3>1. k \in 1 .. ValSize - 4 + 3 /\ ~(k <= ValSize - 4) /\ k - (ValSize - 4) = i
      BY <1>1
    <3> HIDE DEF k
    <3>2. v[k] = Dots[i]
      BY <2>2, <3>1, Zenon
    <3> QED BY <3>2 DEF k
  <2> QED BY <2>2, <2>3, <2>4
<1>6. SubSeq(v, 1, ValSize - 4) = head
  <2> DEFINE first == SubSeq(v, 1, ValSize - 4)
  <2>1. /\ first \in Seq(Chars) /\ Len(first) = ValSize - 4
        /\ \A i \in 1 .. ValSize - 4 : first[i] = v[i]
    BY <1>1, <1>5
  <2> HIDE DEF first
  <2>2. Len(first) = Len(head) /\ \A i \in 1 .. Len(first) : first[i] = head[i]
    BY <1>2, <1>5, <2>1
  <2>3. first = head
    BY <1>2, <2>1, <2>2, SeqEqual, Zenon
  <2> QED BY <2>3 DEF first
<1>7. SubSeq(v, ValSize - 3, ValSize - 1) = Dots
  <2> DEFINE tail == SubSeq(v, ValSize - 3, ValSize - 1)
  <2>1. /\ tail \in Seq(Chars) /\ Len(tail) = 3
        /\ \A i \in 1 .. 3 : tail[i] = v[ValSize - 4 + i]
    <3>1. PICK a \in Nat : a = ValSize - 4 /\ ValSize - 3 = a + 1 /\ ValSize - 1 = a + 3
      BY <1>1
    <3>2. v \in Seq(Chars) /\ Len(v) = a + 3
      BY <1>5, <3>1
    <3>3. LET t == SubSeq(v, a + 1, a + 3)
          IN  t \in Seq(Chars) /\ Len(t) = 3 /\ \A i \in 1 .. 3 : t[i] = v[a + i]
      BY <3>2, LastThree
    <3> QED BY <3>1, <3>3
  <2> HIDE DEF tail
  <2>2. Len(tail) = Len(Dots) /\ \A i \in 1 .. Len(tail) : tail[i] = Dots[i]
    BY <1>3, <1>5, <2>1
  <2>3. tail = Dots
    BY <1>3, <2>1, <2>2, SeqEqual, Zenon
  <2> QED BY <2>3 DEF tail
<1>8. v # s
  BY <1>1, <1>5
<1> QED
  BY <1>5, <1>6, <1>7, <1>8, Zenon DEF head

\* Each reading of a parameter shows it whole or marks it.
LEMMA MarkedStep == Marked /\ [Next]_vars => Marked'
<1> SUFFICES ASSUME Marked, [Next]_vars PROVE Marked'
  OBVIOUS
<1>1. ASSUME ProcessParam PROVE Marked'
  <2>1. /\ env'.set \in BOOLEAN /\ env'.text \in Seq(Chars)
        /\ param' = ReadParam(param, env'.set, env'.text)
    BY <1>1, EnvironmentsAssumption DEF ProcessParam
  <2>2. param.val \in Seq(Chars) /\ Len(param.val) < ValSize
    BY DEF Marked, ParamMarked
  <2>3. CASE ~env'.set
    BY <2>1, <2>2, <2>3 DEF ReadParam, Alarm, Marked, ParamMarked
  <2>4. CASE env'.set /\ FitsWhole(env'.text)
    BY <2>1, <2>4 DEF ReadParam, FitsWhole, Marked, ParamMarked
  <2>5. CASE env'.set /\ ~FitsWhole(env'.text)
    <3>1. Len(env'.text) >= ValSize
      BY <2>1, <2>5, RecordAssumption DEF FitsWhole
    <3>2. /\ param'.val = SubSeq(env'.text, 1, ValSize - 4) \o Dots
          /\ param'.alarm = "COMM"
      BY <2>1, <2>5 DEF ReadParam, Marked
    <3>3. /\ param'.val \in Seq(Chars) /\ Len(param'.val) = ValSize - 1
          /\ param'.val # env'.text
          /\ SubSeq(param'.val, 1, ValSize - 4) = SubSeq(env'.text, 1, ValSize - 4)
          /\ SubSeq(param'.val, ValSize - 3, ValSize - 1) = Dots
      BY <2>1, <3>1, <3>2, CutMarked, Zenon
    <3>4. param' = [param EXCEPT !.val = param'.val, !.alarm = "COMM"]
      BY <2>1, <2>5 DEF ReadParam, Marked
    <3>5. Len(param'.val) < ValSize
      BY <3>3, RecordAssumption
    <3>6. param' \in [val : Seq(Chars), time : Nat, alarm : {"UDF", "READ", "COMM", "none"}]
      BY <3>3, <3>4 DEF Marked
    <3> QED
      BY <2>1, <3>2, <3>3, <3>5, <3>6 DEF Marked, ParamMarked
  <2> QED
    BY <2>3, <2>4, <2>5
<1>2. ASSUME UNCHANGED <<env, param>> PROVE Marked'
  BY <1>2 DEF Marked, ParamMarked
<1>3. (\E r \in Recs : InitRecord(r) \/ Process(r) \/ ProcessFailed(r)) \/ IocRuns
      \/ ServerRuns \/ Update \/ Suspend \/ UNCHANGED vars => UNCHANGED <<env, param>>
  BY DEF InitRecord, BadLink, FindTable, MakeTable, MakeFails, Initialise, Process,
     ProcessFailed, IocRuns, ServerRuns, Update, Suspend, vars, recVars
<1> QED
  BY <1>1, <1>2, <1>3 DEF Next

\* For every size of the record's field and every text, a parameter fits, and
\* is shown whole or marked as cut.
THEOREM ParamIsMarked == Spec => []ParamMarked
<1>1. Marked => ParamMarked
  BY DEF Marked
<1> QED
  BY MarkedInit, MarkedStep, <1>1, PTL DEF Spec
===============================================================================
