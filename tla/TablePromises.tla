---------------------------- MODULE TablePromises -----------------------------
(***************************************************************************)
(* What the tables and their records promise, stated over what was read    *)
(* and what is published or shown, not over the way it was computed.       *)
(***************************************************************************)
EXTENDS Tables

Published(n) == n \in DOMAIN current
Value(n) == current[n].int
Fresh(k) == kind = k /\ made > 0 /\ source # NoFile

EndsWith(n, suffix) ==
    Len(n) > Len(suffix) /\ SubSeq(n, Len(n) - Len(suffix) + 1, Len(n)) = suffix
WithSuffix(suffix) == {n \in DOMAIN current : EndsWith(n, suffix)}

-----------------------------------------------------------------------------
(* Tables and records                                                      *)

\* The records of one table share it, also when a constructor failed before:
\* a second table would publish to records nobody updates (tblBase.cpp 93-126).
SharedTable ==
    \A r, q \in Recs : handle[r] > Failed /\ handle[q] > Failed => handle[r] = handle[q]

\* The text of a small record is the beginning of the published one.
ShownText(shown, text, size) == shown = SubSeq(text, 1, Len(shown))
                                /\ (shown = text \/ Len(shown) = size - 1)

\* A record without an alarm shows the value published when it was last
\* processed, with its time: the low 32 bits in the narrow records, as much as
\* fits of a text.  Whatever the update left out, also by failing, is an alarm
\* (devstat.cpp 158-347, linStat.h 82-87).
ShownIsPublished ==
    \A r \in Recs : recs[r].alarm = "none" =>
        /\ handle[r] > Failed /\ recs[r].time = seen[r]
        /\ got[r] \notin {Absent, NoValue}
        /\ IF IsText(got[r])
           THEN ShownText(recs[r].val.text, got[r].text,
                          IF links[r].type = "lsi" THEN LsiSize ELSE ValSize)
           ELSE IF IsFloat(got[r]) \/ links[r].type = "int64in" THEN recs[r].val = got[r]
           ELSE /\ recs[r].val.int % Word = got[r].int % Word
                /\ got[r].int \in 0 .. (Word \div 2) - 1 => recs[r].val = got[r]

\* A string parameter is shown whole or marked as cut, in the record's alarm
\* and in its text, and always fits (getParam.c 57-69).
ParamMarked ==
    /\ Len(param.val) < ValSize
    /\ param.alarm = "none" => param.val = env.text
    /\ param.alarm = "COMM" =>
           /\ param.val # env.text
           /\ SubSeq(param.val, 1, ValSize - 4) = SubSeq(env.text, 1, ValSize - 4)
           /\ SubSeq(param.val, ValSize - 3, ValSize - 1) = Dots

-----------------------------------------------------------------------------
(* Host tables                                                             *)

Change(l) == Counts(source')[l] - Counts(source)[l]
NoneDecreased ==
    /\ DOMAIN source.lines = DOMAIN source'.lines
    /\ \A l \in DOMAIN source.lines : Change(l) >= 0

\* Between two reads that succeeded the largest rate is that of the label
\* named, and no other label's is larger (tblIRQ.cpp 101-120).  After a failed
\* read, or when a count decreases, appears or disappears, nothing is promised.
RatesTrue ==
    [][Fresh("irq") /\ ok /\ time' > time /\ source' # NoFile /\ NoneDecreased =>
        LET rate == current'["max_irq"].float
            name == current'["max_irq_name"].text
            elapsed == time' - time
        IN  /\ \A l \in DOMAIN source.lines :
                   /\ Change(l) * rate[2] <= rate[1] * elapsed
                   /\ name = <<l>> => Change(l) * rate[2] = rate[1] * elapsed
            /\ rate[1] > 0 => \E l \in DOMAIN source.lines : name = <<l>>]_vars

\* Each published column holds the value at its place; if the update returns
\* nothing is missing but the value of a pair's last name, if a line ends
\* early (tblNetstat.cpp 41-71).
ColumnsMatch ==
    Fresh("netstat") =>
        /\ \A n \in DOMAIN current : \E i \in DOMAIN source.lines :
               LET pair == source.lines[i]
               IN  \E j \in DOMAIN pair.names : /\ n = pair.table \o pair.names[j]
                                                /\ j \in DOMAIN pair.vals
                                                /\ Value(n) = pair.vals[j]
        /\ ok => \A i \in DOMAIN source.lines :
               LET pair == source.lines[i]
               IN  \A j \in 1 .. Max({Len(pair.names) - 1, Len(pair.vals)}) :
                       Published(pair.table \o pair.names[j])

\* A column has the number proc(5) gives it, whatever is in the others
\* (tblStat.cpp 52-59, tblProcStat.cpp 76-84).
ColumnsNumbered ==
    Fresh("stat") \/ (Fresh("procStat") /\ source.lines.match) =>
        LET tokens == IF kind = "stat" THEN source.lines ELSE source.lines.columns
            name(i) == IF kind = "stat" THEN ColumnName("cpu:", i + 1) ELSE ColumnName(NoPrefix, i + 3)
        IN  \A i \in DOMAIN tokens :
                IF tokens[i] = Bad THEN ~Published(name(i))
                ELSE Published(name(i)) /\ Value(name(i)) = tokens[i]

\* A clock is compared with standard time: one that runs on local time counts as
\* off by the daylight saving in effect.  One that is off by less than half the
\* zone's offset is compared in the right way, and so is any where local time is
\* UTC (tblRTC.cpp 37, 91-101).
ReferenceGuessed ==
    Fresh("rtc") /\ source.lines.time /\ source.lines.date =>
        LET clock == source.lines
            off == Distance(clock.error + IF clock.utc THEN 0 ELSE clock.saving, 0)
        IN  2 * off < Distance(clock.zone, 0) \/ clock.zone = 0 =>
                /\ Value("ref") = IF clock.utc \/ clock.zone = 0 THEN 0 ELSE 1
                /\ Value("delta") = off

\* No free space is hidden by rounding, and a file system is never fuller than
\* empty where its two block sizes agree (tblStatVFS.cpp 34-43).
SpaceWithin ==
    Fresh("statvfs") /\ ~source.fails =>
        /\ Value("avail") = 0 => source.bsize * source.bavail = 0
        /\ MB * (Value("avail") - 1) < source.bsize * source.bavail
        /\ source.bsize = source.frsize => Value("avail") <= Value("size")

-----------------------------------------------------------------------------
(* Hardware tables                                                         *)

\* What the names of a sensor's values end in is told by two letters.
LastTwo(w) == SubSeq(w, Len(w) - 1, Len(w))
SensorParams == {".temp", ".input", ".target", ".label"}
SummaryNames == {"temp_max", "name_max", "fans_num", "fans_turning", "fans_stuck"}
ASSUME LettersAssumption ==
    /\ Len(".") = 1 /\ Len("target") = 6
    /\ ".input" = "." \o "input" /\ ".target" = "." \o "target"
    /\ \A v \in SensorParams \cup SummaryNames : Len(v) > 1
    /\ \A w \in SensorParams : \A v \in (SensorParams \ {w}) \cup SummaryNames : LastTwo(v) # LastTwo(w)

\* A dot in a device's name may be taken for the end of it: the sensor "b.c" of
\* device "a" and the sensor "c" of device "a.b" have one name.
Dotless(name) == \A i \in 1 .. Len(name) : SubSeq(name, i, i) # "."
Devices == {d \in Range(source.lines) : d.name # ""}
HwmonTold == Fresh("hwmon") /\ ok /\ \A d \in Devices : Dotless(d.name)

\* The hottest sensor shown is one of the published and none is hotter, also
\* below zero; without a sensor there is no value (tblHwmon.cpp 51, 154-188).
HottestShown ==
    HwmonTold =>
        LET temps == WithSuffix(".temp")
        IN  IF temps = {} THEN current["temp_max"] = NoValue /\ current["name_max"] = NoValue
            ELSE /\ NoValue \notin {current["temp_max"], current["name_max"]}
                 /\ current["name_max"].text \o ".temp" \in temps
                 /\ Value(current["name_max"].text \o ".temp") = Value("temp_max")
                 /\ \A n \in temps : Value(n) <= Value("temp_max")

FirstOf(name) == source.lines[Min({i \in DOMAIN source.lines : source.lines[i].name = name})]

FirstDevices == {FirstOf(d.name) : d \in Devices}

\* Each sensor of each device that could be read, its label or a value, has names
\* of its own, however its driver labels it, and the fans counted are those
\* published (tblHwmon.cpp 115-192).
SensorsApart ==
    HwmonTold =>
        LET fans == WithSuffix(".input")
        IN  /\ Cardinality(WithSuffix(".temp")) =
                   Cardinality(UNION {{d} \X {i \in DOMAIN d.temps : HasTemp(d.temps[i])} :
                                      d \in FirstDevices})
            /\ Cardinality(fans) =
                   Cardinality(UNION {{d} \X {i \in DOMAIN d.fans : HasFan(d.fans[i])} :
                                      d \in FirstDevices})
            /\ Cardinality(fans) = Value("fans_num")
            /\ Value("fans_turning") = Cardinality({n \in fans : Value(n) # 0})
            /\ Value("fans_stuck") = Cardinality(
                   {n \in WithSuffix(".target") :
                        Value(n) # 0 /\ Value(SubSeq(n, 1, Len(n) - 6) \o "input") = 0})

\* Every dropped packet counted with "rx" or "tx" in the name is in one of the two sums, and a
\* failed query leaves the sums out instead of at zero (tblEthtool.cpp 99-180).
DropsCountedOnce ==
    Fresh("ethtool") /\ info.stats # <<>> =>
        IF source.stats = NoFile THEN ~Published("rx_dropped") /\ ~Published("tx_dropped")
        ELSE LET drops(i) == info.stats[i].drop /\ (info.stats[i].rx \/ info.stats[i].tx)
             IN  (Value("rx_dropped") + Value("tx_dropped")) % DWord =
                 Sum([i \in DOMAIN info.stats |-> IF drops(i) THEN source.stats.lines[i] ELSE 0])
                     % DWord

-----------------------------------------------------------------------------
(* Process tables                                                          *)

\* Two stringin records show the whole directory, as far as they can
\* (tblPid.cpp 81-87, devstat.cpp 315).
PathWhole ==
    Fresh("pid") /\ source.cwd # NoFile =>
        LET shown(n) == Shown("stringin", current[n]).text
            path == source.cwd.lines
        IN  shown("cwd1") \o shown("cwd2") = Prefix(path, 2 * StrMax)

DigitBit(digits, b) == (digits[Len(digits) - (b \div 4)] \div 2^(b % 4)) % 2 = 1
AmbientSet(digits) == {c \in DOMAIN CapMap : CapMap[c] < 4 * Len(digits)
                                               /\ DigitBit(digits, CapMap[c])}

InBitOrder(names) == \A i, j \in DOMAIN names : i < j => CapMap[names[i]] < CapMap[names[j]]

\* The capability record names those of the kernel's mask, hexadecimal without
\* a prefix, that it knows, in the order of their bits (tblProcStatus.cpp 98-102,
\* devcap.cpp 57-72).
CapsNamed ==
    Fresh("procStatus") =>
        \A i \in DOMAIN source.lines :
            LET line == source.lines[i]
                names == Capabilities(Value("CapAmb"), 4)
            IN  line[1] = "CapAmb" /\ Published("CapAmb") =>
                    /\ Range(names) = AmbientSet(line[2])
                    /\ InBitOrder(names)

\* The server's statistics are not asked for before the servers run, whoever
\* updates the table during the start (tblProcPDB.cpp 61-62).
ServerStatsLate ==
    Fresh("pdb") /\ DOMAIN current \cap QueueNames # {} => phase = "serving"

-----------------------------------------------------------------------------
(* The records of Db/logicHost.template and Db/linStatFS.db                *)

\* "difference between persistant RTC and CPU system clock" (logicHost.template
\* 169): there is none if the clock is right.
ExactClock ==
    Fresh("rtc") /\ source.lines.time /\ source.lines.date /\ source.lines.error = 0 =>
        Value("delta") = 0

\* LOLO is 134217728, "128MB"; available space is published in MB.
Lolo == 128 * MB
AvailSevere(val) == val <= Lolo

\* The severe alarm of "available bytes" means that less than 128 MB are left.
AvailAlarm ==
    Fresh("statvfs") /\ ~source.fails /\ AvailSevere(Value("avail")) =>
        source.bsize * source.bavail <= 128 * MB
===============================================================================
