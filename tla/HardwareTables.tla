---------------------------- MODULE HardwareTables ----------------------------
(***************************************************************************)
(* The update() of the tables that ask drivers: tblHwmon and tblEthtool,   *)
(* and what tblIFStat takes from a link message (statApp/src).             *)
(***************************************************************************)
EXTENDS HostTables

-----------------------------------------------------------------------------
(* hwmon: devices in the order of readdir(), each a name ("" if it cannot  *)
(* be read), whether its directory can be opened, and its sensors in the   *)
(* order of std::map (temp1, temp10, temp2), each with its id, a label (""  *)
(* if none can be read), an input and, for a fan, a target.                *)

\* A device without a name, or with one already seen, is passed over.
Use(used, d) ==
    IF d.name = "" \/ \E i \in DOMAIN used : used[i].name = d.name
    THEN used
    ELSE Append(used, d)
Used(devices) == FoldLeft(Use, <<>>, devices)

\* A directory that is gone by now ends the update.
Opened(used) ==
    LET gone == {i \in DOMAIN used : used[i].gone}
    IN  IF gone = {} THEN used ELSE SubSeq(used, 1, Min(gone) - 1)

\* What std::stol refuses makes no entry for a temperature, the conversion
\* coming before the entry (C++17); toint() makes -1 of it for a fan.
HasTemp(s) == s.label # "" \/ s.input \notin {Bad, Unread}
HasFan(s) == s.label # "" \/ s.input # Unread \/ s.target # Unread
Listed(sensors, HasEntry(_)) == Restrict(sensors, {i \in DOMAIN sensors : HasEntry(sensors[i])})

Label(s) == IF s.label = "" THEN s.id ELSE s.label

\* mutant: sensors with the same label are not told apart
NoCount(sensors, i) == 0
LabelCount(sensors, i) ==
    Cardinality({j \in DOMAIN sensors : j < i /\ Label(sensors[j]) = Label(sensors[i])})

SensorName(dev, sensors, i) ==
    dev \o "." \o Label(sensors[i]) \o "." \o ToString(LabelCount(sensors, i))
LabelText(sensors, i) ==
    Label(sensors[i]) \o " [" \o ToString(LabelCount(sensors, i)) \o "]"

\* What an entry holds, as an int32_t: 0 if only the label was taken.
Temperature(s) == IF s.input \in {Bad, Unread} THEN 0 ELSE Signed(s.input, Word)
Speed(n) == IF n = Unread THEN 0 ELSE IF n = Bad THEN -1 ELSE Signed(n, Word)

Temps(d) ==
    LET temps == Listed(d.temps, HasTemp)
    IN  [i \in DOMAIN temps |-> [name |-> SensorName(d.name, temps, i),
                                 label |-> LabelText(temps, i),
                                 temp |-> Temperature(temps[i])]]
Fans(d) ==
    LET fans == Listed(d.fans, HasFan)
    IN  [i \in DOMAIN fans |-> [name |-> SensorName(d.name, fans, i),
                                label |-> LabelText(fans, i),
                                input |-> Speed(fans[i].input),
                                target |-> Speed(fans[i].target)]]

Sensors(d) ==
    Named({<<t.name \o ".temp", Integer(t.temp)>> : t \in Range(Temps(d))}
          \cup {<<f.name \o ".input", Integer(f.input)>> : f \in Range(Fans(d))}
          \cup {<<f.name \o ".target", Integer(f.target)>> : f \in Range(Fans(d))}
          \cup {<<s.name \o ".label", Text(s.label)>> : s \in Range(Temps(d)) \cup Range(Fans(d))})

\* The sensors of all devices, at their places.
Places(of) == UNION {{i} \X DOMAIN of[i] : i \in DOMAIN of}
Earlier(p, q) == p[1] < q[1] \/ (p[1] = q[1] /\ p[2] < q[2])
At(of, p) == of[p[1]][p[2]]

\* mutant: the initial maximum takes part
HottestFrom42(temps) ==
    {p \in Places(temps) : /\ At(temps, p).temp > -42
                           /\ \A q \in Places(temps) : At(temps, q).temp <= At(temps, p).temp}
\* The place of the first of the highest temperatures, if there is any.
Hottest(temps) ==
    {p \in Places(temps) : \A q \in Places(temps) :
        /\ At(temps, q).temp <= At(temps, p).temp
        /\ Earlier(q, p) => At(temps, q).temp < At(temps, p).temp}

\* A fan that turns, and one that stands still though it should turn.
Turning(f) == f.input # 0
Stuck(f) == f.input = 0 /\ f.target # 0

Count(fans, Test(_)) == Integer(Cardinality({p \in Places(fans) : Test(At(fans, p))}))

Summary(devices) ==
    LET temps == [i \in DOMAIN devices |-> Temps(devices[i])]
        fans == [i \in DOMAIN devices |-> Fans(devices[i])]
        hottest == Hottest(temps)
        max == At(temps, CHOOSE p \in hottest : TRUE)
    IN  Named({<<"temp_max", IF hottest = {} THEN NoValue ELSE Integer(max.temp)>>,
               <<"name_max", IF hottest = {} THEN NoValue ELSE Text(max.name)>>,
               <<"fans_num", Integer(Cardinality(Places(fans)))>>,
               <<"fans_turning", Count(fans, Turning)>>,
               <<"fans_stuck", Count(fans, Stuck)>>})

HWMon(dir) ==
    IF dir = NoFile THEN Throws(Nothing)
    ELSE LET used == Used(dir.lines)
         IN  IF Opened(used) # used THEN Throws(OverLines(Sensors, Opened(used)))
             ELSE Returns(Over(Summary(used), OverLines(Sensors, used)))

-----------------------------------------------------------------------------
(* ethtool: the constructor keeps the driver's statistics, each a name and *)
(* whether "drop" or "discard", "rx" and "tx" are found in it, and whether *)
(* the driver shakes hands on link settings.  It fails if a driver that    *)
(* has statistics does not name them.                                      *)

HasNames(driver) == driver.supported /\ driver.nstats > 0
EthtoolFails(driver) == HasNames(driver) /\ driver.names = NoFile
EthtoolInfo(driver) ==
    [supported |-> driver.supported, handshake |-> driver.nwords < 0,
     stats |-> IF HasNames(driver) THEN driver.names.lines ELSE <<>>]

DropsRX(stat) == stat.drop /\ stat.rx
EitherWay(stat) == stat.drop /\ stat.tx       \* mutant: both names, both sums
DropsTX(stat) == stat.drop /\ stat.tx /\ ~stat.rx

Total(stats, out, Test(_)) ==
    Sum([i \in DOMAIN stats |-> IF Test(stats[i]) THEN out[i] ELSE 0]) % DWord

Statistics(stats, nic) ==
    IF stats = <<>>
    THEN [n \in {"found_stat", "rx_dropped", "tx_dropped"} |-> Integer(0)]
    ELSE IF nic.stats = NoFile THEN Nothing
    ELSE LET out == nic.stats.lines
             found == \E i \in DOMAIN stats : DropsRX(stats[i]) \/ DropsTX(stats[i])
         IN  Over(Named({<<"rx_dropped", Integer(Signed(Total(stats, out, DropsRX), DWord))>>,
                         <<"tx_dropped", Integer(Signed(Total(stats, out, DropsTX), DWord))>>,
                         <<"found_stat", Integer(IF found THEN 1 ELSE 0)>>}),
                  OverAll([i \in DOMAIN stats |-> One("stat." \o stats[i].name,
                                                      Integer(Signed(out[i], DWord)))]))

Link(shakesHands, nic) ==
    IF shakesHands /\ nic.link # NoFile
    THEN Named({<<"speed", Integer(nic.link.lines.speed)>>,
                <<"duplex", Integer(nic.link.lines.duplex)>>})
    ELSE [n \in {"speed", "duplex"} |-> NoValue]

Ethtool(info, nic) ==
    Returns(Over(Statistics(info.stats, nic),
            Over(Link(info.handshake, nic),
                 [n \in {"driver", "version"} |-> Text(IF info.supported THEN n ELSE "N/A")])))

-----------------------------------------------------------------------------
(* ifstat: the attributes of a link message, each a type and a payload     *)
(* size; one whose payload is too short is ignored, like an unknown one.   *)

PayloadSize == [IFLA_STATS64 |-> 192, IFLA_OPERSTATE |-> 1, IFLA_CARRIER |-> 1,
                IFLA_LINKMODE |-> 1, IFLA_CARRIER_UP_COUNT |-> 4,
                IFLA_CARRIER_DOWN_COUNT |-> 4, IFLA_MTU |-> 4]

\* The counters of IFLA_STATS64 are represented by two of them.
Attributes == [IFLA_STATS64 |-> {"rx_packets", "tx_packets"},
               IFLA_OPERSTATE |-> {"operatate"}, IFLA_CARRIER |-> {"carrier"},
               IFLA_LINKMODE |-> {"linkmode"}, IFLA_CARRIER_UP_COUNT |-> {"carrier_up_count"},
               IFLA_CARRIER_DOWN_COUNT |-> {"carrier_down_count"}, IFLA_MTU |-> {"mtu"}]

Attribute(a) ==
    IF a.type \notin DOMAIN PayloadSize \/ a.size < PayloadSize[a.type] THEN Nothing
    ELSE [n \in Attributes[a.type] |-> Integer(a.value)]

NewLink(name, msg) ==
    Returns(Over(OverLines(Attribute, msg.attributes),
                 Named({<<"name", Text(name)>>, <<"if_flags", Integer(msg.flags)>>})))
===============================================================================
