------------------------------- MODULE MCTables -------------------------------
(***************************************************************************)
(* Small instances of TablePromises for TLC: for each kind of table a set  *)
(* of what its update() may find, chosen to hold the awkward cases.        *)
(***************************************************************************)
EXTENDS TablePromises

CONSTANTS r1, r2

TwoRecs == {r1, r2}
Symmetry == Permutations(TwoRecs)
AllKinds == Factories \cup {"env"}
OnlyStatVFS == {"statvfs"}
OnlyRTC == {"rtc"}

-----------------------------------------------------------------------------
(* Records: what the databases of statApp/Db link to, and links that fail  *)

LinkTo(type, name) == [why |-> "good", type |-> type, param |-> name]
BadLinks == {[why |-> w, type |-> "int64in", param |-> "ncpu"] : w \in {"format", "instance"}}

Linked ==
    [irq |-> {LinkTo("int64in", "total_irq"), LinkTo("ai", "max_irq")},
     netstat |-> {LinkTo("int64in", "T:b")},
     stat |-> {LinkTo("int64in", "cpu:3")},
     memInfo |-> {LinkTo("int64in", "MemFree"), LinkTo("stringin", "MemFree")},
     uptime |-> {LinkTo("ai", "uptime"), LinkTo("longin", "uptime")},
     host |-> {LinkTo("longin", "ncpu"), LinkTo("stringin", "nodename"), LinkTo("ai", "nodename")},
     statvfs |-> {LinkTo("int64in", "avail")},
     rtc |-> {LinkTo("longin", "delta"), LinkTo("bi", "ref")},
     hwmon |-> {LinkTo("longin", "temp_max")},
     ethtool |-> {LinkTo("longin", "speed"), LinkTo("int64in", "rx_dropped")},
     ifstat |-> {LinkTo("bi", "carrier"), LinkTo("int64in", "rx_packets")},
     pid |-> {LinkTo("lsi", "cwd"), LinkTo("stringin", "cwd2"), LinkTo("int64in", "NOFILE:MAX")},
     procStat |-> {LinkTo("int64in", "5")},
     procStatus |-> {LinkTo("int64in", "CapAmb")},
     fd |-> {LinkTo("time", "FD_CNT"), LinkTo("longin", "FD_CNT")},
     mallinfo |-> {LinkTo("longin", "arena")},
     pdb |-> {LinkTo("int64in", "nsuspend"), LinkTo("longin", "rsrv:nconn")},
     env |-> {}]

SmallLinks(k) == Linked[k] \cup BadLinks

-----------------------------------------------------------------------------
(* What an update finds                                                    *)

Interrupts == {File([l \in L |-> <<c[l], Bad>>]) : L \in {{1}, {1, 2}}, c \in [1 .. 2 -> {1, 4, 9}]}

Pair(t, names, vals, agree) == [table |-> t, names |-> names, vals |-> vals, agree |-> agree]
Pairs(t) == {Pair(t, <<"a", "b">>, vals, agree) :
                 vals \in {<<>>, <<5>>, <<5, 6>>, <<5, Bad>>, <<Bad, 6>>, <<5, 6, 7>>},
                 agree \in BOOLEAN}
NetstatFiles == {File(<<>>)} \cup {File(<<p>>) : p \in Pairs("T:")}
                \cup {File(<<p, q>>) : p \in Pairs("S:"),
                                       q \in {Pair("T:", <<"a", "b">>, <<5, 6>>, TRUE)}}

TokenLines == UNION {[1 .. n -> {Bad, 7, 8}] : n \in 0 .. 3}

Temp(id, label, input) == [id |-> id, label |-> label, input |-> input]
Fan(id, label, input, target) == [id |-> id, label |-> label, input |-> input, target |-> target]
Device(name, gone, temps, fans) == [name |-> name, gone |-> gone, temps |-> temps, fans |-> fans]
HwmonDevices ==
    {Device("a", FALSE, <<Temp("temp1", "x", -50), Temp("temp2", "x", -45), Temp("temp3", "", Bad)>>,
            <<>>),
     Device("a", FALSE, <<Temp("temp1", "", 99)>>, <<>>),
     Device("b", FALSE, <<Temp("temp1", "temp2", 30), Temp("temp2", "", 30)>>,
            <<Fan("fan1", "", 100, 100), Fan("fan2", "", 0, 90), Fan("fan3", "fan1", Unread, 0),
              Fan("fan4", "", Bad, Bad), Fan("fan5", "", Unread, Unread)>>),
     Device("c", FALSE, <<Temp("temp1", "", Bad)>>, <<>>),
     Device("d", FALSE, <<>>, <<>>),
     Device("e", TRUE, <<>>, <<>>),
     Device("f", FALSE, <<Temp("temp1", "x.0", 40), Temp("temp10", "x", 50), Temp("temp2", "x", 45)>>,
            <<Fan("fan1", "x", 0, 50), Fan("fan2", "x.0", 80, 0)>>),
     Device("f.x", FALSE, <<Temp("temp1", "0", 60)>>, <<>>),
     Device("g", FALSE, <<Temp("temp1", "y", Bad), Temp("temp2", "y", Unread), Temp("temp3", "", 257)>>,
            <<>>),
     Device("", FALSE, <<Temp("temp1", "", 99)>>, <<>>)}

Stat3(name, drop, rx, tx) == [name |-> name, drop |-> drop, rx |-> rx, tx |-> tx]
ThreeStats == <<Stat3("rx_drops", TRUE, TRUE, FALSE), Stat3("rx_tx_discards", TRUE, TRUE, TRUE),
                Stat3("tx_dropped", TRUE, FALSE, TRUE), Stat3("tx_bytes", FALSE, FALSE, TRUE)>>
Driver(supported, names, nwords) ==
    [supported |-> supported, nstats |-> 4, names |-> names, nwords |-> nwords]
SomeDrivers == {Driver(FALSE, NoFile, 0), Driver(TRUE, NoFile, 0), Driver(TRUE, File(<<>>), -1),
                Driver(TRUE, File(ThreeStats), -1), Driver(TRUE, File(ThreeStats), 0)}
NicStats == {NoFile, File(<<1, 2, 4, 8>>), File(<<500, 200, 600, 0>>)}
NicLinks == {NoFile, File([speed |-> 1000, duplex |-> 1]), File([speed |-> 255, duplex |-> 255])}

Attr(type, size) == [type |-> type, size |-> size, value |-> 3]
LinkMessages ==
    {<<>>, <<Attr("IFLA_STATS64", 192), Attr("IFLA_CARRIER", 1)>>, <<Attr("IFLA_STATS64", 184)>>,
     <<Attr("IFLA_MTU", 4), Attr("IFLA_QDISC", 4), Attr("IFLA_CARRIER", 1)>>}

Path(n) == [i \in 1 .. n |-> i]
NoneOr(files) == {NoFile} \cup {File(f) : f \in files}

StatusLines ==
    {<<"CapAmb", <<d5, 0, d3, 0, 0, d0>>>> : d5 \in {0, 2, 8, 10}, d3 \in {0, 1, 4, 5}, d0 \in {0, 15}}
    \cup {<<"Umask", <<0, 2, 2>>>>, <<"Mems", <<15>>>>, <<"Name", <<>>>>, <<"Threads", <<1, 2>>>>}

Clocks(now) ==
    {[keys |-> {"rtc_time", "rtc_date"}, batt |-> b, time |-> parsed, date |-> TRUE,
      digits |-> now + e + (IF utc THEN 0 ELSE zone + saving),
      error |-> e, utc |-> utc, zone |-> zone, saving |-> saving] :
        b \in {"absent", "dead"}, parsed \in BOOLEAN, utc \in BOOLEAN,
        e \in {-2, -1, 0, 2}, zone \in {-4, 0, 5}, saving \in {0, 1}}

FileSystems ==
    {[fails |-> f, frsize |-> fr, bsize |-> b, blocks |-> 300, bavail |-> a, files |-> 9, favail |-> 7] :
        f \in BOOLEAN, fr \in {1, 4}, b \in {1, 4}, a \in {0, 1, 250, 300}}

Found(k, now) ==
    CASE k = "irq" -> {NoFile} \cup Interrupts
      [] k = "netstat" -> {NoFile} \cup NetstatFiles
      [] k = "stat" -> NoneOr(TokenLines)
      [] k = "memInfo" -> NoneOr({<<<<"MemFree", 300>>, <<"HugePages", Bad>>>>, <<>>,
                                      <<<<"MemTotal", 400>>, <<"Large", LongMax + 1>>, <<"MemFree", 300>>>>})
      [] k = "uptime" -> NoneOr({<<12>>, <<Bad>>})
      [] k = "host" -> {[uname |-> u, ncpu |-> 300] : u \in BOOLEAN}
      [] k = "statvfs" -> FileSystems
      [] k = "rtc" -> {NoFile} \cup {File(c) : c \in Clocks(now)}
      [] k = "hwmon" -> NoneOr(UNION {[1 .. n -> HwmonDevices] : n \in 0 .. 2})
      [] k = "ethtool" -> {[stats |-> s, link |-> l] : s \in NicStats, l \in NicLinks}
      [] k = "ifstat" -> {[flags |-> 300, attributes |-> a] : a \in LinkMessages}
      [] k = "pid" -> {[exe |-> x, cwd |-> x, limits |-> l] :
                           x \in NoneOr({Path(n) : n \in {0, 4, 5, 6, 9, 10, 11, 16}}),
                           l \in {Nothing, "NOFILE" :> <<DWord - 1, DWord - 1>>}}
      [] k = "procStat" -> NoneOr({[match |-> m, pid |-> 12, name |-> "ioc", state |-> "R", columns |-> c] :
                                       m \in BOOLEAN, c \in TokenLines})
      [] k = "procStatus" -> {NoFile} \cup {File(<<l>>) : l \in StatusLines}
                             \cup {File(<<<<"Seccomp", <<0>>>>, l>>) : l \in StatusLines}
      [] k = "fd" -> NoneOr({{".", ".."}, {".", "..", "0", "1"}})
      [] k = "mallinfo" -> {[n |-> n] : n \in {5, 300}}
      [] k = "pdb" -> {[n |-> n] : n \in {0, 5}}

\* The rates need three updates, the other tables remember nothing.
SmallSources(k, now) == IF now <= 2 \/ k \in {"irq", "pdb"} THEN Found(k, now) ELSE {}

SmallEnvironments == {[set |-> n >= 0, text |-> [i \in 1 .. n |-> "x"]] : n \in -1 .. 8}
===============================================================================
