-------------------------------- MODULE Tables --------------------------------
(***************************************************************************)
(* One table of any kind from its lookup by the records' init_record()     *)
(* (devstat.cpp, tblBase.cpp) through its updates to what the records      *)
(* show.  What update() reads is chosen anew for each update; what a table *)
(* keeps from one to the next is a variable.  update(), and a record's     *)
(* reading under the table's lock, are one step each: their interleaving   *)
(* is the subject of Scanning.                                             *)
(***************************************************************************)
EXTENDS ProcessTables, Records

CONSTANTS
    Kinds,          \* the factories, and "env": no table but getParam.c
    Recs,           \* the records
    Links(_),       \* what the INP fields of a kind's records may be
    Sources(_, _),  \* what the update() of a kind may find at a time
    Drivers,        \* what the constructor of ethtool may find
    Environments,   \* what an environment variable may be
    Horizon,        \* bound: the time of the last update
    MaxSuspend      \* bound: suspended tasks

ASSUME TablesAssumption ==
    Horizon \in Nat /\ MaxSuspend \in Nat /\ ValSize = StrMax + 1 /\ IsFiniteSet(Recs)

\* The factories, and the record types with a device support of devstat.cpp;
\* "time" is the ai record "Linux Stat Time", and mbbi is read like bi.
Factories == {"irq", "netstat", "stat", "memInfo", "uptime", "host", "statvfs", "rtc", "hwmon",
              "ethtool", "ifstat", "pid", "procStat", "procStatus", "fd", "mallinfo", "pdb"}
Types == {"int64in", "longin", "bi", "ai", "stringin", "lsi", "time"}
ASSUME KindsAssumption ==
    /\ Kinds \subseteq Factories \cup {"env"}
    /\ \A k \in Kinds : \A link \in Links(k) : link.type \in Types

\* The form of what is read, and what a file system and a clock tell of itself.
Readable(k, s, now) ==
    CASE k = "irq" -> s # NoFile =>
             /\ DOMAIN s.lines \subseteq Nat \ {0} /\ IsFiniteSet(DOMAIN s.lines)
             /\ \A l \in DOMAIN s.lines : s.lines[l] \in Seq(Int)
      [] k = "netstat" -> s # NoFile =>
             s.lines \in Seq([table : STRING, names : Seq(STRING), vals : Seq(Int), agree : BOOLEAN])
      [] k = "stat" -> s # NoFile => s.lines \in Seq(Int)
      [] k = "memInfo" -> s # NoFile => s.lines \in Seq(STRING \X Int)
      [] k = "host" -> s.ncpu \in Int
      [] k = "procStat" -> s # NoFile =>
             s.lines \in [match : BOOLEAN, pid : Int, name : STRING, state : STRING, columns : Seq(Int)]
      [] k = "statvfs" ->
             /\ s \in [fails : BOOLEAN, frsize : Nat, bsize : Nat, blocks : Nat, bavail : Nat,
                       files : Nat, favail : Nat]
             /\ s.bavail <= s.blocks
      [] k = "rtc" -> s # NoFile =>
             LET clock == s.lines
             IN  /\ clock.error \in Int /\ clock.zone \in Int /\ clock.saving \in Int
                 /\ clock.utc \in BOOLEAN
                 /\ clock.digits = now + clock.error
                                  + IF clock.utc THEN 0 ELSE clock.zone + clock.saving
                 /\ clock.batt \in DOMAIN Battery /\ clock.keys \in SUBSET STRING
      [] k = "pid" ->
             /\ \A path \in {s.exe, s.cwd} : path # NoFile => path.lines \in Seq(Nat)
             /\ \A r \in DOMAIN s.limits : s.limits[r] \in Int \X Int
      [] k = "procStatus" -> s # NoFile =>
             /\ s.lines \in Seq(STRING \X Seq(0 .. 15))
             /\ \A i, j \in DOMAIN s.lines : s.lines[i][1] = s.lines[j][1] => i = j
      [] k = "hwmon" -> s # NoFile =>
             s.lines \in Seq([name : STRING, gone : BOOLEAN,
                              temps : Seq([id : STRING, label : STRING, input : Int]),
                              fans : Seq([id : STRING, label : STRING,
                                          input : Int, target : Int])])
      [] k = "ethtool" ->
             /\ s.stats # NoFile => s.stats.lines \in Seq(Nat)
             /\ s.link # NoFile => s.link.lines \in [speed : Int, duplex : Int]
      [] k = "ifstat" ->
             s.flags \in Int /\ s.attributes \in Seq([type : STRING, size : Nat, value : Int])
      [] k = "fd" -> s # NoFile => IsFiniteSet(s.lines)
      [] k \in {"mallinfo", "pdb"} -> s.n \in Int
      [] k = "uptime" -> TRUE

ASSUME SourcesAssumption ==
    \A k \in Kinds \ {"env"}, now \in 1 .. Horizon :
        \A s \in Sources(k, now) : Readable(k, s, now)

\* The buffer for the values of the statistics has room for one of each name.
ASSUME DriversAssumption ==
    \A d \in Drivers : HasNames(d) /\ d.names # NoFile =>
        /\ d.names.lines \in Seq([name : STRING, drop : BOOLEAN, rx : BOOLEAN, tx : BOOLEAN])
        /\ "ethtool" \in Kinds => \A now \in 1 .. Horizon : \A s \in Sources("ethtool", now) :
               s.stats # NoFile => Len(d.names.lines) <= Len(s.stats.lines)

ASSUME EnvironmentsAssumption == Environments \subseteq [set : BOOLEAN, text : Seq(Chars)]

VARIABLES
    kind,           \* the factory, and with it the table's update()
    links,          \* per record: good, type, param
    handle,         \* per record: the table in dpvt
    registry,       \* gbl.tables[key]
    made,           \* tables made so far
    phase,          \* of iocInit()
    source, time, ok,       \* of the last update: time is currentTime
    current,                \* the published values
    prev,                   \* IRQTable::prev
    info,                   \* EthtoolTable's constants
    hooked, started,        \* the hook of tblProcPDB, markDBServStarted
    nsuspend,               \* PDBTable::nsuspend
    recs,           \* what the records show
    seen, got,      \* bookkeeping: time and value when a record was processed
    env, param      \* a variable, and the record of getParam.c

iocVars == <<kind, links, handle, registry, made, phase>>
tableVars == <<source, time, ok, current, prev, info>>
pdbVars == <<hooked, started, nsuspend>>
recVars == <<recs, seen, got, env, param>>
vars == <<iocVars, tableVars, pdbVars, recVars>>

NotYet == -1        \* before init_record()
Failed == 0         \* init_record() failed: dpvt is null
Absent == [absent |-> TRUE]
Blank == [val |-> Integer(0), time |-> 0, alarm |-> "UDF"]

Init ==
    /\ kind \in Kinds /\ links \in [Recs -> Links(kind)]
    /\ handle = [r \in Recs |-> NotYet]
    /\ registry = Failed /\ made = 0 /\ phase = "build"
    /\ source = NoFile /\ time = 0 /\ ok = FALSE
    /\ current = Nothing /\ prev = Nothing /\ info = NoFile
    /\ hooked = FALSE /\ started = FALSE /\ nsuspend = 0
    /\ recs = [r \in Recs |-> Blank]
    /\ seen = [r \in Recs |-> 0] /\ got = [r \in Recs |-> Absent]
    /\ env = [set |-> FALSE, text |-> <<>>]
    /\ param = [val |-> <<>>, time |-> 0, alarm |-> "UDF"]

-----------------------------------------------------------------------------
(* update() of the kind, a virtual function                                *)

Outcome(s, now) ==
    CASE kind = "irq" -> Irq(s, prev, time, now)
      [] kind = "netstat" -> Netstat(s)
      [] kind = "stat" -> Stat(s)
      [] kind = "memInfo" -> MemInfo(s)
      [] kind = "uptime" -> Uptime(s)
      [] kind = "host" -> Host(s)
      [] kind = "statvfs" -> StatVFS("path", s)
      [] kind = "rtc" -> RTC(s, now)
      [] kind = "hwmon" -> HWMon(s)
      [] kind = "ethtool" -> Ethtool(info', s)
      [] kind = "ifstat" -> NewLink("name", s)
      [] kind = "pid" -> Pid(100, s)
      [] kind = "procStat" -> ProcStat(s)
      [] kind = "procStatus" -> ProcStatus(s)
      [] kind = "fd" -> FD(s)
      [] kind = "mallinfo" -> Mallinfo(s.n)
      [] kind = "pdb" -> PDB(Cardinality(Recs), nsuspend, started, s.n)

\* Whether or not it returns, the transaction publishes and moves the time.
Fetch ==
    \E now \in time + 1 .. Horizon : \E s \in Sources(kind, now) :
        LET outcome == Outcome(s, now)
        IN  /\ source' = s /\ time' = now
            /\ current' = outcome.next /\ ok' = outcome.ok
            /\ prev' = IF kind = "irq" THEN PrevAfter(s, prev) ELSE prev

-----------------------------------------------------------------------------
(* init_record(): parse the link, find or make the table                   *)

Initialise(r, h) ==
    /\ phase = "build" /\ handle[r] = NotYet /\ kind # "env"
    /\ handle' = [handle EXCEPT ![r] = h]
    /\ UNCHANGED <<kind, links, phase, recVars>>

\* An ill-formatted link, an unknown factory, an instance its table refuses;
\* the hook of tblProcPDB is registered before the instance is looked at.
BadLink(r) ==
    /\ links[r].why # "good"
    /\ Initialise(r, Failed)
    /\ hooked' = (hooked \/ (kind = "pdb" /\ links[r].why = "instance"))
    /\ UNCHANGED <<registry, made, tableVars, started, nsuspend>>

FindTable(r) ==
    /\ links[r].why = "good" /\ registry # Failed
    /\ Initialise(r, registry)
    /\ UNCHANGED <<registry, made, tableVars, pdbVars>>

\* mutant: the new table is not entered
Forget(id) == UNCHANGED registry
Enter(id) == registry' = id

\* The first update is made here; also one that fails leaves a table.
MakeTable(r) ==
    /\ links[r].why = "good" /\ registry = Failed
    /\ IF kind = "ethtool"
       THEN \E d \in Drivers : ~EthtoolFails(d) /\ info' = EthtoolInfo(d)
       ELSE info' = info
    /\ made' = made + 1
    /\ Enter(made + 1)
    /\ Initialise(r, made + 1)
    /\ Fetch
    /\ hooked' = (hooked \/ kind = "pdb")
    /\ UNCHANGED <<started, nsuspend>>

\* The constructor throws; the next record's lookup tries again.
MakeFails(r) ==
    /\ links[r].why = "good" /\ registry = Failed
    /\ kind = "ethtool" /\ \E d \in Drivers : EthtoolFails(d)
    /\ Initialise(r, Failed)
    /\ UNCHANGED <<registry, made, tableVars, pdbVars>>

IocRuns ==
    /\ phase = "build" /\ \A r \in Recs : handle[r] # NotYet
    /\ phase' = "run"
    /\ UNCHANGED <<kind, links, handle, registry, made, tableVars, pdbVars, recVars>>

\* The hook after the start of the servers.
ServerRuns ==
    /\ phase = "run"
    /\ phase' = "serving" /\ started' = hooked
    /\ UNCHANGED <<kind, links, handle, registry, made, tableVars, hooked, nsuspend, recVars>>

-----------------------------------------------------------------------------
(* The running IOC                                                         *)

Update ==
    /\ phase # "build" /\ registry # Failed
    /\ UNCHANGED <<info, iocVars, pdbVars, recVars>>
    /\ Fetch

\* The task watchdog tells that a task was suspended; nothing is told of its
\* being resumed.
Suspend ==
    /\ kind = "pdb" /\ registry # Failed /\ nsuspend < MaxSuspend
    /\ nsuspend' = nsuspend + 1
    /\ UNCHANGED <<iocVars, tableVars, hooked, started, recVars>>

Process(r) ==
    /\ phase # "build" /\ handle[r] # Failed
    /\ recs' = [recs EXCEPT ![r] =
           IF links[r].type = "time" THEN ReadTime(time)
           ELSE ReadValue(@, links[r].type, current, links[r].param, time)]
    /\ seen' = [seen EXCEPT ![r] = time]
    /\ got' = [got EXCEPT ![r] =
           IF links[r].type = "time" THEN Float(<<time, 1>>)
           ELSE IF links[r].param \in DOMAIN current THEN current[links[r].param] ELSE Absent]
    /\ UNCHANGED <<iocVars, tableVars, pdbVars, env, param>>

\* "Init Fail"
ProcessFailed(r) ==
    /\ phase # "build" /\ handle[r] = Failed
    /\ recs' = [recs EXCEPT ![r] = Alarm(@, "COMM")]
    /\ UNCHANGED <<iocVars, tableVars, pdbVars, seen, got, env, param>>

\* A record of getParam.c is processed after the variable was set, or not.
ProcessParam ==
    /\ kind = "env"
    /\ env' \in Environments
    /\ param' = ReadParam(param, env'.set, env'.text)
    /\ UNCHANGED <<iocVars, tableVars, pdbVars, recs, seen, got>>

InitRecord(r) == BadLink(r) \/ FindTable(r) \/ MakeTable(r) \/ MakeFails(r)

Next ==
    \/ \E r \in Recs : InitRecord(r) \/ Process(r) \/ ProcessFailed(r)
    \/ IocRuns \/ ServerRuns \/ Update \/ Suspend \/ ProcessParam

Spec == Init /\ [][Next]_vars
===============================================================================
