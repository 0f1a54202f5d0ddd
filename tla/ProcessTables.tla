---------------------------- MODULE ProcessTables -----------------------------
(***************************************************************************)
(* The update() of the tables that describe the IOC's own process: tblPid, *)
(* tblProcStat, tblProcStatus, tblProcFD, tblProcMallinfo and tblProcPDB   *)
(* of statApp/src.                                                         *)
(***************************************************************************)
EXTENDS HardwareTables

CONSTANTS
    StrMax      \* MAX_STRING_SIZE - 1, what a stringin record holds

ASSUME ProcessAssumption == StrMax \in Nat \ {0}

-----------------------------------------------------------------------------
(* pid: a path of any length is read whole, the scratch buffer grows with  *)
(* it; the directory is also given in two pieces for stringin records.     *)

\* mutant: the second piece starts one too late
RestAfter(s) == SubSeq(s, StrMax + 2, Min({3 * StrMax + 1, Len(s)}))
Rest(s) == SubSeq(s, StrMax + 1, Min({3 * StrMax, Len(s)}))

Directory(cwd) ==
    Named({<<"cwd", Text(cwd)>>, <<"cwd1", Text(Prefix(cwd, StrMax))>>,
           <<"cwd2", Text(Rest(cwd))>>})

\* A limit is a pair, current and largest; RLIM_INFINITY is all ones.
Limits(limits) ==
    Named({<<r, Integer(Signed(limits[r][1], DWord))>> : r \in DOMAIN limits} \cup
          {<<r \o ":MAX", Integer(Signed(limits[r][2], DWord))>> : r \in DOMAIN limits})

Pid(ticks, self) ==
    Returns(Over(One("ticks_per_sec", Integer(ticks)),
            Over(IF self.exe = NoFile THEN Nothing ELSE One("exe", Text(self.exe.lines)),
            Over(IF self.cwd = NoFile THEN Nothing ELSE Directory(self.cwd.lines),
                 Limits(self.limits)))))

-----------------------------------------------------------------------------
(* procStat: "pid (name) state" and the columns from the 4th.              *)

NoPrefix == ""

ProcStat(file) ==
    Returns(IF file = NoFile \/ ~file.lines.match THEN Nothing
            ELSE Over(Named({<<ColumnName(NoPrefix, 1), Integer(file.lines.pid)>>,
                             <<ColumnName(NoPrefix, 2), Text(file.lines.name)>>,
                             <<ColumnName(NoPrefix, 3), Text(file.lines.state)>>}),
                      Numbered(NoPrefix, 4, file.lines.columns)))

-----------------------------------------------------------------------------
(* procStatus: lines <<key, digits>>, a digit being 0 .. 15; no digits if  *)
(* the line has another form.  An "0x" is not among the digits.            *)

Bitmaps == {"SigPnd", "ShdPnd", "SigBlk", "SigIgn", "SigCgt",
            "CapInh", "CapEff", "CapBnd", "CapAmb", "Cpus_allowed"}

\* mutant: all keys are read as std::stol finds them
GuessedBase(key, digits) == IF Head(digits) = 0 THEN 8 ELSE 10
Base(key, digits) ==
    IF key \in Bitmaps THEN 16 ELSE IF Head(digits) = 0 THEN 8 ELSE 10

\* std::stol takes the digits as far as they are of the base.
Accepted(base, digits) ==
    LET wrong == {i \in DOMAIN digits : digits[i] >= base}
    IN  IF wrong = {} THEN digits ELSE SubSeq(digits, 1, Min(wrong) - 1)

Evaluated(base, digits) ==
    LET value[n \in 0 .. Len(digits)] == IF n = 0 THEN 0 ELSE value[n - 1] * base + digits[n]
    IN  value[Len(digits)]

\* A line of another form, without a digit of the base or out of range is skipped.
StatusLine(line) ==
    IF line[2] = <<>> THEN Nothing
    ELSE LET base == Base(line[1], line[2])
             digits == Accepted(base, line[2])
             n == Evaluated(base, digits)
         IN  IF digits = <<>> \/ n > LongMax THEN Nothing ELSE One(line[1], Integer(n))

ProcStatus(file) == Returns(IF file = NoFile THEN Nothing ELSE OverLines(StatusLine, file.lines))

-----------------------------------------------------------------------------
\* fd: the entries of the directory but "." and "..".
FD(dir) ==
    IF dir = NoFile THEN Throws(Nothing)
    ELSE Returns(One("FD_CNT", Integer(Cardinality(dir.lines \ {".", ".."}))))

\* mallinfo: a copy of what the allocator says.
MallFields == {"arena", "ordblks", "hblks", "hblkhd", "uordblks", "fordblks", "keepcost"}
Mallinfo(info) == Returns([f \in MallFields |-> Integer(info)])

-----------------------------------------------------------------------------
(* pdb: the queues are asked only once the server has been announced.      *)

QueueNames ==
    {"rsrv:nchan", "rsrv:nconn", "once:size", "once:used", "once:used:max", "once:oflows",
     "cb:size", "cb:low:used", "cb:low:used:max", "cb:low:oflows", "cb:med:used",
     "cb:med:used:max", "cb:med:oflows", "cb:high:used", "cb:high:used:max", "cb:high:oflows"}

AnyTime(started) == TRUE      \* mutant: the first update asks the server, too
MayAsk(started) == started

PDB(nrec, nsuspend, started, queues) ==
    Returns(Over(Named({<<"nrec", Integer(nrec)>>, <<"nsuspend", Integer(nsuspend)>>}),
                 IF MayAsk(started) THEN [n \in QueueNames |-> Integer(queues)] ELSE Nothing))
===============================================================================
