------------------------------ MODULE HostTables ------------------------------
(***************************************************************************)
(* The update() of the tables that describe the host: tblIRQ, tblNetstat,  *)
(* tblStat, tblMemInfo, tblUptime, tblHost, tblStatVFS and tblRTC of       *)
(* statApp/src.  What a line of a file holds is given already split: names *)
(* are members of a small set, numbers are numbers or Bad.                 *)
(***************************************************************************)
EXTENDS Values, Widths, FiniteSetsExt

CONSTANT MB     \* 2^20, scaled down

ASSUME UnitAssumption == MB \in Nat \ {0}

-----------------------------------------------------------------------------
(* irq: /proc/interrupts is a function from the labels, numbered in the    *)
(* order of std::map, to their columns, one per CPU.  As a text a label is *)
(* its number, and no label is empty.                                      *)

Good(columns) == [i \in DOMAIN columns |-> IF columns[i] = Bad THEN 0 ELSE columns[i]]
Sum(s) == FoldLeft(LAMBDA a, b : a + b, 0, s)

\* readirq(): a column that is no number adds nothing.
Counts(file) == [l \in DOMAIN file.lines |-> Sum(Good(file.lines[l])) % DWord]

\* mutant: the first count of a new label is taken for a change, of nothing
DeltaFromZero(counts, prev, l) == counts[l]
Delta(counts, prev, l) ==
    IF l \in DOMAIN prev THEN (counts[l] - prev[l]) % DWord ELSE counts[l]

TotalCount(counts) == MapThenSumSet(LAMBDA l : counts[l], DOMAIN counts) % DWord

\* prev and since are of the last update that returned and of the last at all.
Irq(file, prev, since, now) ==
    IF file = NoFile THEN Throws(Nothing)
    ELSE LET counts == Counts(file)
             delta == [l \in DOMAIN counts |-> Delta(counts, prev, l)]
             max == Max({0} \cup Range(delta))
             most == {l \in DOMAIN delta : max > 0 /\ delta[l] = max}
         IN  Returns(Named({<<"total_irq", Integer(Signed(TotalCount(counts), DWord))>>,
                            <<"max_irq", Float(<<max, now - since>>)>>,
                            <<"max_irq_name", Text(IF most = {} THEN <<>> ELSE <<Min(most)>>)>>}))

PrevAfter(file, prev) == IF file = NoFile THEN prev ELSE Counts(file)

-----------------------------------------------------------------------------
(* netstat: pairs of lines, of names and of values.  A pair is taken as    *)
(* far as its values go; it is ill-formatted if the lines name different   *)
(* tables, if a value is no number, and if either line has more to say,    *)
(* but for one name: the loop has then read both lines to their end.       *)

LeadingGood(vals) ==
    LET bad == {i \in DOMAIN vals : vals[i] = Bad}
    IN  IF bad = {} THEN Len(vals) ELSE Min(bad) - 1

Columns(pair) ==
    IF ~pair.agree THEN Nothing
    ELSE LET n == Min({Len(pair.names), LeadingGood(pair.vals)})
         IN  Named({<<pair.table \o pair.names[i], Integer(pair.vals[i])>> : i \in 1 .. n})

\* mutant: only failed conversions are noticed
NoBadValue(pair) == pair.agree /\ LeadingGood(pair.vals) = Len(pair.vals)
WellFormatted(pair) ==
    /\ pair.agree
    /\ LeadingGood(pair.vals) = Len(pair.vals)
    /\ Len(pair.names) - Len(pair.vals) \in {0, 1}

Netstat(file) ==
    IF file = NoFile THEN Throws(Nothing)
    ELSE LET ill == {i \in DOMAIN file.lines : ~WellFormatted(file.lines[i])}
         IN  IF ill = {} THEN Returns(OverLines(Columns, file.lines))
             ELSE Throws(OverLines(Columns, SubSeq(file.lines, 1, Min(ill))))

-----------------------------------------------------------------------------
(* stat, and the columns of procStat: numbered, good or bad.               *)

\* mutant: a column that is no number is not numbered
NextIfGood(column, n) == IF n = Bad THEN column ELSE column + 1
NextColumn(column, n) == column + 1

ColumnName(prefix, i) == prefix \o ToString(i)

\* One more column was read.
WithColumn(prefix, at, n) ==
    [column |-> NextColumn(at.column, n),
     next |-> IF n = Bad THEN at.next
              ELSE Over(One(ColumnName(prefix, at.column), Integer(n)), at.next)]

Numbered(prefix, first, tokens) ==
    FoldLeft(LAMBDA at, n : WithColumn(prefix, at, n),
             [column |-> first, next |-> Nothing], tokens).next

\* The columns of the line "cpu " are counted from 2; no such line, no values.
Stat(file) == Returns(IF file = NoFile THEN Nothing ELSE Numbered("cpu:", 2, file.lines))

-----------------------------------------------------------------------------
(* memInfo: lines <<key, number>>, other lines have a Bad number.  One     *)
(* that no long holds ends the update.                                     *)
MemLine(line) == IF line[2] = Bad THEN Nothing ELSE One(line[1], Integer(line[2]))
MemInfo(file) ==
    IF file = NoFile THEN Returns(Nothing)
    ELSE LET large == {i \in DOMAIN file.lines : file.lines[i][2] > LongMax}
         IN  IF large = {} THEN Returns(OverLines(MemLine, file.lines))
             ELSE Throws(OverLines(MemLine, SubSeq(file.lines, 1, Min(large) - 1)))

\* uptime: the first number of the line.
Uptime(file) ==
    Returns(IF file = NoFile \/ file.lines[1] = Bad THEN Nothing
            ELSE One("uptime", Float(<<file.lines[1], 1>>)))

\* host: uname() may fail, the number of CPUs is always known.
UnameFields == {"sysname", "nodename", "release", "version", "machine"}
Host(sys) ==
    Returns(Over(One("ncpu", Integer(sys.ncpu)),
                 IF sys.uname THEN [f \in UnameFields |-> Text(f)] ELSE Nothing))

-----------------------------------------------------------------------------
(* statvfs: free and total space in MB, each in the unit of its field.     *)

ToMBDown(b) == b \div MB      \* mutant: rounding down
ToMB(b) == (b + MB - 1) \div MB

StatVFS(path, fs) ==
    Returns(Named({<<"path", Text(path)>>} \cup
                  (IF fs.fails THEN {}
                   ELSE {<<"size", Integer(ToMB(fs.frsize * fs.blocks))>>,
                         <<"avail", Integer(ToMB(fs.bsize * fs.bavail))>>,
                         <<"isize", Integer(fs.files)>>, <<"iavail", Integer(fs.favail)>>})))

-----------------------------------------------------------------------------
(* rtc: the file is a record of the keys it has, its batt_status, whether  *)
(* rtc_time and rtc_date were parsed, and what they say, in seconds.  The  *)
(* file's zone is how far the local standard time is ahead of UTC; while   *)
(* daylight saving is in effect, local time is further ahead.              *)

Battery == [absent |-> 0, bad |-> 1, dead |-> 1, okay |-> 2, other |-> 3]
Distance(a, b) == IF a > b THEN a - b ELSE b - a

FartherIsLocal(utc, local) == local <= utc    \* mutant: the same offset is local
LocalIsNearer(utc, local) == local < utc

\* timegm() takes the clock's digits for UTC, mktime() for local time: standard
\* time, tm_isdst being 0, whether or not daylight saving is in effect.
RTC(file, now) ==
    IF file = NoFile THEN Throws(Nothing)
    ELSE LET clock == file.lines
             utc == Distance(now, clock.digits)
             local == Distance(now, clock.digits - clock.zone)
             ref == IF LocalIsNearer(utc, local) THEN 1 ELSE 0
             compared == {<<"ref", Integer(ref)>>,
                          <<"delta", Integer(IF local < utc THEN local ELSE utc)>>}
         IN  Returns(Over(Named({<<"battery", Integer(Battery[clock.batt])>>} \cup
                                IF clock.time /\ clock.date THEN compared ELSE {}),
                          [k \in {"rtc:" \o key : key \in clock.keys} |-> Text(k)]))
===============================================================================
