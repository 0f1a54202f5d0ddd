# linStat: a verification development

linStat is an EPICS driver that serves Linux system and process statistics as
records of an IOC (Input/Output Controller).  This directory holds TLA+ models
of it, the TLC runs that check them on small instances, and theorems about them
that TLAPS checks for every value of the constants.  All paths below are
relative to the repository, `nlreact.cpp` and the like to `statApp/src/`.

To repeat the checks: `tlc -config reactor_jobs.cfg MCReactor` (and so on, one
`.cfg` per run below) and `tlapm` on `ReactorProofs.tla`,
`ScanningProofs.tla`, `IFStatProofs.tla`, `FoldLemmas.tla`, `TablesProofs.tla`,
`TableFoldProofs.tla`, `ShownProofs.tla` and `SensorProofs.tla`.

## 1. The system

### Components

**Reactor** (`nlreact.cpp`, `nlreact.h`).  One worker thread.  Other threads
`submit()` closures to it (jobs); it also owns a netlink route socket on which
`request()` sends messages and receives replies (operations).  State, under
`Pvt::lock`: `running`, the queues `todo` (jobs) and `ready` (messages to
send), the map `handlers` from sequence number to operation, `nextseq`; per job
`busy`, `done` and its closure; per operation `seq`, `busy`, `cancel` and its
closure.  Outside the lock: a pipe, written by `poke()` and emptied by the
worker, that wakes the worker from `poll()`.  Operations: `start`, `stop`,
`submit`, `request`, the deleters of the two kinds of handle, `report`.
Handles are the only references the callers keep; a deleter waits on a
condition variable while the callback executes, unless the callback itself
drops the handle.  Correct when no wake-up is lost, no callback runs after its
handle is gone, replies reach only the operation that asked, jobs run in order
and at most once, and `stop` finishes everything that was accepted.

**IOC hooks** (`iochooks.cpp`).  Start the reactor when the IOC runs, stop it
at exit.

**Statistics tables and transactions** (`linStat.h`, `tblBase.cpp`).  A table
has a map `current` from parameter to value and a time stamp, under
`StatTable::lock`.  `update()` builds a new map in a `Transaction` and publishes
it from the destructor, then posts the table's I/O Intr scan list.  Correct when
a record's value and time stamp come from one publication, and every record
shows the last publication in the end.

**Table registry** (`tblBase.cpp`).  `StatTable::lookup` finds or creates a
table per (factory, instance) under `Gbl::lock`; the map holds weak pointers.
Correct when all records that name a table share it, whatever failed before.

**Device support** (`devstat.cpp`).  Processing a SCAN record submits a job that
updates its table and drops the previous handle; reading records copy one
parameter, with conversion to the record's width and a time stamp.  Correct when
a SCAN record never blocks for good, never starves its own table, and a reading
record stores what the table holds.

**Network interface table** (`tblIFStat.cpp`).  The one table that is
asynchronous: `update()` sends a query through the reactor and the reply
publishes.  A query without an answer for a second is abandoned.  Correct when
there is at most one outstanding query, an abandoned one is never answered, what
is left of it drains away, and an interface that comes back is reported again.

**Host, hardware and process tables** (`tblIRQ.cpp`, `tblRTC.cpp`,
`tblStat.cpp`, `tblUptime.cpp`, `tblMemInfo.cpp`, `tblNetstat.cpp`,
`tblHost.cpp`, `tblStatVFS.cpp`, `tblHwmon.cpp`, `tblEthtool.cpp`,
`tblProc*.cpp`, `tblPid.cpp`).  Synchronous readers of `/proc`, `/sys` and
system calls.  `tblIRQ` keeps its counts from one update to the next,
`tblEthtool` what its constructor found out about the driver; the others only
fill a transaction.  Correct when each parameter holds what was read for it,
and what could not be read is left out or has no value.

**Formatting device supports** (`getParam.c`, `devcap.cpp`, `devtdelta.cpp`).
Environment strings cut to a record's size, a capability mask as a list of
names, seconds as days, hours and minutes.

**Database templates** (`statApp/Db`).  Each table has a SCAN record with
`PINI=RUNNING` whose forward link, a `calcout` with an output delay, processes
it again `PERIOD` seconds later.

### How they interact

IOC initialisation (main thread) looks up the tables, which runs each table's
first `update()` synchronously; the network table's first update queues a
netlink request before the worker exists.  Scan threads and CA clients process
SCAN records, each in its lock set, and submit jobs.  The worker runs the jobs:
`update()`, publication, `scanIoImmediate`, which processes the I/O Intr records
of the table in the worker, taking their lock sets.  Replies run callbacks in
the worker too.  Exit stops the reactor.

### What is hard

The hazards are listed with their lines in `PROJECT.json`. Most are in the
reactor: a wake-up decided before or after a push and raced by the worker's
unlocked look at `todo`, the pipe emptied after the jobs ran, handles dropped by
one thread while another executes the callback, jobs cancelled by their neighbours
in a batch, replies for operations that are gone, sequence numbers that wrap
round, `stop` racing `submit`, a socket that would block. The interface table adds
time: a query that is abandoned while its answer is on its way, on a socket that
it shares with the tables of other interfaces. The tables' own hazards are of
another kind, the odd file and the odd driver: columns that do not parse, lines of
different lengths, sensors with the same label, clocks near the middle between two
readings, updates that fail half way.

## 2. The modules

| module | what it is |
|--------|------------|
| `Reactor` | the reactor, one action per critical section or step of the worker; its properties |
| `Executor` | the abstract specification: what `submit()` and a `JobHandle` promise |
| `ReactorInv` | the inductive invariants of `Reactor`, in named parts |
| `MCReactor` | symmetry and sets for TLC |
| `ReactorProofs` | invariance of `ReactorInv`'s `IndInv`, the safety theorems, how full the wake-up pipe can be, and that `Reactor` implements `Executor` |
| `Scanning` | SCAN records, tables, transactions and the records that read them, over an `Executor`; its properties |
| `MCScanning` | instances of it for TLC |
| `ScanningProofs` | the inductive invariant of `Scanning` and the safety theorems |
| `IFStat` | the network interface table over the worker's passes; its properties |
| `MCIFStat` | an instance of it for TLC |
| `IFStatProofs` | the inductive invariant of `IFStat` and the safety theorems |
| `Widths` | the integers of the code, scaled down, and what is left of a number in one too narrow for it |
| `Values` | what a transaction holds, what an update reads |
| `HostTables`, `HardwareTables`, `ProcessTables` | each table's `update()`, as an operator from what it reads to what it publishes |
| `Records` | what the device supports make of a value |
| `Tables` | one table of any kind, from `init_record()` to the records |
| `TablePromises` | the properties of `Tables` |
| `MCTables` | instances of them for TLC: what files and drivers may say |
| `FoldLemmas` | what the loops over columns and lines return: folds, sums, numbered columns |
| `TablesProofs` | theorems about `Tables` that need no loop |
| `TableFoldProofs` | theorems about `Tables` that rest on `FoldLemmas`, and on the bits of a mask |
| `ShownProofs` | what a table of any kind publishes is a value, and a record shows it |
| `SensorProofs` | the names of `tblHwmon`'s sensors differ, and its summary tells of those published |
| `TimeDelta` | the up-time record of `devtdelta.cpp`, its property and an instance |

### Reactor

*State.*  The variables are the fields of `Pvt`, `Job` and `Operation` and the
locals of `run()` that live across an unlock, each noted with its source where
it is declared.  Objects come from the finite sets `Jobs` and `Ops` and are used
again once nothing refers to them (`Free`), as an allocator does: so a model with
two operations sees any number of requests, and a stale reference would meet a
new owner.  A message is its sequence number.

*Actions and atomicity.*  All shared state is under one mutex, so each critical
section of a client is one action, enabled when the worker is at a point where
it does not hold the lock (`LockFree`).  What the code does outside of the lock
is a separate action: the write to the pipe (`Poke`, `StopPoke`), the
destruction of the closure (`NullCb`), the read of `todo.empty()` for the
timeout (`EnterPoll`), `poll()` itself, and the callbacks, during which the
worker may submit, request and drop like any thread.  A waiter on the condition
variable passes through `wait`, `woken` (notified, without the lock) and
`Recheck`, which evaluates the predicate again.  Spurious wake-ups of the
condition variable are not modelled: they lead to `Recheck` and back.

*Environment.*  Callbacks return or throw after any number of calls.  The kernel
answers a request with nothing, a reply, a reply and an acknowledgement in one
or in two datagrams, or something that is not for us; what does not fit the
receive buffer is lost silently (`NETLINK_NO_ENOBUFS`).  `sendto()` may fail with
`EWOULDBLOCK` and `poll()` may fail with something other than `EINTR` if the
constants `SendMayBlock` and `PollMayFail` say so.  `EINTR` comes with nothing to
report, which is how Linux' `poll()` behaves.

*Who requests.*  In the program `request()` is called by
`IFStatTable::update()`, which runs in the worker or, for a table's first
update, in the thread that initialises the IOC before the reactor is started.
The constant `Requesters` adds clients that call it while the reactor runs,
which the API allows.

*Not modelled.*  The contents of messages, `report()` (it only reads), logging,
failures of the constructor, and the read of the thread's id while `start()`
assigns it (a data race in the letter, without effect: the worker blocks on the
lock `start()` holds).

### Executor

Jobs begin one at a time, in submission order, at most once; a cancelled job is
passed over; cancelling from outside a job never finds it executing.  No lock,
no pipe, no condition variable.  `Reactor` implements it with `queue <- batch \o
todo`, `live <- Jobs \ done` and `exec <- cur` when that is a job.

### Scanning

*State.*  The reactor is the instance `Ex` of `Executor`, which `Reactor` is
proved to implement, so nothing below depends on pipes and polls.  A job is a
pair of a SCAN record and a number; `scans[s]` says which one `Pvt::scanHandle`
of record `s` refers to.  `current` and `time` are the fields of `StatTable`,
with a map cut down to the set of its parameters and a time stamp to the number
of the publication; a reader stores that number in `shown`, which is how the
properties tell which publication a record's value is of.  `tr` is the worker's
`Transaction`.  `doing` says which record a thread processes: it has that
record's lock set.

*Actions and atomicity.*  `ScanSubmit` and `ScanDrop` are the two halves of the
assignment `pvt->scanHandle = linStatReactor.submit(...)`: the new job is queued
before the old handle is dropped, both with the lock set held, and the drop waits
if the old job executes.  `Update` makes and fills the transaction, which touches
nothing shared; `Publish` is the critical section of `~Transaction`; then
`scanIoImmediate` processes the chains one by one (`PostChain`), each in its
lock set.  `Read` is one record's critical section under the table's lock; two
records of a chain read in two steps.  The set of parameters of a transaction is
arbitrary, because `update()` may throw anywhere and the destructor publishes
what was set so far; `UpdateNothing` is an `update()` that fails before it has a
transaction.

*Environment.*  Record processing, forward links and lock sets are EPICS base's:
`Lock`, `Unlock`, `Process` and `ChainEnd` model what this code relies on.  Any
thread may process any SCAN record or reader at any time, which includes the
delayed `calcout` of `tblScan.template`.  `LockOf`, `TableOf` and `Reads` are
constants: they are the database.  `Separated` is the condition on databases
under which the code is free of deadlock.  The shipped templates meet it:
`tblScan.template` links a SCAN record to its `calcout` only (line 7), the way
back is a `CA` link (line 11), which joins no lock sets, and nothing else links
to a record `$(NAME)_SCAN`.

*Not modelled.*  Values and conversions, which are the subject of `Tables`;
`last_ok`, which decides what is logged and nothing else; SCAN records processed
by the worker through a reader's forward link, which the templates do not do.

### IFStat

*State.*  `op` and `age` are `IFStatTable::op` and the time since `opStart`;
`shown` is the version of the interface that `current` was made from.  `ready`
is the reactor's queue, for this table's queries only; `rx` is the receive buffer
of the socket, of which all interface tables and `request()`s share one: it holds
this table's answers and datagrams of others (`Foreign`), of which no more is
told than that they are not this table's.  `asked` is bookkeeping.

*Actions and atomicity.*  The table's code runs in the worker alone, so a pass
of `Reactor::Pvt::run` is cut into its phases: any number of `update()` jobs
(`Abandon`, `Busy`, `Request`, until `JobsDone`), the receipt of one datagram,
which may be another table's and then leaves this table's for the next pass
(`Publish`, `Acknowledge`, `IgnoreAnswer`), the messages sent if `POLLOUT` was
asked for when the pass began (`Send`, `PassEnds`).  That an answer reaches the
operation that asked, and none once that was abandoned, is `Reactor`'s
`HandlersExact`, on which `ForUs` relies.  A sequence number is used again once no
message carries it; the code has 2^32 of them.

*Environment.*  `Change` moves the interface's counters or makes it disappear or
come back.  The kernel answers with a link message and an acknowledgement, each
of which may be lost, or with an error; `OtherAnswer` is a datagram for another table.
What does not fit the receive buffer is lost.  `Tick` is the monotonic clock, in units
of one second if `Late` is 1: `age > Late` is the code's `now-opStart > 1.0`.
While `prompt` holds, the worker receives what is in flight before its query is
late, and the others leave room for two datagrams; `Load` switches that on and off,
so the worker may be late, and the buffer full, at any time.

### Values, HostTables, HardwareTables, ProcessTables

Each `update()` is an operator that takes what the table reads and returns the
new map with `ok`, whether it returned or threw; what was set before a throw is
in the map, as `~Transaction` publishes it.  What is read is given already
split: a file is a sequence of lines, of columns or of pairs, a name a member of
a small set, a number a number or `Bad`, which is what `std::stol` and its kin
refuse.  The regular expressions that do the splitting are not modelled.  Digits
are kept where their value is what matters (`ProcStatus`: hexadecimal without a
prefix, octal by a leading zero, the longest prefix of valid digits).  Widths
are parameters (`Word` and `DWord` for 2^32 and 2^64, `LongMax`, `MB`), as are field
sizes; where the code stores a number in a narrower or a signed type, `Signed` is
what is left of it.  The sensors of `tblHwmon` are in the order of its `std::map`,
in which "temp10" is before "temp2", and only those that have an entry there
count: a temperature without a label whose input `std::stol` refuses has none,
because C++17 evaluates the right side of an assignment first (`HasTemp`).
`tblRTC` compares the clock with UTC and with local standard time, since it
leaves `tm_isdst` at 0; the zone's offset and the daylight saving in effect are
two numbers of what it reads.  The
counters of a link message are represented by two of twenty-four, the limits of
`tblPid` by what `getrlimit` returns.

### Records and Tables

*State.*  `kind` chooses the factory.  `handle[r]` is the table in a record's
`dpvt`, `registry` the entry of `Gbl::tables`, `current`, `time`, `prev` and
`info` the fields of the table, `recs` what the records show with their time and
alarm, `hooked`, `started` and `nsuspend` the statics and the counter of
`tblProcPDB`.  `source`, `ok`, `seen` and `got` are bookkeeping: what the last
update read, whether it returned, and what there was when a record was
processed.

*Actions.*  While the IOC is built each record's `init_record()` fails on its
link (`BadLink`), finds the table (`FindTable`), or makes it, which runs the
constructor and the first update (`MakeTable`, `MakeFails`).  Then `Update`
reads anything the kind's source may be at a later time, and records are
processed in any order: `Process`, `ProcessFailed`.  An update, and a reading
under the table's lock, are one step here; `Scanning` has their interleaving.
`ServerRuns` is the hook of `tblProcPDB`, `Suspend` the task watchdog.
`ProcessParam` is a record of `getParam.c`, on an environment variable that may
have changed.  `Records` has the conversions: the low 32 bits, the beginning of
a text, the names of a mask's bits, and the alarm of a value that is absent, has
no value or is of another type.

*Not modelled.*  Units and their copy into EGU, the mask of an `mbbi` record and
the linear conversion of `ai`, the report, the bytes of `ioctl()` structures.
Expired weak pointers: a record never releases its `dpvt`, so no table that a
record found is ever destroyed.  A constructor that refuses its instance is
`BadLink`.

## 3. The runs

| run | instance | shows |
|-----|----------|-------|
| `reactor_jobs` | 3 clients, 3 jobs, 2 starts | `TypeOK`, `NoLostWakeup`, `DropSafe`, `StopDrains`, `PipeShallow`, `ImplementsExecutor` |
| `reactor_ops` | 2 clients, 1 job, 2 operations, 3 sequence numbers, both faults | `NoLostWakeup`, `DropSafe`, `HandlersExact` with requests, late and doubled replies, wrap-round, a `sendto()` that blocks and a `poll()` that fails |
| `reactor_live` | 2 clients, 1 job, 1 operation, with fairness | `JobServed`, `DropReturns`, `StopReturns`, `RequestSent` |
| `reactor_blocked` | 2 clients, 1 job, 1 operation, both faults | **violated**: `SurvivesBlockedSend` |
| `reactor_request` | every client is a requester | **violated**: `NoLostWakeup` |
| `scan_cross` | 2 threads, 2 SCAN records, 3 tables, 3 chains, 2 lock sets | `TypeOK`, `NoCycle`, `Settled`, `OneJobEach` |
| `scan_live` | 2 threads, 1 SCAN record, 2 tables, 2 chains, with fairness | `ScanServed`, `ScanReturns` |
| `ifstat` | 2 sequence numbers, 4 datagrams, 2 changes, with fairness | `AnswersCurrent`, `QueryEnds`, `Converges`, `BacklogDrains` |
| `tables` | each of 17 kinds of table and `getParam.c`, 2 records, 3 updates | the 14 properties of `TablePromises` other than `AvailAlarm` and `ExactClock` |
| `tdelta` | up-times around a minute, an hour and a day | **violated**: `TextIsUptime` |
| `fs_avail` | file systems up to 300 blocks | **violated**: `AvailAlarm` |
| `rtc_saving` | clocks on UTC and on local time, with and without daylight saving | **violated**: `ExactClock` |

*What the scanning runs show.*  In `scan_cross` each SCAN record is in the lock
set of the chain that reads the other record's table, and of a chain of the
asynchronous table: every overlap that `Separated` allows.  No thread waits for
the worker with a lock set that the worker wants (`NoCycle`); a chain at rest
shows its table's last publication, all its records the same one, whatever other
threads processed in between and also after an `update()` that failed
(`Settled`); a SCAN record has at most its last job and the one being dropped
(`OneJobEach`).  While a chain is being processed its records may straddle two
publications: the second publication waits in `pend` to put that right, which is
why `Settled` speaks of chains at rest.  `ScanServed` says "unless processed
again" because each processing drops the queued job and queues another at the
end: a SCAN record that is processed faster than the worker serves starves its
table.  The code has no guard against it; the delay of `tblScan.template` (10
seconds unless set) is what keeps it from happening.

*What the interface run shows.*  A late answer to an abandoned query is never
taken for the next query's, and what is shown never goes back (`AnswersCurrent`).
Every query ends, by its acknowledgement or by its age (`QueryEnds`).  How many
requests and answers wait is *not* bounded by the code: each pass receives one
datagram, the answers to each query are two, and with several interfaces and a
worker that is late each table keeps asking while its answers wait behind the
others'; only the receive buffer ends that, by losing what does not fit.  What
holds is that this passes: once the worker is in time, what was left of abandoned
queries is gone for good (`BacklogDrains`).  `Converges` needs that too, and says
so: jobs run before datagrams are received, so a worker that is always late may
abandon each query when its answer has already arrived, and the table then never
changes, without any alarm.

*What the tables run shows.*  For each kind, what is published is what was read
for that name, by a definition that does not follow the code: columns under
their own names and numbers (`ColumnsMatch`, `ColumnsNumbered`), each sensor
under names of its own and the hottest among the published (`SensorsApart`,
`HottestShown`), each dropped packet counted once (`DropsCountedOnce`), a path in
two pieces that join (`PathWhole`), a mask read as the kernel wrote it and named
bit by bit (`CapsNamed`), free space neither hidden nor invented (`SpaceWithin`),
a clock's reference guessed right as far as it can be, against standard time
(`ReferenceGuessed`),
rates that divide a change by the time it took (`RatesTrue`).  A record without
an alarm shows what was published when it was processed, with that time
(`ShownIsPublished`); all records of a table share it (`SharedTable`); the
servers' statistics are not asked for early (`ServerStatsLate`); a parameter is
whole or marked (`ParamMarked`).  What is *not* promised shows in the
preconditions: rates after a failed read or after counts that decreased, the
maxima of a `hwmon` update that threw, or whose devices have a dot in their
names (`Dotless`), a sensor whose input cannot be read (which counts as 0 if it has
a label, and is not there if it has none), a clock off by half its zone's offset or
more, where a local clock under daylight saving is off by that saving.

*The states of a job.*  `nlreact.cpp` 92 calls `done && busy` invalid, and no
property says so: a callback that drops its own handle enters that state through
the branch written for it (417-423), and the worker copes with it (`DropSafe`).

*The violations.*

- `SurvivesBlockedSend`.  Where `sendto()` returns `EWOULDBLOCK` the code breaks
  out of its loop to "try again later..." (353), but it moved the message out of
  the front of `ready` before (342).  The request is lost and the next pass
  dereferences the null pointer left behind.  Whether Linux reports
  `EWOULDBLOCK` for a request of this size is a matter of socket buffers and
  probably rare; what is shown is that the code's own error path does not do
  what it says.
- `NoLostWakeup` with `Requesters`.  `request()` computes whether to poke after
  its push (458), so it never pokes.  A request by a thread other than the
  worker leaves the worker asleep, and as `ready` is not empty, so do later
  submits (402).  The program itself never does this; the theorem
  `NoWakeupIsLost` has the assumption `Requesters = {}` for it.
- `TextIsUptime`.  `devtdelta.cpp` 62 copies the text without a terminating nil
  and 63 sets only the field's last byte, so a text that is shorter than the one
  before keeps its end: ten seconds after "59 M 50 S" the up-time is "1 H 0 S S".
- `AvailAlarm`.  `Db/linStatFS.db` sets the limits of the AVAIL record in bytes
  ("128MB", 39) and calls it "available bytes" (28); the table publishes MB
  (`tblStatVFS.cpp` 43).  The severe alarm is on with anything less than 128 TB.
- `ExactClock`.  `Db/logicHost.template` 169 calls RTC:DLT the "difference between
  persistant RTC and CPU system clock", and `tblRTC.cpp` 93 allows for a clock on
  local time.  But `tm_isdst` is 0 (37), so `mktime()` (97) takes the digits for
  standard time: in summer an exact local clock is published as off by an hour,
  beyond the limit of the MAJOR alarm, and where standard time is UTC it is taken
  for a UTC clock.

*Bounds.*  `MaxStarts` bounds the starts (the program starts once; two also
shows that a restart finds a clean state).  `ReadyMax` and `RxMax` bound the
requests not yet sent and the receive buffer: with two operations two requests
can be outstanding, and one or two datagrams suffice for a late reply to meet a
number in use again, because the kernel's silence and loss are choices at every
request.  `SeqMod` is larger than the number of operations, as 2^32 is; three
numbers for two operations wrap round at once.  `ReadMax` is the
code's 16, which the pipe never reaches in these instances (`PipeShallow`); the proofs hold for any
other value, so also when a read leaves bytes behind.  The number of jobs bounds the
jobs alive at the same time, not how many are ever submitted.  The proofs need
none of these bounds beyond their being what `TypeOK` says.

In `Scanning`, `MaxScans` bounds how often each SCAN record is processed: two
are enough for a job to be dropped while it is queued and while it executes,
three, in `scan_live`, for a record whose drop had to wait to be processed once
more.  `MaxReplies` bounds the
publications of the asynchronous table; one is enough to find every thread and
lock set in every state.  Publications by jobs are bounded by the number of jobs.
One parameter, present or not, is all that reads tell apart.

In `IFStat`, two sequence numbers are the outstanding query's and an abandoned
one's, and the four datagrams of the buffer are both answers to both, or two of
another table before two of this one; the same properties hold with three numbers
and three datagrams (1.03 million states).  Two changes let a late answer be
older than the one that is shown, and `Late` is 1, so ages are in time, on the limit and late.

In `Tables`, `Horizon` is 3: the rates need an update to compare with, one that
may fail, and one after it; the other kinds remember nothing and have two.
Two records find and make the table in both orders and differ in what they show.
`DWord`, `Word` and `MB` are scaled down so that sums and products overflow them
or are cut by them with small numbers; a stringin field holds five characters, and
paths and texts of every length around its multiples occur.  A mask has
`MaskBits` = 24 bits, of which the highest with a name is 23, and no number up to
`LongMax` has more.  `MCTables` lists per kind what
its files may say: lines of every length up to three with `Bad` at any place,
pairs of unequal lengths, devices without a name, with the same name, with a dot in it,
with equal and defaulted labels, with sensors of which nothing can be read,
temperatures below zero and beyond 32 bits, drivers that name nothing.

*Symmetry* is used for the clients other than `Main` and for the jobs, and for the
threads of `scan_cross`, and for the records of `tables`, only in runs without
temporal properties other than the step-wise refinement.

*Fairness* (`FairSpec`).  Weak fairness of the worker's own steps: the scheduler
runs it (its class is `SCHED_IDLE`, lines 212-221, which gives it little but not
nothing), and `poll()` returns when it has something to report (the guard of
`PollReturn`; neither `EINTR` nor a failure is assumed to happen).  Strong
fairness of `JobReturn` and `OpReturn`: a callback comes to its end although it
may call the reactor any number of times before.  Weak fairness of `Poke`,
`NullCb`, `StopPoke` and `Join`, which wait for nobody but what they are for.
Strong fairness of `Recheck`: a notified thread obtains the mutex in the end
although the worker takes it again and again; POSIX does not promise that, the
kernel's futexes make it so in practice.  In `Scanning`, weak fairness of the
worker and of a thread that has begun to process a record, and strong fairness
of `PostChain` for the same reason as `Recheck`: the worker obtains a lock set in
the end although other threads take it again and again.  No thread is obliged to
process anything, and `Toggle` may happen or not.  In `IFStat`, weak fairness of
the worker's passes and of the clock, strong fairness of `Update` among the jobs,
because the table's SCAN record is processed again and again
(`tblScan.template`), and strong fairness of `SendAnswered`: of infinitely many
queries of an existing interface not every one loses an answer.

## 4. What is proved

For every set of clients, jobs and operations and every value of the bounds
within the named assumptions:

| theorem | statement |
|---------|-----------|
| `Invariance` | `Spec => []IndInv` |
| `TypeCorrect` | `Spec => []TypeOK` |
| `DropIsSafe` | `Spec => []DropSafe` |
| `HandlersAreExact` | `Spec => []HandlersExact` |
| `NoWakeupIsLost` | `Requesters = {}` gives `Spec => []NoLostWakeup` |
| `StopLeavesNothing` | no failure of `poll()` gives `Spec => []StopDrains` |
| `PipeIsShallow` | `Spec => []PipeShallow` |
| `Refinement` | `Spec => ImplementsExecutor` |
| `ScanningProofs!TypeCorrect` | `Spec => []TypeOK` |
| `WaitsEnd` | `Separated` gives `Spec => []NoCycle` |
| `TablesSettle` | `Spec => []Settled` |
| `JobsAreSingle` | `Spec => []OneJobEach` |
| `IFStatProofs!TypeCorrect` | `Spec => []TypeOK` |
| `AnswersAreCurrent` | `Spec => AnswersCurrent` |
| `OneTable` | `Spec => []SharedTable` |
| `SpaceIsWithin` | `Spec => []SpaceWithin` |
| `ReferenceIsGuessed` | `Spec => []ReferenceGuessed` |
| `ParamIsMarked` | `Spec => []ParamMarked` |
| `PathIsWhole` | `Spec => []PathWhole` |
| `ServerStatsAreLate` | `Spec => []ServerStatsLate` |
| `DropsAreCountedOnce` | `Spec => []DropsCountedOnce` |
| `RatesAreTrue` | `Spec => RatesTrue` |
| `ColumnsDoMatch` | `Spec => []ColumnsMatch` |
| `ColumnsAreNumbered` | `Numerals` gives `Spec => []ColumnsNumbered` |
| `CapsAreNamed` | `Spec => []CapsNamed` |
| `ShownIsAsPublished` | `Spelled` gives `Spec => []ShownIsPublished` |
| `HottestIsShown` | `Spelled` and `Decimal` give `Spec => []HottestShown` |
| `SensorsAreApart` | `Spelled` and `Decimal` give `Spec => []SensorsApart` |

(eight about `Reactor`, four about `Scanning`, two about `IFStat`, fourteen about
`Tables`)

*The assumptions* are `ThreadAssumption`, `TaskAssumption` (jobs and operations
are distinct and finitely many, the worker is not a client) and
`BoundAssumption`, of which only `Cardinality(Ops) < SeqMod` is more than a
type: there are fewer operations alive than sequence numbers, 2^32.  `Scanning`
has `ScanAssumption`, types and distinctness only; lock sets, tables and chains
are arbitrary.  `IFStat` has `QueryAssumption` and `NumAssumption`, types only:
any set of sequence numbers and any limit.

`Tables` has types of the widths and sizes, finitely many records, and five
assumptions on its constants. `KindsAssumption`: the kinds of table and the record
types are those of `linStat.dbd`. `SourcesAssumption` says of each kind's source
no more than the form in which the code finds it, `Readable`: lines and columns
are sequences, names are strings, numbers are numbers, at finitely many places.
Beyond that form it says that a file system has no more blocks available than it
has; that a clock's digits are the time, its error and, if it runs on local time,
the zone's offset and the daylight saving in effect; and that the keys of
`/proc/self/status`, which the kernel prints, are distinct and its digits those of
the regular expression in `tblProcStatus.cpp`, which lets nothing else through.
`DriversAssumption`: there is a value for each name of a driver's statistics,
because `tblEthtool.cpp` sizes the buffer of the values by the names.
`EnvironmentsAssumption`: a variable's text is of the characters there are.
`MaskAssumption`: each bit that has a name is one of the mask's.
`LettersAssumption` spells those few literals whose letters matter: what the names
of a sensor's values end in.

Three hypotheses are about what TLA+ defines and the provers do not know, and
`ToString` is a Java method to TLC.  `Numerals`: with a prefix, the numerals of
different numbers differ.  `Spelled`: strings, the literals among them, and
numerals are sequences of some set of characters.  `Decimal`: the numerals of
different numbers differ and have no dot.  Everything else a table may read is
arbitrary in the proofs.

*The argument.*  None of the properties is inductive alone.  `IndInv` adds to
`TypeOK` and `HandlersExact`:

- `Control`: the worker's label determines what is busy; `revents` is cleared
  before `poll()`, and a reported datagram stays in the buffer until it is read;
- `Ownership`: a task that is not done has its closure, and a handle or exactly
  one thread that waits to drop it; whoever destroys a closure does so after the
  task is done, and if it is a client, when it is not busy.  `DropSafe` follows
  from this part, and preserving it needs that a notified waiter looks again;
- `OpsLive`: an operation is not cancelled as long as its handle is held;
- `Queued`: a job that is not done is queued, in the batch or executing.

Two further invariants depend on `IndInv` and on one assumption each.  `Awake`
says that the worker, before and in a `poll()` without a timeout, has a byte in
the pipe, a poke on its way or `POLLOUT` asked for, if there is work or a stop.
The delicate cases are the push between the unlocked read of `todo` and
`poll()`, and the byte that is swallowed by the drain after the jobs, whose job
is then found by `todo.empty()`.  `Shutdown` says that the worker has ended only
with nothing queued.

`Shallow` is what `PipeIsShallow` needs, for no step bounds the pipe by itself:
a thread pokes after it left the lock, and the worker empties the pipe only at
the end of a cycle whose `poll()` told of it.  It is an allowance: the bytes in
the pipe and the threads about to write one are together no more than what
`stop()` may add per start and what the cycle of the worker has room for, one
push into an empty `todo` per cycle.  Its proof counts the threads that poke
(`PokingGoto`) through each step.

The refinement proof maps each action to a step of `Executor` or to a stutter;
`Ownership` and `Control` give that a cancelled job is not the executing one
unless the callback cancels itself.

For `Scanning` the invariant adds to `TypeOK`:

- `Exclusive`: a lock set has one owner;
- `Callback`: the worker's label, the executing job and the table of the chains
  in `pend` agree: the worker processes only chains of the table whose job
  executes;
- `Single`: a live job is the record's last, or the one whose drop is under way;
- `Settling`: each record of a chain that is not pending shows the table as it
  is, except those of the chain the worker processes that it has not reached.

`WaitsEnd` follows from `Callback` and `Separated`: a thread that waits for the
executing job has the lock set of that job's SCAN record, the chains in `pend`
are of the same table, and no chain of that table is in that lock set.
`TablesSettle` needs no condition on the lock sets: one chain is in one lock
set, so the worker reads it after any thread that read it before the publication.

For `IFStat` the invariant adds `Order`, that messages in flight carry versions
in the order they were made, none newer than the interface and those of the
outstanding query none older than `asked`, whatever datagrams of other tables stand
between them.

For `Tables`: `Entered`, that every handle is the entry of the registry; `Told`,
that what was read is one of the kind's sources, at the table's time, and that
the published map is the kind's `update()` of it; of the interrupts, that `prev`
holds the counts of the file if it could be read, since their `update()` also
depends on what was there before; `Marked`, the parameter record as it
was read last.  What is left is what an `update()` computes:

- *Loops.* The folds of the community modules are recursive functions on sets of
  indices. `FoldLemmas` tells them by prefixes (`FoldByPrefix`): there is a
  function `h` with `h[0]` the start, `h[k]` one more step than `h[k - 1]`, and
  `h[n]` the result. As the provers cannot instantiate the library's induction
  rules, induction over `k` is by a least counterexample (`SetInduction`, from the
  well-foundedness of `<`). From there, what a loop over lines publishes is what
  the last line to set a name set it to (`LastIsOver`), a sum is an integer and
  additive (`SumIsInteger`, `SumsAdd`), and the n-th column is looked at with the
  number n more than the first's (`NumberedByPrefix`).
- *Sums.* `DropsAreCountedOnce` cuts the columns of a driver into those that count
  for one direction, the other and neither, and needs that the sums modulo the
  width agree; `RatesAreTrue` compares fractions, and needs that the interrupt
  named is one of the file's when any rate is above zero.
- *Values.* `ShownIsAsPublished` needs `RecordsKept`, which says of each record
  without an alarm what `ShownIsPublished` says of it, and is kept because every
  value in `current` is an integer, a quotient, a text or `NoValue`
  (`CurrentValues`), as `Value` (`linStat.h` 53-56) has it. That is a lemma for
  each kind: whatever is laid over what, line by line and also up to a throw,
  remains of these. Of the sums it needs that they are integers, over columns and
  over the labels of `tblIRQ` (`SumsExist`).
- *Names.* A sensor's name is the device's, its label or else its own, and the
  count of earlier sensors with that label, joined by dots (`tblHwmon.cpp`
  151-157). A device's name without a dot ends at the first dot and the count
  begins after the last (`FirstDot`, `LastDot`), so equal names have equal parts
  (`BetweenDots`), whatever dots a driver's label has; of two sensors of one
  device with the same label the later one has the greater count (`CountGrows`).
  What a value's name ends in tells its parameter by two letters (`OnlyEnd`), and
  no name of the summary ends in them. So each parameter is published once for
  each place of a sensor (`Lists`), through the sensors of a device, the loop over
  devices and the summary laid over them (`DeviceLists`, `AllList`, `OverLists`),
  and `Used()` keeps the first device of each name (`UsedAreFirsts`). Counting
  what is published then is counting places (`SomeCounted`), and the hottest is
  one of them because finitely many integers have a greatest one
  (`HottestExists`).
- *Digits.* `CapsAreNamed` goes from the digits to the number (`Evaluated`), from
  the number to its bits (`DigitBits`, `BitsOfDigits`), and from the bits to the
  list of names one bit at a time (`NamesAfterBit`). It uses that the key `CapAmb`
  is read as hexadecimal without a prefix, which is what `bitmaps` is for.

TLC checks every part of the invariant's consequences first; the proofs were
made once it agreed.

*Only model-checked*: the liveness properties, because the prover has no rules
for fairness.  Every safety property the passing runs check is a theorem.

## 5. What is not modelled, and what is left

Not modelled: the splitting of lines by regular expressions and string streams,
the byte layout of `ioctl()` and netlink structures, units, logging and reports,
the operator screens, the other limits and the `calcout` delay of the databases,
and the stub for other systems (`dummy.c`), which is empty.  A table's
destruction is not modelled because nothing in the running IOC causes it.

Left, in order of worth:

1. A composition of `IFStat` with `Reactor` in place of its reliance on
   `HandlersExact`.
2. The alarm chains of the databases (`MS` links between the records of one
   template) over `Scanning`.

Points met while modelling that no property covers: `CapPrm` is missing from the
list of hexadecimal keys (`tblProcStatus.cpp` 35) and would be read as octal; a
link's parameter may hold no dot (`devstat.cpp` 56), so the sensors of
`tblHwmon` and the `stat.` parameters of `tblEthtool` cannot be linked to; two
devices of `tblHwmon` share names if one is called "a" with a sensor "b.c" and
the other "a.b" with a sensor "c" (151-157), and the one read later is shown; the
result of `strptime` is dereferenced though it may be null (`tblRTC.cpp` 73);
"caller must hold lock" (`linStat.h` 80) is done by neither caller of `update()`,
and `~Transaction` would deadlock if one did.
