------------------------------ MODULE Scanning -------------------------------
(***************************************************************************)
(* SCAN records, statistics tables and the records that read them:         *)
(* statApp/src/devstat.cpp, Transaction and StatTable of linStat.h and     *)
(* tblBase.cpp, with the reactor seen as an Executor.                       *)
(*                                                                         *)
(* Processing a SCAN record submits a job and drops the handle of the job  *)
(* it submitted before, all with the record's lock set held; the job       *)
(* updates the table and then processes, in the worker, the chains of      *)
(* records that are scanned by I/O Intr, which takes their lock sets.       *)
(* A chain is a record and those its forward links reach: one lock set,    *)
(* several reads, each under the table's lock, which is never held longer. *)
(***************************************************************************)
EXTENDS Integers, Sequences, FiniteSets, Functions

CONSTANTS
    Threads,        \* threads that process records: scan threads, CA clients
    Worker,         \* the reactor's thread
    Tables,
    Async,          \* tables that publish from a netlink reply, not from a job
    Params,         \* the parameters a table may publish
    ScanRecs,       \* SCAN records
    Chains,         \* chains of reading records
    Reads,          \* the parameters a chain's records read, in order
    TableOf,        \* the table of a SCAN record or chain
    LockSets,
    LockOf,         \* the lock set of a SCAN record or chain
    None,
    MaxScans,       \* bound: how often a SCAN record is processed
    MaxReplies      \* bound: replies that publish

Records == ScanRecs \cup Chains
Jobs == ScanRecs \X (1 .. MaxScans)
Procs == Threads \cup {Worker}

ASSUME ScanAssumption == /\ Worker \notin Threads
                         /\ ScanRecs \cap Chains = {}
                         /\ None \notin Records \cup (ScanRecs \X Int)
                         /\ Async \subseteq Tables
                         /\ Reads \in [Chains -> Seq(Params)]
                         /\ TableOf \in [Records -> Tables]
                         /\ LockOf \in [Records -> LockSets]
                         /\ MaxScans \in Nat /\ MaxReplies \in Nat

VARIABLES
    running,            \* the reactor accepts jobs
    queue, live, exec,  \* the Executor
    scans,      \* how many jobs each SCAN record submitted; the last is its
                \* scanHandle
    doing,      \* the record or chain a thread processes, its lock set held
    at,         \* how far it is: the next record of a chain, or Drop or Wait
    wpc,        \* what the worker does in a callback
    tr,         \* the worker's Transaction: table, nextTime, what next holds
    pend,       \* chains the worker has to process before the callback ends
    current,    \* the parameters each table holds
    time,       \* StatTable::currentTime, which number of publication
    shown       \* for each record of a chain, the publication its value and
                \* time stamp are of, and whether it is in alarm

executor == <<queue, live, exec>>
worker == <<wpc, tr, pend>>
data == <<current, time, shown>>
vars == <<running, executor, scans, doing, at, worker, data>>

Ex == INSTANCE Executor

Drop == 1   \* a SCAN record whose old handle is about to be dropped
Wait == 2   \* or is being dropped, waiting for its callback

NoTransaction == [table |-> None, time |-> 0, next |-> {}]

TypeOK ==
    /\ running \in BOOLEAN
    /\ queue \in Seq(Jobs) /\ live \subseteq Jobs /\ exec \in Jobs \cup {None}
    /\ scans \in [ScanRecs -> 0 .. MaxScans]
    /\ doing \in [Procs -> Records \cup {None}]
    /\ at \in [Procs -> Nat]
    /\ wpc \in {"idle", "update", "publish", "post"}
    /\ tr \in [table : Tables \cup {None}, time : Nat, next : SUBSET Params]
    /\ pend \subseteq Chains
    /\ current \in [Tables -> SUBSET Params]
    /\ time \in [Tables -> Nat]
    /\ DOMAIN shown = Chains
    /\ \A c \in Chains :
        shown[c] \in [DOMAIN Reads[c] -> [pub : Nat, alarm : BOOLEAN]]

\* The first update of every table was made when its records were initialised;
\* it published anything, or nothing.  No record was processed since.
Init ==
    /\ running = FALSE
    /\ Ex!Init
    /\ scans = [s \in ScanRecs |-> 0]
    /\ doing = [p \in Procs |-> None] /\ at = [p \in Procs |-> 0]
    /\ wpc = "idle" /\ tr = NoTransaction /\ pend = {}
    /\ current \in [Tables -> SUBSET Params]
    /\ time = [t \in Tables |-> 0]
    /\ shown = [c \in Chains |-> [i \in DOMAIN Reads[c] |->
                                    [pub |-> 0, alarm |-> FALSE]]]

-----------------------------------------------------------------------------
(* Records                                                                 *)

LockFree(l) == \A p \in Procs : doing[p] # None => LockOf[doing[p]] # l

\* p takes the lock set of r, when nobody has it, and processes r.
Lock(p, r, where) == /\ doing[p] = None
                     /\ LockFree(LockOf[r])
                     /\ doing' = [doing EXCEPT ![p] = r]
                     /\ at' = [at EXCEPT ![p] = where]

Unlock(p) == /\ doing' = [doing EXCEPT ![p] = None]
             /\ at' = [at EXCEPT ![p] = 0]

DropNew(s) == <<s, scans[s]>>      \* mutant: the handle just stored
OldJob(s) == <<s, scans[s] - 1>>

DropDetaches(s) == live            \* mutant: the old job stays queued
AfterDrop(s) == live \ {OldJob(s)}

\* A SCAN record is processed: a job is submitted.  While the reactor does not
\* run, submit() throws and nothing changes but the record's alarm.
ScanSubmit(p, s) ==
    /\ running /\ scans[s] < MaxScans
    /\ Lock(p, s, Drop)
    /\ scans' = [scans EXCEPT ![s] = @ + 1]
    /\ Ex!Submit(<<s, scans[s] + 1>>)
    /\ UNCHANGED <<running, worker, data>>

WaitsUntilRun(j) == j \in live      \* mutant: waits for a queued job too
WaitsFor(j) == exec = j

\* scanHandle is assigned, which drops the old handle.
ScanDrop(p) ==
    /\ doing[p] \in ScanRecs /\ at[p] = Drop
    /\ IF WaitsFor(OldJob(doing[p]))
       THEN at' = [at EXCEPT ![p] = Wait] /\ UNCHANGED <<live, doing>>
       ELSE live' = AfterDrop(doing[p]) /\ Unlock(p)
    /\ UNCHANGED <<running, queue, exec, scans, worker, data>>

\* The callback has returned: the deleter ends, the record is done.
ScanWoken(p) ==
    /\ doing[p] \in ScanRecs /\ at[p] = Wait
    /\ ~WaitsFor(OldJob(doing[p]))
    /\ Unlock(p)
    /\ UNCHANGED <<running, executor, scans, worker, data>>

\* A thread other than the worker processes a chain.
Process(p, c) ==
    /\ Lock(p, c, 1)
    /\ UNCHANGED <<running, executor, scans, worker, data>>

\* The next record of the chain reads its parameter.  If the table has none the
\* record goes into alarm and keeps its value and its time stamp.
Read(p) ==
    /\ doing[p] \in Chains /\ at[p] <= Len(Reads[doing[p]])
    /\ LET c == doing[p]
           present == Reads[c][at[p]] \in current[TableOf[c]]
       IN  shown' = [shown EXCEPT ![c][at[p]] =
               [pub |-> IF present THEN time[TableOf[c]] ELSE @.pub,
                alarm |-> ~present]]
    /\ at' = [at EXCEPT ![p] = @ + 1]
    /\ UNCHANGED <<running, executor, scans, doing, worker, current, time>>

ChainEnd(p) ==
    /\ doing[p] \in Chains /\ at[p] > Len(Reads[doing[p]])
    /\ Unlock(p)
    /\ UNCHANGED <<running, executor, scans, worker, data>>

-----------------------------------------------------------------------------
(* The worker                                                              *)

JobBegin ==
    /\ wpc = "idle" /\ Ex!Begin
    /\ wpc' = "update"
    /\ UNCHANGED <<running, scans, doing, at, tr, pend, data>>

JobSkip ==
    /\ wpc = "idle" /\ Ex!Skip
    /\ UNCHANGED <<running, scans, doing, at, worker, data>>

StampBack(t) == time[t] - 1        \* mutant: publications run backwards
Stamp(t) == time[t] + 1

\* The Transaction of table t is made and filled; whether update() completes or
\* throws, its destructor publishes what was set.
Fill(t) == /\ tr' \in [table : {t}, time : {Stamp(t)}, next : SUBSET Params]
           /\ wpc' = "publish"

Update ==
    /\ wpc = "update"
    /\ TableOf[exec[1]] \notin Async
    /\ Fill(TableOf[exec[1]])
    /\ UNCHANGED <<running, executor, scans, doing, at, pend, data>>

\* update() throws before it makes a Transaction, or only sends a request.
UpdateNothing ==
    /\ wpc = "update"
    /\ wpc' = "post"
    /\ UNCHANGED <<running, executor, scans, doing, at, tr, pend, data>>

\* The callback of a netlink operation publishes.
Reply(t) ==
    /\ wpc = "idle" /\ exec = None /\ (running \/ queue # <<>>)
    /\ t \in Async /\ time[t] < MaxReplies
    /\ Fill(t)
    /\ UNCHANGED <<running, executor, scans, doing, at, pend, data>>

PostChanged(t) == IF current[t] = tr.next THEN {}    \* mutant: only a change
                  ELSE {c \in Chains : TableOf[c] = t}
Posted(t) == {c \in Chains : TableOf[c] = t}

\* ~Transaction: publish under the table's lock, then process every I/O Intr
\* record of the table.
Publish ==
    /\ wpc = "publish"
    /\ current' = [current EXCEPT ![tr.table] = tr.next]
    /\ time' = [time EXCEPT ![tr.table] = tr.time]
    /\ pend' = Posted(tr.table)
    /\ tr' = NoTransaction
    /\ wpc' = "post"
    /\ UNCHANGED <<running, executor, scans, doing, at, shown>>

PostChain(c) ==
    /\ wpc = "post" /\ c \in pend
    /\ Lock(Worker, c, 1)
    /\ pend' = pend \ {c}
    /\ UNCHANGED <<running, executor, scans, wpc, tr, data>>

CallbackEnd ==
    /\ wpc = "post" /\ pend = {} /\ doing[Worker] = None
    /\ wpc' = "idle"
    /\ IF exec = None THEN UNCHANGED executor ELSE Ex!End
    /\ UNCHANGED <<running, scans, doing, at, tr, pend, data>>

-----------------------------------------------------------------------------
\* The IOC runs, and exits.
Toggle == /\ running' = ~running
          /\ UNCHANGED <<executor, scans, doing, at, worker, data>>

Next ==
    \/ \E p \in Threads : \/ \E s \in ScanRecs : ScanSubmit(p, s)
                          \/ \E c \in Chains : Process(p, c)
                          \/ ScanDrop(p) \/ ScanWoken(p)
    \/ \E p \in Procs : Read(p) \/ ChainEnd(p)
    \/ JobBegin \/ JobSkip \/ Update \/ UpdateNothing \/ Publish \/ CallbackEnd
    \/ \E t \in Tables : Reply(t)
    \/ \E c \in Chains : PostChain(c)
    \/ Toggle

Spec == Init /\ [][Next]_vars
-----------------------------------------------------------------------------
(* Safety                                                                  *)

\* A thread that waits for the callback never has a lock set the callback will
\* want: otherwise neither would ever continue.  The handle is assigned, and so
\* dropped, with the record's lock set held (devstat.cpp 126), and the callback
\* processes records (tblBase.cpp 61-63).
NoCycle ==
    \A p \in Threads, c \in pend :
        doing[p] \in ScanRecs /\ at[p] = Wait /\ WaitsFor(OldJob(doing[p]))
        => LockOf[doing[p]] # LockOf[c]

\* What it takes: no SCAN record is in the lock set of a chain that reads its
\* table.  The databases are built so: a SCAN record links to its calcout only,
\* and that one back to it by a CA link (tblScan.template 7, 11).
Separated == \A s \in ScanRecs, c \in Chains :
                TableOf[s] = TableOf[c] => LockOf[s] # LockOf[c]

\* A chain that nobody processes and that the worker is not about to process
\* shows the table as it is, all its records the same publication, whatever
\* other threads processed meanwhile, and also after an update() that failed.
Settled ==
    \A c \in Chains :
        /\ time[TableOf[c]] > 0
        /\ c \notin pend
        /\ \A p \in Procs : doing[p] # c
        => \A i \in DOMAIN Reads[c] :
            IF Reads[c][i] \in current[TableOf[c]]
            THEN shown[c][i] = [pub |-> time[TableOf[c]], alarm |-> FALSE]
            ELSE shown[c][i].alarm

\* However often a SCAN record is processed, the only job of it that will run,
\* or runs, is its last, except for the old one while it is being dropped.
OneJobEach ==
    \A j \in live :
        \/ j[2] = scans[j[1]]
        \/ j[2] = scans[j[1]] - 1 /\ \E p \in Threads : doing[p] = j[1]

-----------------------------------------------------------------------------
(* Liveness: threads run, a lock set is granted to the worker in the end.   *)

Fairness ==
    /\ \A p \in Threads : WF_vars(ScanDrop(p)) /\ WF_vars(ScanWoken(p))
    /\ \A p \in Procs : WF_vars(Read(p)) /\ WF_vars(ChainEnd(p))
    /\ WF_vars(JobBegin) /\ WF_vars(JobSkip) /\ WF_vars(Publish)
    /\ WF_vars(Update \/ UpdateNothing) /\ WF_vars(CallbackEnd)
    /\ \A c \in Chains : SF_vars(PostChain(c))

FairSpec == Spec /\ Fairness

\* The job of a SCAN record is executed, unless the record is processed again
\* before: each processing moves it to the end of the queue.
ScanServed ==
    \A s \in ScanRecs, n \in 1 .. MaxScans :
        <<s, n>> \in live ~> exec = <<s, n>> \/ scans[s] > n

\* Processing a SCAN record ends, though it may wait for the worker.
ScanReturns ==
    \A p \in Threads : doing[p] \in ScanRecs ~> doing[p] = None
=============================================================================
