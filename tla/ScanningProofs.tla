---------------------------- MODULE ScanningProofs ----------------------------
(***************************************************************************)
(* What holds of SCAN records, tables and readers for any number of each,  *)
(* whatever records share a lock set, and when nothing waits in a circle.  *)
(***************************************************************************)
EXTENDS Scanning, TLAPS

\* A function keeps its type where it is changed to a value of the type.
LEMMA ExceptType ==
    ASSUME NEW D, NEW R, NEW f \in [D -> R], NEW i, NEW e, i \in D => e \in R
    PROVE  [f EXCEPT ![i] = e] \in [D -> R]
  OBVIOUS

\* Two threads never process records of one lock set.
Exclusive ==
    \A p, q \in Procs :
        p # q /\ doing[p] # None /\ doing[q] # None
        => LockOf[doing[p]] # LockOf[doing[q]]

\* What the worker does, and for which table.
Callback ==
    /\ doing[Worker] # None => doing[Worker] \in Chains /\ wpc = "post"
    /\ pend # {} => wpc = "post"
    /\ wpc = "idle" => exec = None
    /\ wpc = "update" => exec # None
    /\ wpc = "publish" =>
        /\ tr.table \in Tables
        /\ tr.time > 0
        /\ exec # None => tr.table = TableOf[exec[1]]
    /\ exec # None => \A c \in pend : TableOf[c] = TableOf[exec[1]]

\* A job is its record's last, or the one whose handle the record is dropping,
\* and if the drop waits, the job executes.
Single ==
    \A j \in live :
        \/ j[2] = scans[j[1]]
        \/ /\ j = OldJob(j[1])
           /\ \E p \in Threads : /\ doing[p] = j[1]
                                 /\ at[p] = Drop \/ (at[p] = Wait /\ exec = j)

\* The i-th record of chain c shows its table as it is.
Shows(c, i) ==
    IF Reads[c][i] \in current[TableOf[c]]
    THEN shown[c][i] = [pub |-> time[TableOf[c]], alarm |-> FALSE]
    ELSE shown[c][i].alarm

\* Settled, with what the worker has done of the chain it processes.
Settling ==
    \A c \in Chains : time[TableOf[c]] > 0 /\ c \notin pend =>
        \A i \in DOMAIN Reads[c] :
            (doing[Worker] = c => i < at[Worker]) => Shows(c, i)

IndInv == TypeOK /\ Exclusive /\ Callback /\ Single /\ Settling

-----------------------------------------------------------------------------
(* Constants                                                               *)

LEMMA ConstantTypes ==
    /\ Worker \in Procs /\ Worker \notin Threads /\ Threads \subseteq Procs
    /\ None \notin Records /\ None \notin Jobs /\ ScanRecs \cap Chains = {}
    /\ \A j \in Jobs : j[1] \in ScanRecs /\ j = <<j[1], j[2]>>
    /\ \A r \in Records : TableOf[r] \in Tables
    /\ \A c \in Chains : DOMAIN Reads[c] = 1 .. Len(Reads[c])
    /\ \A c \in Chains : Len(Reads[c]) \in Nat
<1>1. Jobs \subseteq ScanRecs \X Int
  BY ScanAssumption DEF Jobs
<1> QED
  BY <1>1, ScanAssumption DEF Procs, Records, Jobs

-----------------------------------------------------------------------------
(* Type correctness                                                        *)

LEMMA InitType == Init => TypeOK
<1> SUFFICES ASSUME Init PROVE TypeOK
  OBVIOUS
<1>1. NoTransaction \in [table : Tables \cup {None}, time : Nat,
                         next : SUBSET Params]
  BY DEF NoTransaction
<1>2. \A c \in Chains :
        shown[c] \in [DOMAIN Reads[c] -> [pub : Nat, alarm : BOOLEAN]]
  BY DEF Init
<1>3. queue \in Seq(Jobs) /\ live \subseteq Jobs /\ exec \in Jobs \cup {None}
  BY DEF Init, Ex!Init
<1>4. scans \in [ScanRecs -> 0 .. MaxScans]
  BY ScanAssumption DEF Init
<1> QED
  BY <1>1, <1>2, <1>3, <1>4 DEF Init, TypeOK

LEMMA RecordType ==
    ASSUME TypeOK, NEW p \in Procs,
           \/ \E s \in ScanRecs : ScanSubmit(p, s)
           \/ \E c \in Chains : Process(p, c)
           \/ ScanDrop(p) \/ ScanWoken(p) \/ Read(p) \/ ChainEnd(p)
    PROVE  TypeOK'
<1> USE ConstantTypes DEF TypeOK, executor, worker, data
<1>1. ASSUME NEW s \in ScanRecs, ScanSubmit(p, s) PROVE TypeOK'
  <2>1. scans[s] + 1 \in 1 .. MaxScans
    BY <1>1, ScanAssumption DEF ScanSubmit
  <2> DEFINE j == <<s, scans[s] + 1>>
  <2>2. j \in Jobs
    BY <2>1 DEF Jobs
  <2>3. queue' = Append(queue, j) /\ live' = live \cup {j} /\ exec' = exec
    BY <1>1 DEF ScanSubmit, Ex!Submit
  <2>5. queue' \in Seq(Jobs) /\ live' \subseteq Jobs /\ exec' \in Jobs \cup {None}
    <3> HIDE DEF j
    <3> QED
      BY <2>2, <2>3
  <2>4. scans' \in [ScanRecs -> 0 .. MaxScans]
    BY <1>1, <2>1 DEF ScanSubmit
  <2> QED
    BY <1>1, <2>5, <2>4 DEF ScanSubmit, Lock, Drop, Records
<1>2. ASSUME NEW c \in Chains, Process(p, c) PROVE TypeOK'
  BY <1>2 DEF Process, Lock, Records
<1>3. CASE ScanDrop(p)
  <2>1. live' \subseteq Jobs
    BY <1>3 DEF ScanDrop, AfterDrop
  <2>2. /\ at' \in [Procs -> Nat]
        /\ doing' \in [Procs -> Records \cup {None}]
    <3>1. CASE WaitsFor(OldJob(doing[p]))
      <4>1. at' = [at EXCEPT ![p] = 2] /\ doing' = doing
        BY <1>3, <3>1 DEF ScanDrop, Wait
      <4> QED
        BY <4>1
    <3>2. CASE ~WaitsFor(OldJob(doing[p]))
      <4>1. Unlock(p)
        BY <1>3, <3>2 DEF ScanDrop
      <4> QED
        BY <4>1 DEF Unlock
    <3> QED
      BY <3>1, <3>2
  <2> QED
    BY <1>3, <2>1, <2>2 DEF ScanDrop
<1>4. CASE ScanWoken(p)
  BY <1>4 DEF ScanWoken, Unlock
<1>5. CASE Read(p)
  <2> DEFINE c == doing[p]
             i == at[p]
             e == [pub |-> IF Reads[c][i] \in current[TableOf[c]]
                           THEN time[TableOf[c]] ELSE shown[c][i].pub,
                   alarm |-> ~(Reads[c][i] \in current[TableOf[c]])]
  <2>1. c \in Chains
    BY <1>5 DEF Read
  <2>2. shown' = [shown EXCEPT ![c][i] = e]
    BY <1>5 DEF Read
  <2>3. TableOf[c] \in Tables
    BY <2>1 DEF Records
  <2>4. shown[c] \in [DOMAIN Reads[c] -> [pub : Nat, alarm : BOOLEAN]]
    BY <2>1
  <2>5. i \in DOMAIN Reads[c] => e \in [pub : Nat, alarm : BOOLEAN]
    <3> SUFFICES ASSUME i \in DOMAIN Reads[c]
                 PROVE  e \in [pub : Nat, alarm : BOOLEAN]
      OBVIOUS
    <3>1. shown[c][i].pub \in Nat /\ time[TableOf[c]] \in Nat
      BY <2>3, <2>4
    <3> QED
      BY <3>1
  <2>6. shown'[c] = [shown[c] EXCEPT ![i] = e] /\ DOMAIN shown' = Chains
    BY <2>1, <2>2
  <2>7. shown'[c] \in [DOMAIN Reads[c] -> [pub : Nat, alarm : BOOLEAN]]
    <3>1. PICK D, R, f, g, v, k : /\ D = DOMAIN Reads[c] /\ R = [pub : Nat, alarm : BOOLEAN]
                                  /\ f = shown[c] /\ g = shown'[c] /\ v = e /\ k = i
      OBVIOUS
    <3> HIDE DEF c, i, e
    <3>2. f \in [D -> R] /\ (k \in D => v \in R) /\ g = [f EXCEPT ![k] = v]
      BY <2>4, <2>5, <2>6, <3>1, Zenon
    <3>3. g \in [D -> R]
      BY <3>2, ExceptType
    <3> QED BY <3>1, <3>3, Zenon
  <2>8. \A d \in Chains :
          shown'[d] \in [DOMAIN Reads[d] -> [pub : Nat, alarm : BOOLEAN]]
    BY <2>2, <2>7
  <2>9. at' \in [Procs -> Nat]
    BY <1>5 DEF Read
  <2> QED
    BY <1>5, <2>6, <2>8, <2>9 DEF Read
<1>6. CASE ChainEnd(p)
  BY <1>6 DEF ChainEnd, Unlock
<1> QED
  BY <1>1, <1>2, <1>3, <1>4, <1>5, <1>6

LEMMA WorkerType ==
    ASSUME TypeOK, Callback,
           \/ JobBegin \/ JobSkip \/ Update \/ UpdateNothing \/ Publish
           \/ CallbackEnd \/ Toggle
           \/ \E t \in Tables : Reply(t)
           \/ \E c \in Chains : PostChain(c)
    PROVE  TypeOK'
<1> USE ConstantTypes DEF TypeOK, executor, worker, data
<1>1. CASE JobBegin
  <2>1. queue' \in Seq(Jobs) /\ exec' \in Jobs /\ live' = live
    BY <1>1 DEF JobBegin, Ex!Begin
  <2> QED
    BY <1>1, <2>1 DEF JobBegin
<1>2. CASE JobSkip
  <2>1. queue' \in Seq(Jobs) /\ exec' = exec /\ live' = live
    BY <1>2 DEF JobSkip, Ex!Skip
  <2> QED
    BY <1>2, <2>1 DEF JobSkip
<1>3. ASSUME NEW t \in Tables, Fill(t)
      PROVE  /\ tr' \in [table : Tables \cup {None}, time : Nat, next : SUBSET Params]
             /\ wpc' = "publish"
  BY <1>3 DEF Fill, Stamp
<1>4. CASE Update
  <2>1. exec \in Jobs
    BY <1>4 DEF Update, Callback
  <2>2. TableOf[exec[1]] \in Tables
    BY <2>1 DEF Records
  <2> QED
    BY <1>3, <1>4, <2>2 DEF Update
<1>5. CASE UpdateNothing
  BY <1>5 DEF UpdateNothing
<1>6. CASE Publish
  <2>1. tr.table \in Tables /\ tr.time \in Nat /\ tr.next \subseteq Params
    BY <1>6 DEF Publish, Callback
  <2>2. Posted(tr.table) \subseteq Chains
    BY DEF Posted
  <2>3. NoTransaction \in [table : Tables \cup {None}, time : Nat,
                            next : SUBSET Params]
    BY DEF NoTransaction
  <2>4. /\ current' \in [Tables -> SUBSET Params]
        /\ time' \in [Tables -> Nat]
    BY <1>6, <2>1 DEF Publish
  <2> QED
    BY <1>6, <2>2, <2>3, <2>4 DEF Publish
<1>7. CASE CallbackEnd
  <2>1. live' \subseteq Jobs /\ exec' \in Jobs \cup {None} /\ queue' = queue
    BY <1>7 DEF CallbackEnd, Ex!End
  <2> QED
    BY <1>7, <2>1 DEF CallbackEnd
<1>8. CASE Toggle
  BY <1>8 DEF Toggle
<1>9. ASSUME NEW t \in Tables, Reply(t) PROVE TypeOK'
  BY <1>3, <1>9 DEF Reply
<1>10. ASSUME NEW c \in Chains, PostChain(c) PROVE TypeOK'
  BY <1>10 DEF PostChain, Lock, Records
<1> QED
  BY <1>1, <1>2, <1>4, <1>5, <1>6, <1>7, <1>8, <1>9, <1>10

-----------------------------------------------------------------------------
(* Lock sets are exclusive                                                 *)

LEMMA LockExclusive ==
    ASSUME TypeOK, Exclusive, NEW p \in Procs, NEW r \in Records, NEW n,
           Lock(p, r, n)
    PROVE  /\ Exclusive'
           /\ \A q \in Procs : doing[q] # r
           /\ doing'[p] = r /\ \A q \in Procs \ {p} : doing'[q] = doing[q]
<1>1. doing'[p] = r /\ \A q \in Procs \ {p} : doing'[q] = doing[q]
  BY DEF Lock, TypeOK
<1>2. \A q \in Procs : doing[q] # None => LockOf[doing[q]] # LockOf[r]
  BY DEF Lock, LockFree
<1>3. \A q \in Procs : doing[q] # r
  BY <1>2, ConstantTypes
<1> QED
  BY <1>1, <1>2, <1>3 DEF Exclusive

LEMMA UnlockExclusive ==
    ASSUME TypeOK, Exclusive, NEW p \in Procs, Unlock(p)
    PROVE  /\ Exclusive'
           /\ doing'[p] = None /\ \A q \in Procs \ {p} : doing'[q] = doing[q]
<1>1. doing'[p] = None /\ \A q \in Procs \ {p} : doing'[q] = doing[q]
  BY DEF Unlock, TypeOK
<1> QED
  BY <1>1 DEF Exclusive

LEMMA StepExclusive ==
    ASSUME TypeOK, Exclusive, Next
    PROVE  Exclusive'
<1> USE ConstantTypes
<1>1. ASSUME NEW p \in Threads, NEW s \in ScanRecs, ScanSubmit(p, s)
      PROVE  Exclusive'
  BY <1>1, LockExclusive DEF ScanSubmit, Records
<1>2. ASSUME NEW p \in Threads, NEW c \in Chains, Process(p, c)
      PROVE  Exclusive'
  BY <1>2, LockExclusive DEF Process, Records
<1>3. ASSUME NEW p \in Threads, ScanDrop(p) PROVE Exclusive'
  <2>1. CASE WaitsFor(OldJob(doing[p]))
    <3>1. doing' = doing
      BY <1>3, <2>1 DEF ScanDrop
    <3> QED
      BY <3>1 DEF Exclusive
  <2>2. CASE ~WaitsFor(OldJob(doing[p]))
    BY <1>3, <2>2, UnlockExclusive DEF ScanDrop
  <2> QED
    BY <2>1, <2>2
<1>4. ASSUME NEW p \in Threads, ScanWoken(p) PROVE Exclusive'
  BY <1>4, UnlockExclusive DEF ScanWoken
<1>5. ASSUME NEW p \in Procs, ChainEnd(p) PROVE Exclusive'
  BY <1>5, UnlockExclusive DEF ChainEnd
<1>6. ASSUME NEW c \in Chains, PostChain(c) PROVE Exclusive'
  BY <1>6, LockExclusive DEF PostChain, Records
<1>7. ASSUME doing' = doing PROVE Exclusive'
  BY <1>7 DEF Exclusive
<1>8. CASE \/ JobBegin \/ JobSkip \/ Update \/ UpdateNothing \/ Publish
           \/ CallbackEnd \/ Toggle
           \/ \E t \in Tables : Reply(t)
           \/ \E p \in Procs : Read(p)
  BY <1>7, <1>8 DEF JobBegin, JobSkip, Update, UpdateNothing, Publish,
                    CallbackEnd, Toggle, Reply, Read
<1> QED
  BY <1>1, <1>2, <1>3, <1>4, <1>5, <1>6, <1>8 DEF Next

-----------------------------------------------------------------------------
(* The worker's callback                                                   *)

LEMMA StepCallback ==
    ASSUME TypeOK, Callback, Next
    PROVE  Callback'
<1> USE ConstantTypes DEF Callback
<1>1. ASSUME NEW p \in Threads,
             \/ \E s \in ScanRecs : ScanSubmit(p, s)
             \/ \E c \in Chains : Process(p, c)
             \/ ScanDrop(p) \/ ScanWoken(p) \/ Read(p) \/ ChainEnd(p)
      PROVE  Callback'
  <2>1. UNCHANGED <<exec, wpc, tr, pend>>
    BY <1>1 DEF ScanSubmit, Process, ScanDrop, ScanWoken, Read, ChainEnd,
                worker, executor, Ex!Submit
  <2>2. doing'[Worker] = doing[Worker]
    BY <1>1 DEF ScanSubmit, Process, ScanDrop, ScanWoken, Read, ChainEnd,
                Lock, Unlock, TypeOK
  <2> QED
    BY <2>1, <2>2
<1>2. CASE Read(Worker) \/ ChainEnd(Worker)
  <2>1. UNCHANGED <<exec, wpc, tr, pend>>
    BY <1>2 DEF Read, ChainEnd, worker, executor
  <2>2. doing'[Worker] \in {doing[Worker], None}
    BY <1>2 DEF Read, ChainEnd, Unlock, TypeOK
  <2> QED
    BY <2>1, <2>2
<1>3. CASE JobBegin
  <2>1. pend = {} /\ exec' = Head(queue) /\ queue # <<>> /\ doing[Worker] = None
    BY <1>3 DEF JobBegin, Ex!Begin
  <2>2. exec' \in Jobs
    BY <2>1 DEF TypeOK
  <2> QED
    BY <1>3, <2>1, <2>2 DEF JobBegin
<1>4. CASE JobSkip
  BY <1>4 DEF JobSkip, Ex!Skip, worker
<1>5. ASSUME NEW t \in Tables, Fill(t)
      PROVE  wpc' = "publish" /\ tr'.table = t /\ tr'.time > 0
  BY <1>5 DEF Fill, Stamp, TypeOK
<1>6. CASE Update
  <2>1. exec \in Jobs /\ pend = {} /\ doing[Worker] = None
    BY <1>6 DEF Update, TypeOK
  <2>2. TableOf[exec[1]] \in Tables
    BY <2>1 DEF Records
  <2> QED
    BY <1>5, <1>6, <2>1, <2>2 DEF Update, executor
<1>7. ASSUME NEW t \in Tables, Reply(t) PROVE Callback'
  <2>1. exec = None /\ pend = {} /\ doing[Worker] = None
    BY <1>7 DEF Reply
  <2> QED
    BY <1>5, <1>7, <2>1 DEF Reply, executor
<1>8. CASE UpdateNothing
  BY <1>8 DEF UpdateNothing, executor
<1>9. CASE Publish
  <2>1. wpc' = "post" /\ exec' = exec /\ doing' = doing
    BY <1>9 DEF Publish, executor
  <2>2. \A c \in pend' : TableOf[c] = tr.table
    BY <1>9 DEF Publish, Posted
  <2> QED
    BY <1>9, <2>1, <2>2 DEF Publish
<1>10. ASSUME NEW c \in Chains, PostChain(c) PROVE Callback'
  <2>1. doing'[Worker] = c
    BY <1>10 DEF PostChain, Lock, TypeOK
  <2> QED
    BY <1>10, <2>1 DEF PostChain, executor
<1>11. CASE CallbackEnd
  BY <1>11 DEF CallbackEnd, executor, Ex!End
<1>12. CASE Toggle
  BY <1>12 DEF Toggle, executor, worker
<1> QED
  BY <1>1, <1>2, <1>3, <1>4, <1>6, <1>7, <1>8, <1>9, <1>10, <1>11, <1>12
     DEF Next, Procs

-----------------------------------------------------------------------------
(* Jobs of one record                                                      *)

LEMMA StepSingle ==
    ASSUME TypeOK, Exclusive, Callback, Single, Next
    PROVE  Single'
<1> USE ConstantTypes
<1>1. ASSUME NEW p \in Threads, NEW s \in ScanRecs, ScanSubmit(p, s)
      PROVE  Single'
  <2> DEFINE new == <<s, scans[s] + 1>>
  <2>1. /\ doing'[p] = s /\ at'[p] = Drop /\ scans'[s] = scans[s] + 1
        /\ exec' = exec /\ live' = live \cup {new}
        /\ \A q \in Procs \ {p} : doing'[q] = doing[q] /\ at'[q] = at[q]
        /\ \A r \in ScanRecs \ {s} : scans'[r] = scans[r]
    BY <1>1 DEF ScanSubmit, Lock, Ex!Submit, TypeOK
  <2>2. \A q \in Procs : doing[q] # s
    BY <1>1, LockExclusive DEF ScanSubmit, Records
  <2>3. doing[p] = None
    BY <1>1 DEF ScanSubmit, Lock
  <2> SUFFICES ASSUME NEW j \in live', j[2] # scans'[j[1]]
               PROVE  /\ j = OldJob(j[1])'
                      /\ \E q \in Threads : /\ doing'[q] = j[1]
                                            /\ \/ at'[q] = Drop
                                               \/ at'[q] = Wait /\ exec' = j
    BY DEF Single
  <2>4. j \in live /\ j \in Jobs
    BY <2>1 DEF TypeOK
  <2>5. CASE j[1] = s
    <3>1. j[2] = scans[s]
      BY <2>2, <2>4, <2>5 DEF Single
    <3>2. scans[s] \in Int
      BY DEF TypeOK
    <3>3. j = <<s, scans'[s] - 1>>
      BY <2>1, <2>4, <2>5, <3>1, <3>2
    <3> QED
      BY <2>1, <2>5, <3>3 DEF OldJob
  <2>6. CASE j[1] # s
    <3>1. scans'[j[1]] = scans[j[1]]
      BY <2>1, <2>4, <2>6
    <3>2. j = OldJob(j[1])
      BY <2>4, <3>1 DEF Single
    <3>3. PICK q \in Threads : /\ doing[q] = j[1]
                               /\ at[q] = Drop \/ (at[q] = Wait /\ exec = j)
      BY <2>4, <3>1 DEF Single
    <3>4. q # p
      BY <2>3, <2>4, <3>3 DEF Records
    <3> QED
      BY <2>1, <3>1, <3>2, <3>3, <3>4 DEF OldJob
  <2> QED
    BY <2>5, <2>6
<1>2. ASSUME NEW p \in Procs, doing[p] \notin ScanRecs,
             doing'[p] \notin ScanRecs,
             \A q \in Procs \ {p} : doing'[q] = doing[q] /\ at'[q] = at[q],
             UNCHANGED <<live, exec, scans>>
      PROVE  Single'
  <2>1. \A j \in live : j[1] \in ScanRecs
    BY DEF TypeOK
  <2> QED
    BY <1>2, <2>1 DEF Single, OldJob
<1>3. ASSUME NEW p \in Threads, NEW c \in Chains, Process(p, c) PROVE Single'
  BY <1>2, <1>3 DEF Process, Lock, executor, TypeOK, Records
<1>4. ASSUME NEW c \in Chains, PostChain(c) PROVE Single'
  BY <1>2, <1>4 DEF PostChain, Lock, executor, TypeOK, Records
<1>5. ASSUME NEW p \in Procs, Read(p) PROVE Single'
  BY <1>2, <1>5 DEF Read, executor, TypeOK
<1>6. ASSUME NEW p \in Procs, ChainEnd(p) PROVE Single'
  BY <1>2, <1>6 DEF ChainEnd, Unlock, executor, TypeOK, Records
<1>7. ASSUME NEW p \in Threads, ScanDrop(p) PROVE Single'
  <2> DEFINE s == doing[p]
  <2>1. s \in ScanRecs /\ scans' = scans /\ exec' = exec
    BY <1>7 DEF ScanDrop
  <2>2. \A q \in Threads \ {p} : doing[q] # s
    BY <2>1 DEF Exclusive, Records
  <2>3. CASE WaitsFor(OldJob(s))
    <3>1. /\ live' = live /\ doing' = doing /\ at'[p] = Wait
          /\ \A q \in Threads \ {p} : at'[q] = at[q]
      BY <1>7, <2>3 DEF ScanDrop, TypeOK
    <3>2. exec = OldJob(s)
      BY <2>3 DEF WaitsFor
    <3> SUFFICES ASSUME NEW j \in live, j[2] # scans[j[1]]
                 PROVE  /\ j = OldJob(j[1])
                        /\ \E q \in Threads :
                             /\ doing'[q] = j[1]
                             /\ at'[q] = Drop \/ (at'[q] = Wait /\ exec' = j)
      BY <2>1, <3>1 DEF Single, OldJob
    <3>3. j = OldJob(j[1])
      BY DEF Single
    <3>4. PICK q \in Threads : /\ doing[q] = j[1]
                               /\ at[q] = Drop \/ (at[q] = Wait /\ exec = j)
      BY DEF Single
    <3>5. CASE q = p
      BY <2>1, <3>1, <3>2, <3>3, <3>4, <3>5
    <3>6. CASE q # p
      BY <2>1, <3>1, <3>3, <3>4, <3>6
    <3> QED
      BY <3>5, <3>6
  <2>4. CASE ~WaitsFor(OldJob(s))
    <3>1. live' = live \ {OldJob(s)} /\ Unlock(p)
      BY <1>7, <2>4 DEF ScanDrop, AfterDrop
    <3>2. \A q \in Threads \ {p} : doing'[q] = doing[q] /\ at'[q] = at[q]
      BY <3>1 DEF Unlock, TypeOK
    <3> SUFFICES ASSUME NEW j \in live', j[2] # scans[j[1]]
                 PROVE  /\ j = OldJob(j[1])
                        /\ \E q \in Threads :
                             /\ doing'[q] = j[1]
                             /\ at'[q] = Drop \/ (at'[q] = Wait /\ exec' = j)
      BY <2>1 DEF Single, OldJob
    <3>3. j \in live /\ j = OldJob(j[1]) /\ j # OldJob(s)
      BY <3>1 DEF Single
    <3>4. PICK q \in Threads : /\ doing[q] = j[1]
                               /\ at[q] = Drop \/ (at[q] = Wait /\ exec = j)
      BY <3>3 DEF Single
    <3>5. q # p
      BY <3>3, <3>4
    <3> QED
      BY <2>1, <3>2, <3>3, <3>4, <3>5
  <2> QED
    BY <2>3, <2>4
<1>8. ASSUME NEW p \in Threads, ScanWoken(p) PROVE Single'
  <2> DEFINE s == doing[p]
  <2>1. /\ s \in ScanRecs /\ at[p] = Wait /\ exec # OldJob(s)
        /\ UNCHANGED <<live, exec, scans>>
    BY <1>8 DEF ScanWoken, WaitsFor, executor
  <2>2. \A q \in Threads \ {p} : doing'[q] = doing[q] /\ at'[q] = at[q]
    BY <1>8 DEF ScanWoken, Unlock, TypeOK
  <2> SUFFICES ASSUME NEW j \in live, j[2] # scans[j[1]]
               PROVE  /\ j = OldJob(j[1])
                      /\ \E q \in Threads :
                           /\ doing'[q] = j[1]
                           /\ at'[q] = Drop \/ (at'[q] = Wait /\ exec' = j)
    BY <2>1 DEF Single, OldJob
  <2>3. j = OldJob(j[1])
    BY DEF Single
  <2>4. PICK q \in Threads : /\ doing[q] = j[1]
                             /\ at[q] = Drop \/ (at[q] = Wait /\ exec = j)
    BY DEF Single
  <2>5. q # p
    BY <2>1, <2>3, <2>4 DEF Drop, Wait
  <2> QED
    BY <2>1, <2>2, <2>3, <2>4, <2>5
<1>9. CASE JobBegin \/ CallbackEnd
  <2>1. /\ UNCHANGED <<scans, doing, at>> /\ live' \subseteq live
        /\ exec # None => exec \notin live'
    BY <1>9 DEF JobBegin, CallbackEnd, Ex!Begin, Ex!End, executor
  <2>2. \A j \in live' : exec # j
    BY <2>1 DEF TypeOK
  <2> QED
    BY <2>1, <2>2 DEF Single, OldJob
<1>10. ASSUME UNCHANGED <<live, exec, scans, doing, at>> PROVE Single'
  BY <1>10 DEF Single, OldJob
<1>11. CASE \/ JobSkip \/ Update \/ UpdateNothing \/ Publish \/ Toggle
            \/ \E t \in Tables : Reply(t)
  BY <1>10, <1>11 DEF JobSkip, Ex!Skip, Update, UpdateNothing, Publish, Toggle,
                      Reply, executor
<1> QED
  BY <1>1, <1>3, <1>4, <1>5, <1>6, <1>7, <1>8, <1>9, <1>11 DEF Next

-----------------------------------------------------------------------------
(* Readers show their tables                                               *)

\* What a step leaves alone of what Settling is about.
LEMMA SameSettling ==
    ASSUME Settling, UNCHANGED <<current, time, shown, pend>>,
           doing'[Worker] = doing[Worker],
           doing[Worker] # None => at'[Worker] = at[Worker]
    PROVE  Settling'
<1>1. \A c \in Chains : doing'[Worker] = c <=> doing[Worker] = c
  OBVIOUS
<1>2. \A c \in Chains : doing[Worker] = c => at'[Worker] = at[Worker]
  BY ConstantTypes DEF Records
<1>3. \A c \in Chains : \A i \in DOMAIN Reads[c] : Shows(c, i)' <=> Shows(c, i)
  BY DEF Shows
<1> QED
  BY <1>1, <1>2, <1>3 DEF Settling

LEMMA ReadSettling ==
    ASSUME TypeOK, Settling, NEW p \in Procs, Read(p)
    PROVE  Settling'
<1>1. PICK c \in Chains, k \in Nat : doing[p] = c /\ at[p] = k
  BY DEF Read, TypeOK
<1> DEFINE e == [pub |-> IF Reads[c][k] \in current[TableOf[c]]
                         THEN time[TableOf[c]] ELSE shown[c][k].pub,
                 alarm |-> ~(Reads[c][k] \in current[TableOf[c]])]
<1>2. /\ shown' = [shown EXCEPT ![c][k] = e]
      /\ UNCHANGED <<current, time, pend, doing>>
      /\ at'[p] = k + 1
      /\ \A q \in Procs \ {p} : at'[q] = at[q]
  BY <1>1 DEF Read, TypeOK, worker
<1>3. shown'[c] = [shown[c] EXCEPT ![k] = e]
  <2> HIDE DEF e
  <2> QED
    BY <1>2 DEF TypeOK
<1>4. \A d \in Chains \ {c} : shown'[d] = shown[d]
  BY <1>2
<1>5. DOMAIN shown[c] = DOMAIN Reads[c]
  BY DEF TypeOK
<1> SUFFICES ASSUME NEW d \in Chains, time[TableOf[d]] > 0, d \notin pend,
                    NEW i \in DOMAIN Reads[d],
                    doing[Worker] = d => i < at'[Worker]
             PROVE  Shows(d, i)'
  BY <1>2 DEF Settling
<1>6. CASE d = c /\ i = k
  <2>1. shown'[d][i] = e
    BY <1>3, <1>5, <1>6
  <2>2. CASE Reads[d][i] \in current[TableOf[d]]
    <3>1. e = [pub |-> time[TableOf[d]], alarm |-> FALSE]
      BY <1>6, <2>2
    <3> QED
      BY <1>2, <2>1, <2>2, <3>1 DEF Shows
  <2>3. CASE Reads[d][i] \notin current[TableOf[d]]
    <3>1. e.alarm
      BY <1>6, <2>3
    <3> QED
      BY <1>2, <2>1, <2>3, <3>1 DEF Shows
  <2> QED
    BY <2>2, <2>3
<1>7. CASE ~(d = c /\ i = k)
  <2>1. at'[Worker] = at[Worker] \/ (p = Worker /\ doing[Worker] = c)
    BY <1>1, <1>2, ConstantTypes
  <2>2. doing[Worker] = d => i < at[Worker]
    <3>1. i \in Nat
      BY ConstantTypes
    <3> QED
      BY <1>1, <1>2, <1>7, <2>1, <3>1
  <2>3. Shows(d, i)
    BY <2>2 DEF Settling
  <2>4. shown'[d][i] = shown[d][i]
    BY <1>3, <1>4, <1>5, <1>7
  <2> QED
    BY <1>2, <2>3, <2>4 DEF Shows
<1> QED
  BY <1>6, <1>7

LEMMA StepSettling ==
    ASSUME TypeOK, Exclusive, Callback, Settling, Next
    PROVE  Settling'
<1> USE ConstantTypes
<1>1. ASSUME NEW p \in Threads,
             \/ \E s \in ScanRecs : ScanSubmit(p, s)
             \/ \E c \in Chains : Process(p, c)
             \/ ScanDrop(p) \/ ScanWoken(p) \/ ChainEnd(p)
      PROVE  Settling'
  <2>1. UNCHANGED <<current, time, shown, pend>>
    BY <1>1 DEF ScanSubmit, Process, ScanDrop, ScanWoken, ChainEnd, worker, data
  <2>2. doing'[Worker] = doing[Worker] /\ at'[Worker] = at[Worker]
    BY <1>1 DEF ScanSubmit, Process, ScanDrop, ScanWoken, ChainEnd,
                Lock, Unlock, TypeOK
  <2> QED
    BY <2>1, <2>2, SameSettling
<1>2. ASSUME NEW p \in Procs, Read(p) PROVE Settling'
  BY <1>2, ReadSettling
<1>3. CASE ChainEnd(Worker)
  <2> DEFINE d == doing[Worker]
  <2>1. /\ d \in Chains /\ at[Worker] > Len(Reads[d])
        /\ UNCHANGED <<current, time, shown, pend>>
        /\ doing'[Worker] = None
    BY <1>3 DEF ChainEnd, Unlock, TypeOK, worker, data
  <2>2. \A i \in DOMAIN Reads[d] : i < at[Worker]
    BY <2>1 DEF TypeOK
  <2>3. \A c \in Chains : \A i \in DOMAIN Reads[c] : Shows(c, i)' <=> Shows(c, i)
    BY <2>1 DEF Shows
  <2> QED
    BY <2>1, <2>2, <2>3 DEF Settling
<1>4. ASSUME NEW c \in Chains, PostChain(c) PROVE Settling'
  <2>1. /\ UNCHANGED <<current, time, shown>> /\ pend' = pend \ {c}
        /\ doing[Worker] = None /\ doing'[Worker] = c /\ at'[Worker] = 1
    BY <1>4 DEF PostChain, Lock, TypeOK, data
  <2>2. \A d \in Chains : \A i \in DOMAIN Reads[d] : Shows(d, i)' <=> Shows(d, i)
    BY <2>1 DEF Shows
  <2>3. \A i \in DOMAIN Reads[c] : ~(i < at'[Worker])
    BY <2>1
  <2>4. \A d \in Chains : d # doing[Worker]
    BY <2>1 DEF Records
  <2> QED
    BY <2>1, <2>2, <2>3, <2>4 DEF Settling
<1>5. CASE Publish
  <2> DEFINE t == tr.table
  <2>1. /\ t \in Tables /\ UNCHANGED <<shown, doing, at>>
        /\ current' = [current EXCEPT ![t] = tr.next]
        /\ time' = [time EXCEPT ![t] = tr.time]
        /\ pend' = {c \in Chains : TableOf[c] = t}
        /\ pend = {}
    BY <1>5 DEF Publish, Posted, Callback
  <2>2. \A d \in Chains \ pend' :
            /\ current'[TableOf[d]] = current[TableOf[d]]
            /\ time'[TableOf[d]] = time[TableOf[d]]
    BY <2>1 DEF TypeOK, Records
  <2>3. \A d \in Chains \ pend' : \A i \in DOMAIN Reads[d] :
            Shows(d, i)' <=> Shows(d, i)
    BY <2>1, <2>2 DEF Shows
  <2> QED
    BY <2>1, <2>2, <2>3 DEF Settling
<1>6. CASE \/ JobBegin \/ JobSkip \/ Update \/ UpdateNothing \/ CallbackEnd
           \/ Toggle \/ \E t \in Tables : Reply(t)
  <2>1. UNCHANGED <<current, time, shown, pend, doing, at>>
    BY <1>6 DEF JobBegin, JobSkip, Update, UpdateNothing, CallbackEnd, Toggle,
                Reply, worker, data
  <2> QED
    BY <2>1, SameSettling
<1> QED
  BY <1>1, <1>2, <1>3, <1>4, <1>5, <1>6 DEF Next, Procs

-----------------------------------------------------------------------------
(* Theorems                                                                *)

LEMMA Stutter ==
    ASSUME IndInv, UNCHANGED vars
    PROVE  IndInv'
<1> USE DEF vars, executor, worker, data, IndInv
<1>1. TypeOK'
  BY DEF TypeOK
<1>2. Exclusive' /\ Callback'
  BY DEF Exclusive, Callback
<1>3. Single'
  BY DEF Single, OldJob
<1>4. Settling'
  BY SameSettling
<1> QED
  BY <1>1, <1>2, <1>3, <1>4

\* The inductive invariant (devstat.cpp 117-155, tblBase.cpp 55-64).
THEOREM Invariance == Spec => []IndInv
<1>1. Init => IndInv
  <2> SUFFICES ASSUME Init PROVE IndInv
    OBVIOUS
  <2>1. TypeOK
    BY InitType
  <2>2. \A p \in Procs : doing[p] = None
    BY DEF Init
  <2>3. \A c \in Chains : ~(time[TableOf[c]] > 0)
    BY ConstantTypes DEF Init, Records
  <2>4. exec = None /\ live = {} /\ pend = {} /\ wpc = "idle"
    BY DEF Init, Ex!Init
  <2> QED
    BY <2>1, <2>2, <2>3, <2>4, ConstantTypes
       DEF IndInv, Exclusive, Callback, Single, Settling
<1>2. IndInv /\ [Next]_vars => IndInv'
  <2> SUFFICES ASSUME IndInv, Next PROVE IndInv'
    BY Stutter
  <2>1. TypeOK'
    <3>1. CASE \E p \in Procs :
                \/ \E s \in ScanRecs : ScanSubmit(p, s)
                \/ \E c \in Chains : Process(p, c)
                \/ ScanDrop(p) \/ ScanWoken(p) \/ Read(p) \/ ChainEnd(p)
      BY <3>1, RecordType DEF IndInv
    <3>2. CASE \/ JobBegin \/ JobSkip \/ Update \/ UpdateNothing \/ Publish
               \/ CallbackEnd \/ Toggle
               \/ \E t \in Tables : Reply(t)
               \/ \E c \in Chains : PostChain(c)
      BY <3>2, WorkerType DEF IndInv
    <3> QED
      BY <3>1, <3>2, ConstantTypes DEF Next
  <2> QED
    BY <2>1, StepExclusive, StepCallback, StepSingle, StepSettling DEF IndInv
<1> QED
  BY <1>1, <1>2, PTL DEF Spec

\* Every variable keeps its type (linStat.h 58-104, devstat.cpp 42-46).
THEOREM TypeCorrect == Spec => []TypeOK
<1>1. IndInv => TypeOK
  BY DEF IndInv
<1> QED
  BY <1>1, Invariance, PTL

\* The only job of a SCAN record that will run is its last (devstat.cpp 126).
THEOREM JobsAreSingle == Spec => []OneJobEach
<1>1. IndInv => OneJobEach
  <2> SUFFICES ASSUME IndInv, NEW j \in live, j[2] # scans[j[1]]
               PROVE  /\ j[2] = scans[j[1]] - 1
                      /\ \E p \in Threads : doing[p] = j[1]
    BY DEF OneJobEach
  <2>1. j = OldJob(j[1]) /\ \E p \in Threads : doing[p] = j[1]
    BY DEF IndInv, Single
  <2> QED
    BY <2>1 DEF OldJob
<1> QED
  BY <1>1, Invariance, PTL

\* Whatever shares a lock set and whoever processes records meanwhile, a chain
\* at rest shows its table's last publication (tblBase.cpp 55-64, devstat.cpp
\* 158-209).
THEOREM TablesSettle == Spec => []Settled
<1>1. IndInv => Settled
  BY ConstantTypes DEF IndInv, Settling, Settled, Shows
<1> QED
  BY <1>1, Invariance, PTL

\* When no SCAN record is in the lock set of a chain of its own table, nothing
\* waits in a circle, however the other lock sets overlap (devstat.cpp 126).
THEOREM WaitsEnd ==
    ASSUME Separated
    PROVE  Spec => []NoCycle
<1>1. IndInv => NoCycle
  <2> SUFFICES ASSUME IndInv, NEW p \in Threads, NEW c \in pend,
                      doing[p] \in ScanRecs, exec = OldJob(doing[p])
               PROVE  LockOf[doing[p]] # LockOf[c]
    BY DEF NoCycle, WaitsFor
  <2>1. c \in Chains
    BY DEF IndInv, TypeOK
  <2>2. exec # None /\ exec[1] = doing[p]
    <3>1. scans[doing[p]] - 1 \in Int
      BY DEF IndInv, TypeOK
    <3>2. exec = <<doing[p], scans[doing[p]] - 1>>
      BY DEF OldJob
    <3>3. exec \in ScanRecs \X Int
      BY <3>1, <3>2
    <3> QED
      BY <3>2, <3>3, ScanAssumption
  <2>3. TableOf[c] = TableOf[doing[p]]
    BY <2>2 DEF IndInv, Callback
  <2> QED
    BY <2>1, <2>3 DEF Separated
<1> QED
  BY <1>1, Invariance, PTL
=============================================================================
