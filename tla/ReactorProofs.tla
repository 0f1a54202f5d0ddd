---------------------------- MODULE ReactorProofs ----------------------------
(***************************************************************************)
(* What holds of the reactor for any number of threads, jobs and           *)
(* operations.  IndInv of ReactorInv is inductive; each of its parts is     *)
(* shown to be preserved by a lemma with one step per action, or one for    *)
(* the actions that leave the part alone.                                  *)
(***************************************************************************)
EXTENDS ReactorInv, FiniteSetTheorems, TLAPS

-----------------------------------------------------------------------------
(* Constants                                                               *)

LEMMA SeqsMod == \A n \in Nat : n % SeqMod \in Seqs
BY BoundAssumption DEF Seqs

LEMMA ThreadsType == /\ Main \in Threads /\ Worker \in Threads
                     /\ Clients \subseteq Threads /\ Main # Worker
BY ThreadAssumption DEF Threads

LEMMA TasksType == /\ Jobs \subseteq Tasks /\ Ops \subseteq Tasks
                   /\ Jobs \cap Ops = {} /\ None \notin Tasks
BY TaskAssumption DEF Tasks

\* Whatever the kernel answers is a sequence of datagrams.
LEMMA AnswersType ==
    ASSUME NEW s \in Seqs \cup {NoSeq}, NEW a \in Answers(s)
    PROVE  a \in Seq(Seq(Seqs \cup {NoSeq}))
<1> DEFINE M == Seqs \cup {NoSeq}
<1>1. NoSeq \in M
  OBVIOUS
<1>2. <<s>> \in Seq(M) /\ <<s, s>> \in Seq(M) /\ <<NoSeq>> \in Seq(M)
  BY <1>1
<1> HIDE DEF M
<1>3. /\ <<>> \in Seq(Seq(M)) /\ <<<<s>>>> \in Seq(Seq(M))
      /\ <<<<s, s>>>> \in Seq(Seq(M)) /\ <<<<s>>, <<s>>>> \in Seq(Seq(M))
      /\ <<<<NoSeq>>>> \in Seq(Seq(M))
  BY <1>2
<1> QED
  BY <1>3 DEF Answers, M

-----------------------------------------------------------------------------
(* Type correctness                                                        *)

LEMMA InitType == Init => TypeOK
<1> SUFFICES ASSUME Init PROVE TypeOK
  OBVIOUS
<1>1. 0 \in Seqs
  BY BoundAssumption DEF Seqs
<1>2. handlers \in [Seqs -> Ops \cup {None}] /\ seqOf \in [Ops -> Seqs]
  BY <1>1 DEF Init
<1>3. /\ pc \in [Threads -> {"idle", "poke", "wait", "woken", "null",
                             "stopping", "join"}]
      /\ arg \in [Threads -> Tasks \cup {None}]
  BY DEF Init
<1>4. wpc \in Unlocked \cup Locked
  BY DEF Init, Unlocked
<1> QED
  BY <1>1, <1>2, <1>3, <1>4, BoundAssumption DEF Init, TypeOK

LEMMA ThreadStepType ==
    ASSUME TypeOK, Control, NEW t \in Threads, ThreadStep(t)
    PROVE  TypeOK'
<1> USE DEF TypeOK, shared, tasks, loop, Goto
<1>1. ASSUME NEW j \in Jobs, Submit(t, j) PROVE TypeOK'
  <2>1. j \in Tasks
    BY TasksType
  <2>2. todo' \in Seq(Jobs)
    BY <1>1 DEF Submit
  <2>3. /\ pc' \in [Threads -> {"idle", "poke", "wait", "woken", "null",
                                "stopping", "join"}]
        /\ arg' \in [Threads -> Tasks \cup {None}]
    BY <1>1, <2>1 DEF Submit
  <2> QED
    BY <1>1, <2>1, <2>2, <2>3 DEF Submit
<1>2. ASSUME NEW o \in Ops, Request(t, o) PROVE TypeOK'
  <2>1. o \in Tasks
    BY TasksType
  <2>2. PICK s \in Seqs : /\ nextseq' = (s + 1) % SeqMod
                          /\ seqOf' = [seqOf EXCEPT ![o] = s]
                          /\ handlers' = [handlers EXCEPT ![s] = o]
                          /\ ready' = Append(ready, s)
    BY <1>2 DEF Request
  <2>3. nextseq' \in Seqs
    BY <2>2, SeqsMod DEF Seqs
  <2>4. ready' \in Seq(Seqs \cup {NoSeq})
    BY <2>2
  <2>5. handlers' \in [Seqs -> Ops \cup {None}] /\ seqOf' \in [Ops -> Seqs]
    BY <2>2
  <2>6. /\ pc' \in [Threads -> {"idle", "poke", "wait", "woken", "null",
                                "stopping", "join"}]
        /\ arg' \in [Threads -> Tasks \cup {None}]
    <3>1. Goto(t, "poke", o) \/ UNCHANGED <<pc, arg>>
      BY <1>2 DEF Request
    <3> QED
      BY <3>1, <2>1
  <2> QED
    BY <1>2, <2>1, <2>3, <2>4, <2>5, <2>6 DEF Request
<1>3. ASSUME NEW x \in Tasks, Drop(t, x) PROVE TypeOK'
  BY <1>3 DEF Drop, Cancel, EraseEntry
<1>4. CASE Poke(t)
  BY <1>4 DEF Poke
<1>5. CASE Recheck(t)
  <2>1. arg[t] \in Tasks
    BY <1>5 DEF Recheck, Control
  <2> QED
    BY <1>5, <2>1 DEF Recheck, Cancel, EraseEntry
<1>6. CASE NullCb(t)
  BY <1>6 DEF NullCb
<1> QED
  BY <1>1, <1>2, <1>3, <1>4, <1>5, <1>6 DEF ThreadStep

LEMMA MainStepType ==
    ASSUME TypeOK, MainStep
    PROVE  TypeOK'
<1> USE ThreadsType, BoundAssumption
        DEF TypeOK, shared, tasks, loop, Goto, Unlocked, Locked
<1>1. CASE Start
  BY <1>1 DEF Start
<1>2. CASE Stop
  BY <1>2 DEF Stop
<1>3. CASE StopPoke
  BY <1>3 DEF StopPoke
<1>4. CASE Join
  BY <1>4 DEF Join
<1> QED
  BY <1>1, <1>2, <1>3, <1>4 DEF MainStep

LEMMA WorkerStepType ==
    ASSUME TypeOK, Control, WorkerStep
    PROVE  TypeOK'
<1> USE DEF TypeOK, shared, tasks, loop, Step, Unlocked, Locked
<1>1. CASE Boot \/ Exit \/ PollFail \/ PollIntr \/ NoRx \/ RxDone
  BY <1>1 DEF Boot, Exit, PollFail, PollIntr, NoRx, RxDone
<1>2. CASE Top
  BY <1>2 DEF Top, PolloutWanted
<1>3. CASE EnterPoll
  BY <1>3 DEF EnterPoll
<1>4. CASE PollReturn
  BY <1>4 DEF PollReturn, Events
<1>5. CASE TakeTodo
  BY <1>5 DEF TakeTodo
<1>6. CASE RunJob
  <2>1. Head(batch) \in Tasks /\ Tail(batch) \in Seq(Jobs)
    BY <1>6, TasksType DEF RunJob
  <2> QED
    BY <1>6, <2>1 DEF RunJob, Begin
<1>7. CASE SkipJob
  BY <1>7 DEF SkipJob
<1>8. CASE JobReturn \/ OpReturn
  <2>1. cur \in Tasks
    BY <1>8, TasksType DEF JobReturn, OpReturn, Control
  <2> QED
    BY <1>8, <2>1 DEF JobReturn, OpReturn, NotifyAll
<1>9. CASE DrainPipe
  BY <1>9, BoundAssumption DEF DrainPipe, AfterRead
<1>10. CASE Rx
  <2>1. rxq # <<>>
    BY <1>10 DEF Rx, Control
  <2> QED
    BY <1>10, <2>1 DEF Rx
<1>11. CASE RunOp
  <2>1. Addressee(Head(msgs)) \in Tasks /\ Tail(msgs) \in Seq(Seqs \cup {NoSeq})
    BY <1>11, TasksType DEF RunOp, Deliverable, Addressee
  <2> QED
    BY <1>11, <2>1 DEF RunOp, Begin
<1>12. CASE IgnoreMsg
  BY <1>12 DEF IgnoreMsg
<1>13. CASE Tx
  <2>1. ready # <<>> /\ Head(ready) \in Seqs \cup {NoSeq}
    BY <1>13 DEF Tx, Sending
  <2>2. rxq' \in Seq(Seq(Seqs \cup {NoSeq}))
    BY <1>13, <2>1, AnswersType DEF Tx
  <2>3. ready' \in Seq(Seqs \cup {NoSeq})
    BY <1>13, <2>1 DEF Tx
  <2> QED
    BY <1>13, <2>2, <2>3 DEF Tx
<1>14. CASE TxBlocked
  <2>1. ready # <<>> /\ Tail(ready) \in Seq(Seqs \cup {NoSeq})
    BY <1>14 DEF TxBlocked, Sending
  <2>2. <<NoSeq>> \in Seq(Seqs \cup {NoSeq})
    OBVIOUS
  <2>3. ready' \in Seq(Seqs \cup {NoSeq})
    BY <1>14, <2>1, <2>2 DEF TxBlocked
  <2> QED
    BY <1>14, <2>3 DEF TxBlocked
<1>15. CASE TxCrash \/ TxDone
  BY <1>15 DEF TxCrash, TxDone
<1> QED
  BY <1>1, <1>2, <1>3, <1>4, <1>5, <1>6, <1>7, <1>8, <1>9, <1>10, <1>11,
     <1>12, <1>13, <1>14, <1>15 DEF WorkerStep

-----------------------------------------------------------------------------
(* Where the threads are                                                   *)

LEMMA InitControl == Init => Control
BY TasksType, ThreadsType DEF Init, Control, Waiting

LEMMA ThreadStepControl ==
    ASSUME TypeOK, Control, NEW t \in Threads, ThreadStep(t)
    PROVE  Control'
<1> USE ThreadsType, TasksType
        DEF TypeOK, Control, Waiting, shared, tasks, loop, Goto, CanCall
<1>1. ASSUME NEW j \in Jobs, Submit(t, j) PROVE Control'
  <2>1. Goto(t, "poke", j) \/ UNCHANGED <<pc, arg>>
    BY <1>1 DEF Submit
  <2> QED
    BY <1>1, <2>1 DEF Submit
<1>2. ASSUME NEW o \in Ops, Request(t, o) PROVE Control'
  <2>1. Goto(t, "poke", o) \/ UNCHANGED <<pc, arg>>
    BY <1>2 DEF Request
  <2>2. pc[t] = "idle" /\ (t = Worker => wpc \in {"job", "op"})
    BY <1>2 DEF Request
  <2>3. UNCHANGED <<busy, loop, wpc, rxq>>
    BY <1>2 DEF Request
  <2> QED
    BY <2>1, <2>2, <2>3
<1>3. ASSUME NEW x \in Tasks, Drop(t, x) PROVE Control'
  <2>1. \/ t # Worker /\ Goto(t, "wait", x)
        \/ Goto(t, "null", x)
    BY <1>3 DEF Drop, MustWait, Cancel
  <2> QED
    BY <1>3, <2>1 DEF Drop, Threads
<1>4. CASE Poke(t)
  BY <1>4 DEF Poke
<1>5. CASE Recheck(t)
  <2>1. Goto(t, "wait", arg[t]) \/ Goto(t, "null", arg[t])
    BY <1>5 DEF Recheck, Cancel
  <2>2. CASE Goto(t, "wait", arg[t])
    BY <1>5, <2>2 DEF Recheck
  <2>3. CASE Goto(t, "null", arg[t])
    BY <1>5, <2>3 DEF Recheck
  <2> QED
    BY <2>1, <2>2, <2>3
<1>6. CASE NullCb(t)
  BY <1>6 DEF NullCb
<1> QED
  BY <1>1, <1>2, <1>3, <1>4, <1>5, <1>6 DEF ThreadStep

LEMMA MainStepControl ==
    ASSUME TypeOK, Control, MainStep
    PROVE  Control'
<1> USE ThreadsType, TasksType
        DEF TypeOK, Control, Waiting, shared, tasks, loop, Goto
<1>1. CASE Start
  BY <1>1 DEF Start
<1>2. CASE Stop
  BY <1>2 DEF Stop
<1>3. CASE StopPoke
  BY <1>3 DEF StopPoke
<1>4. CASE Join
  BY <1>4 DEF Join
<1> QED
  BY <1>1, <1>2, <1>3, <1>4 DEF MainStep

LEMMA WorkerStepControl ==
    ASSUME TypeOK, Control, WorkerStep
    PROVE  Control'
<1> USE ThreadsType, TasksType
        DEF TypeOK, Control, Waiting, shared, tasks, loop, Step
<1>1. CASE Boot \/ Exit \/ PollFail \/ PollIntr \/ NoRx \/ RxDone
  BY <1>1 DEF Boot, Exit, PollFail, PollIntr, NoRx, RxDone
<1>2. CASE Top \/ EnterPoll
  BY <1>2 DEF Top, EnterPoll
<1>3. CASE PollReturn
  BY <1>3 DEF PollReturn, Events
<1>4. CASE TakeTodo \/ SkipJob \/ DrainPipe
  BY <1>4 DEF TakeTodo, SkipJob, DrainPipe
<1>5. CASE RunJob
  <2>1. Head(batch) \in Jobs
    BY <1>5 DEF RunJob
  <2>2. cur = None /\ busy = {}
    BY <1>5 DEF RunJob, Tasks
  <2> QED
    BY <1>5, <2>1, <2>2 DEF RunJob, Begin
<1>6. CASE JobReturn
  BY <1>6 DEF JobReturn, NotifyAll
<1>7. CASE OpReturn
  BY <1>7 DEF OpReturn, NotifyAll
<1>8. CASE Rx \/ IgnoreMsg
  BY <1>8 DEF Rx, IgnoreMsg
<1>9. CASE RunOp
  <2>1. Addressee(Head(msgs)) \in Ops
    BY <1>9 DEF RunOp, Deliverable, Addressee
  <2>2. cur = None /\ busy = {}
    BY <1>9 DEF RunOp, Tasks
  <2> QED
    BY <1>9, <2>1, <2>2 DEF RunOp, Begin
<1>10. CASE Tx \/ TxBlocked
  BY <1>10 DEF Tx, TxBlocked, Sending
<1>11. CASE TxCrash \/ TxDone
  BY <1>11 DEF TxCrash, TxDone, Sending
<1> QED
  BY <1>1, <1>2, <1>3, <1>4, <1>5, <1>6, <1>7, <1>8, <1>9, <1>10, <1>11
     DEF WorkerStep

-----------------------------------------------------------------------------
(* Who answers for a task                                                  *)

LEMMA InitOwnership == Init => Ownership /\ OpsLive
BY ThreadsType DEF Init, Ownership, OpsLive, Waiting

\* Ownership outlives a step that cancels tasks at most, ends callbacks at most
\* and leaves the waiting threads, and those that destroy a callback, where
\* they are.
LEMMA OwnershipFrame ==
    ASSUME Ownership,
           done \subseteq done', busy' \subseteq busy, UNCHANGED <<cbs, held>>,
           \A u \in Threads :
               /\ Waiting(u)' <=> Waiting(u)
               /\ pc'[u] = "null" <=> pc[u] = "null"
               /\ Waiting(u) \/ pc[u] = "null" => arg'[u] = arg[u]
    PROVE  Ownership'
<1>1. ASSUME NEW x \in Tasks \ done'
      PROVE  x \in cbs' /\ (x \in held' \/ \E t \in Clients : Waiting(t)' /\ arg'[t] = x)
  BY ThreadsType DEF Ownership
<1>2. ASSUME NEW t \in Threads, Waiting(t)'
      PROVE  /\ arg'[t] \notin held'
             /\ \A u \in Threads \ {t} : Waiting(u)' => arg'[u] # arg'[t]
  BY <1>2 DEF Ownership
<1>3. ASSUME NEW t \in Threads, pc'[t] = "null"
      PROVE  arg'[t] \in done' /\ (t \in Clients => arg'[t] \notin busy')
  BY <1>3 DEF Ownership
<1> QED
  BY <1>1, <1>2, <1>3 DEF Ownership

LEMMA ThreadStepOwnership ==
    ASSUME TypeOK, Control, Ownership, NEW t \in Threads, ThreadStep(t)
    PROVE  Ownership'
<1> USE ThreadsType, TasksType
        DEF TypeOK, Control, Ownership, Waiting, shared, tasks, loop, Goto,
            CanCall
<1>1. ASSUME NEW j \in Jobs, Submit(t, j) PROVE Ownership'
  <2>1. Goto(t, "poke", j) \/ UNCHANGED <<pc, arg>>
    BY <1>1 DEF Submit
  <2>2. /\ done' = done \ {j} /\ cbs' = cbs \cup {j} /\ held' = held \cup {j}
        /\ UNCHANGED busy
        /\ pc[t] = "idle"
    BY <1>1 DEF Submit
  <2>3. \A u \in Threads : pc[u] # "idle" => arg[u] # j
    BY <1>1 DEF Submit, Free
  <2>4. \A u \in Threads : /\ Waiting(u)' <=> Waiting(u)
                           /\ pc'[u] = "null" <=> pc[u] = "null"
                           /\ Waiting(u) \/ pc[u] = "null" =>
                                arg'[u] = arg[u] /\ arg[u] # j
    BY <2>1, <2>2, <2>3
  <2> HIDE DEF Waiting
  <2>5. ASSUME NEW x \in Tasks \ done'
        PROVE  /\ x \in cbs'
               /\ x \in held' \/ \E u \in Clients : Waiting(u)' /\ arg'[u] = x
    <3>1. CASE x = j
      BY <2>2, <3>1
    <3>2. CASE x # j
      <4>1. /\ x \in cbs
            /\ x \in held \/ \E u \in Clients : Waiting(u) /\ arg[u] = x
        BY <2>2, <2>5, <3>2
      <4>2. CASE x \in held
        BY <2>2, <4>1, <4>2
      <4>3. CASE \E u \in Clients : Waiting(u) /\ arg[u] = x
        BY <2>2, <2>4, <4>1, <4>3
      <4> QED
        BY <4>1, <4>2, <4>3
    <3> QED
      BY <3>1, <3>2
  <2>6. ASSUME NEW u \in Threads, Waiting(u)'
        PROVE  /\ arg'[u] \notin held'
               /\ \A v \in Threads \ {u} : Waiting(v)' => arg'[v] # arg'[u]
    BY <2>2, <2>4, <2>6
  <2>7. ASSUME NEW u \in Threads, pc'[u] = "null"
        PROVE  arg'[u] \in done' /\ (u \in Clients => arg'[u] \notin busy')
    BY <2>2, <2>4, <2>7
  <2> QED
    BY <2>5, <2>6, <2>7
<1>2. ASSUME NEW o \in Ops, Request(t, o) PROVE Ownership'
  <2>1. Goto(t, "poke", o) \/ UNCHANGED <<pc, arg>>
    BY <1>2 DEF Request
  <2>2. /\ done' = done \ {o} /\ cbs' = cbs \cup {o} /\ held' = held \cup {o}
        /\ UNCHANGED busy
        /\ pc[t] = "idle"
    BY <1>2 DEF Request
  <2>3. \A u \in Threads : pc[u] # "idle" => arg[u] # o
    BY <1>2 DEF Request, Free
  <2>4. \A u \in Threads : /\ Waiting(u)' <=> Waiting(u)
                           /\ pc'[u] = "null" <=> pc[u] = "null"
                           /\ Waiting(u) \/ pc[u] = "null" =>
                                arg'[u] = arg[u] /\ arg[u] # o
    BY <2>1, <2>2, <2>3
  <2> HIDE DEF Waiting
  <2>5. ASSUME NEW x \in Tasks \ done'
        PROVE  /\ x \in cbs'
               /\ x \in held' \/ \E u \in Clients : Waiting(u)' /\ arg'[u] = x
    <3>1. CASE x = o
      BY <2>2, <3>1
    <3>2. CASE x # o
      <4>1. /\ x \in cbs
            /\ x \in held \/ \E u \in Clients : Waiting(u) /\ arg[u] = x
        BY <2>2, <2>5, <3>2
      <4>2. CASE x \in held
        BY <2>2, <4>1, <4>2
      <4>3. CASE \E u \in Clients : Waiting(u) /\ arg[u] = x
        BY <2>2, <2>4, <4>1, <4>3
      <4> QED
        BY <4>1, <4>2, <4>3
    <3> QED
      BY <3>1, <3>2
  <2>6. ASSUME NEW u \in Threads, Waiting(u)'
        PROVE  /\ arg'[u] \notin held'
               /\ \A v \in Threads \ {u} : Waiting(v)' => arg'[v] # arg'[u]
    BY <2>2, <2>4, <2>6
  <2>7. ASSUME NEW u \in Threads, pc'[u] = "null"
        PROVE  arg'[u] \in done' /\ (u \in Clients => arg'[u] \notin busy')
    BY <2>2, <2>4, <2>7
  <2> QED
    BY <2>5, <2>6, <2>7
<1>3. ASSUME NEW x \in Tasks, Drop(t, x) PROVE Ownership'
  <2>1. /\ held' = held \ {x} /\ x \in held
        /\ UNCHANGED <<busy, cbs>>
        /\ pc[t] = "idle"
    BY <1>3 DEF Drop
  <2>2. CASE MustWait(t, x)
    <3>1. t \in Clients /\ UNCHANGED done /\ Goto(t, "wait", x)
      BY <1>3, <2>2 DEF Drop, MustWait, Threads
    <3>2. /\ Waiting(t)' /\ arg'[t] = x /\ ~Waiting(t) /\ pc'[t] # "null"
          /\ \A u \in Threads \ {t} : pc'[u] = pc[u] /\ arg'[u] = arg[u]
      BY <2>1, <3>1
    <3>3. ASSUME NEW y \in Tasks \ done'
          PROVE  /\ y \in cbs'
                 /\ y \in held' \/ \E u \in Clients : Waiting(u)' /\ arg'[u] = y
      BY <2>1, <3>1, <3>2
    <3>4. ASSUME NEW u \in Threads, Waiting(u)'
          PROVE  /\ arg'[u] \notin held'
                 /\ \A v \in Threads \ {u} : Waiting(v)' => arg'[v] # arg'[u]
      <4>1. arg'[u] \notin held'
        BY <2>1, <3>2, <3>4
      <4>2. ASSUME NEW v \in Threads \ {u}, Waiting(v)'
            PROVE  arg'[v] # arg'[u]
        <5>1. CASE u = t
          BY <2>1, <3>2, <4>2, <5>1
        <5>2. CASE v = t
          BY <2>1, <3>2, <3>4, <5>2
        <5>3. CASE u # t /\ v # t
          BY <3>2, <3>4, <4>2, <5>3
        <5> QED
          BY <5>1, <5>2, <5>3
      <4> QED
        BY <4>1, <4>2
    <3>5. ASSUME NEW u \in Threads, pc'[u] = "null"
          PROVE  arg'[u] \in done' /\ (u \in Clients => arg'[u] \notin busy')
      BY <2>1, <3>1, <3>2, <3>5
    <3> QED
      BY <3>3, <3>4, <3>5
  <2>3. CASE ~MustWait(t, x)
    <3>1. /\ done' = done \cup {x} /\ Goto(t, "null", x)
          /\ t \in Clients => x \notin busy
      BY <1>3, <2>3, ThreadAssumption DEF Drop, Cancel, MustWait
    <3> QED
      BY <2>1, <3>1
  <2> QED
    BY <2>2, <2>3
<1>4. CASE Poke(t)
  <2>1. /\ UNCHANGED <<done, busy, cbs, held>>
        /\ pc[t] = "poke" /\ Goto(t, "idle", None)
    BY <1>4 DEF Poke
  <2> QED
    BY <2>1, OwnershipFrame
<1>5. CASE Recheck(t)
  <2>1. /\ pc[t] = "woken"
        /\ UNCHANGED <<busy, cbs, held>>
    BY <1>5 DEF Recheck
  <2>2. CASE StillBusy(arg[t])
    <3>1. UNCHANGED done /\ Goto(t, "wait", arg[t])
      BY <1>5, <2>2 DEF Recheck
    <3> QED
      BY <2>1, <3>1
  <2>3. CASE ~StillBusy(arg[t])
    <3>1. /\ done' = done \cup {arg[t]} /\ Goto(t, "null", arg[t])
          /\ arg[t] \notin busy
      BY <1>5, <2>3 DEF Recheck, Cancel, StillBusy
    <3> QED
      BY <2>1, <3>1
  <2> QED
    BY <2>2, <2>3
<1>6. CASE NullCb(t)
  BY <1>6 DEF NullCb
<1> QED
  BY <1>1, <1>2, <1>3, <1>4, <1>5, <1>6 DEF ThreadStep

LEMMA MainStepOwnership ==
    ASSUME TypeOK, Control, Ownership, MainStep
    PROVE  Ownership'
<1> USE ThreadsType
        DEF TypeOK, Control, Ownership, Waiting, shared, tasks, loop, Goto,
            CanCall
<1>1. CASE Start
  BY <1>1 DEF Start
<1>2. CASE Stop
  BY <1>2, OwnershipFrame DEF Stop
<1>3. CASE StopPoke
  BY <1>3, OwnershipFrame DEF StopPoke
<1>4. CASE Join
  BY <1>4, OwnershipFrame DEF Join
<1> QED
  BY <1>1, <1>2, <1>3, <1>4 DEF MainStep

\* The worker disturbs Ownership only when a callback begins or returns.
LEMMA WorkerStepOwnership ==
    ASSUME TypeOK, Control, Ownership, WorkerStep
    PROVE  Ownership'
<1> USE ThreadsType DEF Ownership, Waiting, tasks
<1>1. CASE UNCHANGED <<tasks, pc, arg>>
  BY <1>1
<1>2. CASE RunJob \/ RunOp
  <2>1. PICK x : x \notin done /\ busy' = busy \cup {x}
    BY <1>2 DEF RunJob, RunOp, Begin, Runnable, Deliverable
  <2>2. UNCHANGED <<done, cbs, held, pc, arg>>
    BY <1>2 DEF RunJob, RunOp
  <2> QED
    BY <2>1, <2>2
<1>3. CASE JobReturn \/ OpReturn
  <2>1. /\ busy' \subseteq busy /\ done \subseteq done'
        /\ UNCHANGED <<cbs, held, arg>>
    BY <1>3 DEF JobReturn, OpReturn
  <2>2. \A t \in Threads : /\ Waiting(t)' <=> Waiting(t)
                           /\ pc'[t] = "null" <=> pc[t] = "null"
    BY <1>3 DEF JobReturn, OpReturn, NotifyAll
  <2> QED
    BY <2>1, <2>2
<1> QED
  BY <1>1, <1>2, <1>3
     DEF WorkerStep, Boot, Top, Exit, EnterPoll, PollReturn, PollIntr, PollFail,
         TakeTodo, SkipJob, DrainPipe, Rx, NoRx, IgnoreMsg, RxDone, Tx,
         TxBlocked, TxCrash, TxDone, shared, tasks, loop

-----------------------------------------------------------------------------
(* The map of handlers                                                     *)

LEMMA InitHandlers == Init => HandlersExact
BY TasksType DEF Init, HandlersExact

\* A step that leaves the map, the numbers and the operations alone.
LEMMA HandlersFrame ==
    ASSUME HandlersExact, OpsLive, UNCHANGED <<handlers, seqOf>>,
           \A o \in Ops : o \in done' <=> o \in done,
           \A o \in Ops : o \in held' => o \in held,
           \A u \in Clients : Waiting(u)' =>
               \/ Waiting(u) /\ arg'[u] = arg[u]
               \/ arg'[u] \in held \/ arg'[u] \notin done
    PROVE  HandlersExact' /\ OpsLive'
BY DEF HandlersExact, OpsLive

\* Cancelling a task that nobody else holds or waits for.
LEMMA CancelHandlers ==
    ASSUME TypeOK, HandlersExact, OpsLive,
           NEW t \in Threads, NEW x \in Tasks, Cancel(t, x),
           UNCHANGED seqOf, held' \subseteq held, x \notin held',
           x \in Ops => x \notin done,
           \A u \in Threads \ {t} : Waiting(u) => arg[u] # x
    PROVE  HandlersExact' /\ OpsLive'
<1>1. /\ done' = done \cup {x}
      /\ pc' = [pc EXCEPT ![t] = "null"] /\ arg' = [arg EXCEPT ![t] = x]
  BY DEF Cancel, Goto
<1>2. \A u \in Threads : Waiting(u)' => u # t /\ Waiting(u) /\ arg'[u] = arg[u]
  BY <1>1 DEF TypeOK, Waiting
<1>3. OpsLive'
  BY <1>1, <1>2, ThreadsType DEF OpsLive
<1>4. CASE x \in Ops
  <2>1. handlers' = [handlers EXCEPT ![seqOf[x]] = None]
    BY <1>4 DEF Cancel, EraseEntry
  <2>2. seqOf[x] \in Seqs /\ handlers \in [Seqs -> Ops \cup {None}]
    BY <1>4 DEF TypeOK
  <2>3. ASSUME NEW s \in Seqs, NEW o \in Ops
        PROVE  handlers'[s] = o <=> o \notin done' /\ seqOf'[o] = s
    <3>1. handlers[s] = o <=> o \notin done /\ seqOf[o] = s
      BY DEF HandlersExact
    <3>2. handlers[s] = x <=> x \notin done /\ seqOf[x] = s
      BY <1>4 DEF HandlersExact
    <3>3. CASE s = seqOf[x]
      BY <1>1, <1>4, <2>1, <2>2, <3>1, <3>2, <3>3, TasksType
    <3>4. CASE s # seqOf[x]
      BY <1>1, <1>4, <2>1, <2>2, <3>1, <3>2, <3>4
    <3> QED
      BY <3>3, <3>4
  <2> QED
    BY <1>3, <2>3 DEF HandlersExact
<1>5. CASE x \notin Ops
  <2>1. handlers' = handlers
    BY <1>5 DEF Cancel, EraseEntry
  <2> QED
    BY <1>1, <1>3, <1>5, <2>1 DEF HandlersExact
<1> QED
  BY <1>4, <1>5

LEMMA ThreadStepHandlers ==
    ASSUME TypeOK, Control, Ownership, HandlersExact, OpsLive,
           NEW t \in Threads, ThreadStep(t)
    PROVE  HandlersExact' /\ OpsLive'
<1> USE DEF shared, tasks
<1>1. ASSUME NEW j \in Jobs, Submit(t, j) PROVE HandlersExact' /\ OpsLive'
  <2>1. /\ done' = done \ {j} /\ held' = held \cup {j}
        /\ UNCHANGED <<handlers, seqOf>>
    BY <1>1 DEF Submit
  <2>2. Goto(t, "poke", j) \/ UNCHANGED <<pc, arg>>
    BY <1>1 DEF Submit
  <2>3. \A u \in Clients : Waiting(u)' => Waiting(u) /\ arg'[u] = arg[u]
    BY <2>2, ThreadsType DEF Goto, Waiting, TypeOK
  <2> QED
    BY <2>1, <2>3, TasksType, HandlersFrame
<1>2. ASSUME NEW o \in Ops, Request(t, o) PROVE HandlersExact' /\ OpsLive'
  <2>1. PICK s \in Seqs : /\ handlers[s] = None
                          /\ seqOf' = [seqOf EXCEPT ![o] = s]
                          /\ handlers' = [handlers EXCEPT ![s] = o]
    BY <1>2 DEF Request, NextFree
  <2>2. done' = done \ {o} /\ held' = held \cup {o}
    BY <1>2 DEF Request
  <2>3. Goto(t, "poke", o) \/ UNCHANGED <<pc, arg>>
    BY <1>2 DEF Request
  <2>4. \A u \in Clients : Waiting(u)' => Waiting(u) /\ arg'[u] = arg[u]
    BY <2>3, ThreadsType DEF Goto, Waiting, TypeOK
  <2>5. o \in done
    <3>1. o \notin held /\ \A u \in Threads : pc[u] # "idle" => arg[u] # o
      BY <1>2 DEF Request, Free
    <3> QED
      BY <3>1, TasksType, ThreadsType DEF Ownership, Waiting
  <2>6. ASSUME NEW r \in Seqs, NEW p \in Ops
        PROVE  handlers'[r] = p <=> p \notin done' /\ seqOf'[p] = r
    <3>1. handlers[r] = p <=> p \notin done /\ seqOf[p] = r
      BY DEF HandlersExact
    <3>2. handlers[s] = p <=> p \notin done /\ seqOf[p] = s
      BY DEF HandlersExact
    <3>3. CASE p = o
      BY <2>1, <2>2, <2>5, <3>1, <3>3 DEF TypeOK
    <3>4. CASE p # o
      BY <2>1, <2>2, <3>1, <3>2, <3>4, TasksType DEF TypeOK
    <3> QED
      BY <3>3, <3>4
  <2>7. OpsLive'
    BY <2>2, <2>4 DEF OpsLive
  <2> QED
    BY <2>6, <2>7 DEF HandlersExact
<1>3. ASSUME NEW x \in Tasks, Drop(t, x) PROVE HandlersExact' /\ OpsLive'
  <2>1. x \in held /\ held' = held \ {x} /\ UNCHANGED seqOf
    BY <1>3 DEF Drop
  <2>2. CASE MustWait(t, x)
    <3>1. UNCHANGED <<done, handlers>> /\ Goto(t, "wait", x)
      BY <1>3, <2>2 DEF Drop
    <3>2. \A u \in Clients : Waiting(u)' =>
            \/ Waiting(u) /\ arg'[u] = arg[u]
            \/ arg'[u] \in held
      BY <2>1, <3>1, ThreadsType DEF Goto, Waiting, TypeOK
    <3> QED
      BY <2>1, <3>1, <3>2, HandlersFrame
  <2>3. CASE ~MustWait(t, x)
    <3>1. Cancel(t, x)
      BY <1>3, <2>3 DEF Drop
    <3>2. x \in Ops => x \notin done
      BY <2>1 DEF OpsLive
    <3>3. \A u \in Threads \ {t} : Waiting(u) => arg[u] # x
      BY <2>1 DEF Ownership
    <3> QED
      BY <2>1, <3>1, <3>2, <3>3, CancelHandlers
  <2> QED
    BY <2>2, <2>3
<1>4. CASE Poke(t)
  <2>1. UNCHANGED <<done, held, handlers, seqOf>> /\ Goto(t, "idle", None)
    BY <1>4 DEF Poke
  <2>2. \A u \in Clients : Waiting(u)' => Waiting(u) /\ arg'[u] = arg[u]
    BY <2>1, ThreadsType DEF Goto, Waiting, TypeOK
  <2> QED
    BY <2>1, <2>2, HandlersFrame
<1>5. CASE Recheck(t)
  <2>1. pc[t] = "woken" /\ UNCHANGED <<held, seqOf>>
    BY <1>5 DEF Recheck
  <2>2. Waiting(t) /\ t \in Clients /\ arg[t] \in Tasks
    BY <2>1 DEF Control, Waiting
  <2>3. CASE StillBusy(arg[t])
    <3>1. UNCHANGED <<done, handlers>> /\ Goto(t, "wait", arg[t])
      BY <1>5, <2>3 DEF Recheck
    <3>2. \A u \in Clients : Waiting(u)' => Waiting(u) /\ arg'[u] = arg[u]
      BY <2>2, <3>1, ThreadsType DEF Goto, Waiting, TypeOK
    <3> QED
      BY <2>1, <3>1, <3>2, HandlersFrame
  <2>4. CASE ~StillBusy(arg[t])
    <3>1. Cancel(t, arg[t])
      BY <1>5, <2>4 DEF Recheck
    <3>2. arg[t] \in Ops => arg[t] \notin done
      BY <2>2 DEF OpsLive
    <3>3. /\ arg[t] \notin held
          /\ \A u \in Threads \ {t} : Waiting(u) => arg[u] # arg[t]
      BY <2>2 DEF Ownership
    <3> QED
      BY <2>1, <2>2, <3>1, <3>2, <3>3, CancelHandlers
  <2> QED
    BY <2>3, <2>4
<1>6. CASE NullCb(t)
  <2>1. UNCHANGED <<done, held, handlers, seqOf>> /\ Goto(t, "idle", None)
    BY <1>6 DEF NullCb
  <2>2. \A u \in Clients : Waiting(u)' => Waiting(u) /\ arg'[u] = arg[u]
    BY <2>1, ThreadsType DEF Goto, Waiting, TypeOK
  <2> QED
    BY <2>1, <2>2, HandlersFrame
<1> QED
  BY <1>1, <1>2, <1>3, <1>4, <1>5, <1>6 DEF ThreadStep

LEMMA OtherStepHandlers ==
    ASSUME TypeOK, Control, HandlersExact, OpsLive, MainStep \/ WorkerStep
    PROVE  HandlersExact' /\ OpsLive'
<1>1. UNCHANGED <<held, handlers, seqOf>>
  BY DEF MainStep, Start, Stop, StopPoke, Join, WorkerStep, Boot, Top, Exit,
         EnterPoll, PollReturn, PollIntr, PollFail, TakeTodo, RunJob, SkipJob,
         JobReturn, DrainPipe, Rx, NoRx, RunOp, IgnoreMsg, OpReturn, RxDone, Tx,
         TxBlocked, TxCrash, TxDone, shared, tasks
<1>2. \A o \in Ops : o \in done' <=> o \in done
  <2>1. CASE JobReturn
    <3>1. done' = done \cup {cur} /\ cur \in Jobs
      BY <2>1 DEF JobReturn, Step, Control
    <3> QED
      BY <3>1, TasksType
  <2>2. CASE ~JobReturn
    BY <2>2
       DEF MainStep, Start, Stop, StopPoke, Join, WorkerStep, Boot, Top, Exit,
           EnterPoll, PollReturn, PollIntr, PollFail, TakeTodo, RunJob, SkipJob,
           DrainPipe, Rx, NoRx, RunOp, IgnoreMsg, OpReturn, RxDone, Tx,
           TxBlocked, TxCrash, TxDone, shared, tasks
  <2> QED
    BY <2>1, <2>2
<1>3. \A u \in Clients : Waiting(u)' => Waiting(u) /\ arg'[u] = arg[u]
  <2>1. CASE MainStep
    BY <2>1, ThreadsType
       DEF MainStep, Start, Stop, StopPoke, Join, Goto, Waiting, TypeOK
  <2>2. CASE JobReturn \/ OpReturn
    BY <2>2, ThreadsType DEF JobReturn, OpReturn, NotifyAll, Waiting
  <2>3. CASE WorkerStep /\ ~JobReturn /\ ~OpReturn
    <3>1. UNCHANGED <<pc, arg>>
      BY <2>3
         DEF WorkerStep, Boot, Top, Exit, EnterPoll, PollReturn, PollIntr,
             PollFail, TakeTodo, RunJob, SkipJob, DrainPipe, Rx, NoRx, RunOp,
             IgnoreMsg, RxDone, Tx, TxBlocked, TxCrash, TxDone
    <3> QED
      BY <3>1 DEF Waiting
  <2> QED
    BY <2>1, <2>2, <2>3
<1> QED
  BY <1>1, <1>2, <1>3, HandlersFrame

-----------------------------------------------------------------------------
(* No job is forgotten                                                     *)

LEMMA RangeEmpty == Range(<<>>) = {}
BY DEF Range

LEMMA RangeAppend ==
    ASSUME NEW S, NEW q \in Seq(S), NEW x
    PROVE  Range(Append(q, x)) = Range(q) \cup {x}
<1>1. Range(Append(q, x)) \subseteq Range(q) \cup {x}
  BY DEF Range
<1>2. x \in Range(Append(q, x))
  <2>1. Len(q) + 1 \in DOMAIN Append(q, x) /\ Append(q, x)[Len(q) + 1] = x
    OBVIOUS
  <2> QED
    BY <2>1 DEF Range
<1>3. ASSUME NEW i \in DOMAIN q PROVE q[i] \in Range(Append(q, x))
  <2>1. i \in DOMAIN Append(q, x) /\ Append(q, x)[i] = q[i]
    OBVIOUS
  <2> QED
    BY <2>1 DEF Range
<1> QED
  BY <1>1, <1>2, <1>3 DEF Range

LEMMA RangeTail ==
    ASSUME NEW S, NEW q \in Seq(S), q # <<>>
    PROVE  Range(q) = Range(Tail(q)) \cup {Head(q)}
<1>1. ASSUME NEW i \in DOMAIN q PROVE q[i] \in Range(Tail(q)) \cup {Head(q)}
  <2>1. CASE i = 1
    BY <2>1
  <2>2. CASE i # 1
    <3>1. i - 1 \in DOMAIN Tail(q) /\ Tail(q)[i - 1] = q[i]
      BY <2>2
    <3> QED
      BY <3>1 DEF Range
  <2> QED
    BY <2>1, <2>2
<1>2. ASSUME NEW i \in DOMAIN Tail(q) PROVE Tail(q)[i] \in Range(q)
  <2>1. i + 1 \in DOMAIN q /\ q[i + 1] = Tail(q)[i]
    OBVIOUS
  <2> QED
    BY <2>1 DEF Range
<1>3. Head(q) \in Range(q)
  <2>1. 1 \in DOMAIN q /\ q[1] = Head(q)
    OBVIOUS
  <2> QED
    BY <2>1 DEF Range
<1> QED
  BY <1>1, <1>2, <1>3 DEF Range

LEMMA InitQueued == Init => Queued
BY TasksType DEF Init, Queued

\* A step that accepts no job and takes none off the queues.
LEMMA QueuedFrame ==
    ASSUME Queued, done \subseteq done', UNCHANGED <<todo, batch, cur>>
    PROVE  Queued'
BY DEF Queued

LEMMA StepQueued ==
    ASSUME TypeOK, Control, Ownership, Queued, Next
    PROVE  Queued'
<1> USE DEF shared, tasks, loop
<1>1. ASSUME NEW t \in Threads, ThreadStep(t) PROVE Queued'
  <2>1. ASSUME NEW j \in Jobs, Submit(t, j) PROVE Queued'
    <3>1. todo' = Append(todo, j) /\ done' = done \ {j} /\ UNCHANGED <<batch, cur>>
      BY <2>1 DEF Submit
    <3>2. Range(todo') = Range(todo) \cup {j}
      BY <3>1, RangeAppend DEF TypeOK
    <3> QED
      BY <3>1, <3>2 DEF Queued
  <2>2. ASSUME NEW o \in Ops, Request(t, o) PROVE Queued'
    <3>1. done' = done \ {o} /\ UNCHANGED <<todo, batch, cur>>
      BY <2>2 DEF Request
    <3> QED
      BY <3>1, TasksType DEF Queued
  <2>3. CASE \E x \in Tasks : Drop(t, x)
    BY <2>3, QueuedFrame DEF Drop, Cancel
  <2>4. CASE Poke(t) \/ Recheck(t) \/ NullCb(t)
    BY <2>4, QueuedFrame DEF Poke, Recheck, NullCb, Cancel
  <2> QED
    BY <1>1, <2>1, <2>2, <2>3, <2>4 DEF ThreadStep
<1>2. CASE MainStep
  BY <1>2, QueuedFrame DEF MainStep, Start, Stop, StopPoke, Join
<1>3. CASE WorkerStep
  <2>1. CASE TakeTodo
    <3>1. batch' = todo /\ UNCHANGED <<done, cur>>
      BY <2>1 DEF TakeTodo
    <3>2. batch = <<>>
      BY <2>1 DEF TakeTodo, Step, Control
    <3> QED
      BY <3>1, <3>2, RangeEmpty DEF Queued
  <2>2. CASE RunJob
    <3>1. /\ batch # <<>> /\ batch' = Tail(batch) /\ cur' = Head(batch)
          /\ UNCHANGED <<todo, done>>
      BY <2>2 DEF RunJob, Begin
    <3>2. cur \notin Jobs
      BY <2>2 DEF RunJob, Step, Control
    <3>3. Range(batch) = Range(batch') \cup {cur'}
      BY <3>1, RangeTail DEF TypeOK
    <3> QED
      BY <3>1, <3>2, <3>3 DEF Queued
  <2>3. CASE SkipJob
    <3>1. /\ batch # <<>> /\ batch' = Tail(batch)
          /\ UNCHANGED <<todo, done, cur>>
      BY <2>3 DEF SkipJob
    <3>2. Head(batch) \notin Jobs \ done
      BY <2>3, TasksType DEF SkipJob, Runnable, Ownership
    <3>3. Range(batch) = Range(batch') \cup {Head(batch)}
      BY <3>1, RangeTail DEF TypeOK
    <3> QED
      BY <3>1, <3>2, <3>3 DEF Queued
  <2>4. CASE JobReturn
    <3>1. done' = done \cup {cur} /\ UNCHANGED <<todo, batch>>
      BY <2>4 DEF JobReturn
    <3> QED
      BY <3>1 DEF Queued
  <2>5. CASE RunOp \/ OpReturn
    <3>1. UNCHANGED <<todo, batch, done>> /\ cur \notin Jobs
      BY <2>5, TasksType DEF RunOp, OpReturn, Step, Control
    <3> QED
      BY <3>1 DEF Queued
  <2>6. CASE \/ Boot \/ Top \/ Exit \/ EnterPoll \/ PollReturn \/ PollIntr
             \/ PollFail \/ DrainPipe \/ Rx \/ NoRx \/ IgnoreMsg \/ RxDone
             \/ Tx \/ TxBlocked \/ TxCrash \/ TxDone
    BY <2>6, QueuedFrame
       DEF Boot, Top, Exit, EnterPoll, PollReturn, PollIntr, PollFail,
           DrainPipe, Rx, NoRx, IgnoreMsg, RxDone, Tx, TxBlocked, TxCrash,
           TxDone
  <2> QED
    BY <1>3, <2>1, <2>2, <2>3, <2>4, <2>5, <2>6 DEF WorkerStep
<1>4. CASE Terminated
  BY <1>4, QueuedFrame DEF Terminated, vars
<1> QED
  BY <1>1, <1>2, <1>3, <1>4 DEF Next

-----------------------------------------------------------------------------
(* No wake-up is lost                                                      *)

LEMMA InitAwake == Init => Awake
BY DEF Init, Awake, NoLostWakeup

\* A step of a thread that was not about to poke.
LEMMA PokeFrame ==
    ASSUME TypeOK, NEW t \in Threads, pc[t] \notin {"poke", "stopping"},
           NEW l, NEW x, Goto(t, l, x) \/ UNCHANGED pc, PokePending
    PROVE  PokePending'
BY DEF TypeOK, PokePending, Goto

LEMMA ThreadStepAwake ==
    ASSUME TypeOK, Control, Awake, Requesters = {},
           NEW t \in Threads, ThreadStep(t)
    PROVE  Awake'
<1> USE DEF shared, tasks, loop
<1>1. ASSUME NEW j \in Jobs, Submit(t, j) PROVE Awake'
  <2>1. /\ UNCHANGED <<running, ready, wpc, pollout, timeout, pipe>>
        /\ pc[t] = "idle" /\ running
    BY <1>1 DEF Submit, CanCall
  <2>2. todo' # <<>>
    <3>1. todo' = Append(todo, j) /\ todo \in Seq(Jobs)
      BY <1>1 DEF Submit, TypeOK
    <3> QED
      BY <3>1
  <2>3. CASE WakeNeeded
    <3>1. PokePending'
      BY <1>1, <2>3 DEF Submit, Goto, PokePending, TypeOK
    <3> QED
      BY <2>1, <2>2, <3>1 DEF Awake, NoLostWakeup
  <2>4. CASE ~WakeNeeded
    <3>1. PokePending => PokePending'
      BY <1>1, <2>4 DEF Submit, PokePending
    <3> QED
      BY <2>1, <2>2, <2>4, <3>1 DEF Awake, NoLostWakeup, WakeNeeded
  <2> QED
    BY <2>3, <2>4
<1>2. ASSUME NEW o \in Ops, Request(t, o) PROVE Awake'
  <2>1. wpc \in {"idle", "job", "op"} /\ UNCHANGED wpc
    BY <1>2 DEF Request, MayRequest, CanCall
  <2> QED
    BY <2>1 DEF Awake, NoLostWakeup
<1>3. CASE (\E x \in Tasks : Drop(t, x)) \/ Recheck(t) \/ NullCb(t)
  <2>1. UNCHANGED <<running, todo, ready, wpc, pollout, timeout, pipe>>
    BY <1>3 DEF Drop, Recheck, NullCb
  <2>2. PokePending => PokePending'
    <3>1. pc[t] \notin {"poke", "stopping"}
      BY <1>3 DEF Drop, Recheck, NullCb, CanCall
    <3>2. \E l, x : Goto(t, l, x)
      BY <1>3 DEF Drop, Recheck, NullCb, Cancel
    <3> QED
      BY <3>1, <3>2, PokeFrame
  <2> QED
    BY <2>1, <2>2 DEF Awake, NoLostWakeup
<1>4. CASE Poke(t)
  <2>1. UNCHANGED <<running, todo, ready, wpc, pollout, timeout>> /\ pipe' > 0
    BY <1>4 DEF Poke, TypeOK
  <2> QED
    BY <2>1 DEF Awake, NoLostWakeup
<1> QED
  BY <1>1, <1>2, <1>3, <1>4 DEF ThreadStep

LEMMA OtherStepAwake ==
    ASSUME TypeOK, Control, Awake, MainStep \/ WorkerStep
    PROVE  Awake'
<1> USE DEF shared, tasks, loop, Step
<1>1. CASE Stop
  <2>1. PokePending'
    BY <1>1, ThreadsType DEF Stop, Goto, PokePending, TypeOK
  <2>2. UNCHANGED <<todo, ready, wpc, pollout, timeout, pipe>>
    BY <1>1 DEF Stop
  <2> QED
    BY <2>1, <2>2 DEF Awake, NoLostWakeup
<1>2. CASE StopPoke
  <2>1. UNCHANGED <<running, todo, ready, wpc, pollout, timeout>> /\ pipe' > 0
    BY <1>2 DEF StopPoke, TypeOK
  <2> QED
    BY <2>1 DEF Awake, NoLostWakeup
<1>3. CASE Start \/ Join
  BY <1>3 DEF Start, Join, Awake, NoLostWakeup
<1>4. CASE Top
  BY <1>4 DEF Top, KeepRunning, PolloutWanted, Awake, NoLostWakeup
<1>5. CASE EnterPoll
  BY <1>5 DEF EnterPoll, PokePending, Awake, NoLostWakeup
<1>6. CASE WorkerStep /\ ~Top /\ ~EnterPoll
  <2>1. wpc' \notin {"poll", "wait"}
    BY <1>6
       DEF WorkerStep, Boot, Exit, PollReturn, PollIntr, PollFail, TakeTodo,
           RunJob, SkipJob, JobReturn, DrainPipe, Rx, NoRx, RunOp, IgnoreMsg,
           OpReturn, RxDone, Tx, TxBlocked, TxCrash, TxDone, Sending
  <2> QED
    BY <2>1 DEF Awake, NoLostWakeup
<1> QED
  BY <1>1, <1>2, <1>3, <1>4, <1>5, <1>6 DEF MainStep

-----------------------------------------------------------------------------
(* Stopping                                                                *)

LEMMA InitShutdown == Init => Shutdown
BY ThreadsType DEF Init, Shutdown

LEMMA StepShutdown ==
    ASSUME TypeOK, Control, Shutdown, ~PollMayFail, Next
    PROVE  Shutdown'
<1> USE DEF shared, tasks, loop
<1>1. ASSUME NEW t \in Threads, ThreadStep(t) PROVE Shutdown'
  <2>1. UNCHANGED <<running, wpc>>
    BY <1>1 DEF ThreadStep, Submit, Request, Drop, Poke, Recheck, NullCb
  <2>2. ~running => UNCHANGED todo
    BY <1>1 DEF ThreadStep, Submit, Request, Drop, Poke, Recheck, NullCb
  <2>3. pc'[Main] \in {"stopping", "join"} => pc[Main] \in {"stopping", "join"}
    BY <1>1, ThreadsType
       DEF ThreadStep, Submit, Request, Drop, Poke, Recheck, NullCb, Cancel,
           Goto, TypeOK
  <2> QED
    BY <2>1, <2>2, <2>3 DEF Shutdown
<1>2. CASE MainStep
  BY <1>2, ThreadsType
     DEF MainStep, Start, Stop, StopPoke, Join, Goto, CanCall, Shutdown, TypeOK
<1>3. CASE WorkerStep
  <2>1. CASE JobReturn \/ OpReturn
    BY <2>1, ThreadsType DEF JobReturn, OpReturn, NotifyAll, Step, Shutdown
  <2>2. CASE Exit
    BY <2>2 DEF Exit, KeepRunning, Step, Shutdown
  <2>3. CASE \/ Boot \/ Top \/ EnterPoll \/ PollReturn \/ PollIntr
             \/ TakeTodo \/ RunJob \/ SkipJob \/ DrainPipe
             \/ Rx \/ NoRx \/ RunOp \/ IgnoreMsg \/ RxDone
             \/ Tx \/ TxBlocked \/ TxCrash \/ TxDone
    <3>1. wpc' \notin {"exited", "idle"} /\ UNCHANGED <<running, pc>>
      BY <2>3
         DEF Boot, Top, EnterPoll, PollReturn, PollIntr, TakeTodo, RunJob,
             SkipJob, DrainPipe, Rx, NoRx, RunOp, IgnoreMsg, RxDone, Tx,
             TxBlocked, TxCrash, TxDone, Step, Sending
    <3> QED
      BY <3>1 DEF Shutdown
  <2> QED
    BY <1>3, <2>1, <2>2, <2>3 DEF WorkerStep, PollFail
<1>4. CASE Terminated
  BY <1>4 DEF Terminated, vars, Shutdown
<1> QED
  BY <1>1, <1>2, <1>3, <1>4 DEF Next

-----------------------------------------------------------------------------
(* The invariants                                                          *)

\* A step that changes nothing preserves every part.
LEMMA Stutter ==
    ASSUME UNCHANGED vars
    PROVE  /\ IndInv => IndInv'
           /\ Awake => Awake'
           /\ Shutdown => Shutdown'
<1> USE DEF vars, shared, tasks, loop
<1>1. IndInv => IndInv'
  BY DEF IndInv, TypeOK, Control, Ownership, HandlersExact, OpsLive, Queued,
         Waiting
<1>2. Awake => Awake'
  BY DEF Awake, NoLostWakeup, PokePending
<1>3. Shutdown => Shutdown'
  BY DEF Shutdown
<1> QED
  BY <1>1, <1>2, <1>3

LEMMA IndInvStep == IndInv /\ [Next]_vars => IndInv'
<1> SUFFICES ASSUME IndInv, Next PROVE IndInv'
  BY Stutter
<1> USE DEF IndInv
<1>1. Queued'
  BY StepQueued
<1>2. ASSUME NEW t \in Threads, ThreadStep(t) PROVE IndInv'
  BY <1>1, <1>2, ThreadStepType, ThreadStepControl, ThreadStepOwnership,
     ThreadStepHandlers
<1>3. CASE MainStep
  BY <1>1, <1>3, MainStepType, MainStepControl, MainStepOwnership,
     OtherStepHandlers
<1>4. CASE WorkerStep
  BY <1>1, <1>4, WorkerStepType, WorkerStepControl, WorkerStepOwnership,
     OtherStepHandlers
<1>5. CASE Terminated
  BY <1>5, Stutter DEF Terminated
<1> QED
  BY <1>2, <1>3, <1>4, <1>5 DEF Next

THEOREM Invariance == Spec => []IndInv
<1>1. Init => IndInv
  BY InitType, InitControl, InitOwnership, InitHandlers, InitQueued DEF IndInv
<1> QED
  BY <1>1, IndInvStep, PTL DEF Spec

\* Every variable keeps its type, whatever the threads do (nlreact.cpp 95-119).
THEOREM TypeCorrect == Spec => []TypeOK
<1>1. IndInv => TypeOK
  BY DEF IndInv
<1> QED
  BY <1>1, Invariance, PTL

\* No callback executes once the handle of its task was dropped by another
\* thread, for any number of threads, jobs and operations (410-429, 465-481).
THEOREM DropIsSafe == Spec => []DropSafe
<1>1. IndInv => DropSafe
  <2> SUFFICES ASSUME IndInv PROVE DropSafe
    OBVIOUS
  <2>1. busy \subseteq Tasks
    BY DEF IndInv, TypeOK
  <2>2. \A x \in busy \ done :
            /\ x \in cbs
            /\ x \in held \/ \E t \in Clients : Waiting(t) /\ arg[t] = x
    BY <2>1 DEF IndInv, Ownership
  <2>3. \A t \in Clients : pc[t] = "null" => arg[t] \notin busy
    BY ThreadsType DEF IndInv, Ownership
  <2> QED
    BY <2>2, <2>3 DEF DropSafe, Waiting
<1> QED
  BY <1>1, Invariance, PTL

\* Pvt::handlers holds exactly the operations that are not cancelled, for any
\* number of operations and of sequence numbers above it (449-455, 476).
THEOREM HandlersAreExact == Spec => []HandlersExact
<1>1. IndInv => HandlersExact
  BY DEF IndInv
<1> QED
  BY <1>1, Invariance, PTL

\* The worker never sleeps on work, when requests come only from where this
\* program makes them (235-241, 402-407, 449-462).
THEOREM NoWakeupIsLost ==
    ASSUME Requesters = {}
    PROVE  Spec => []NoLostWakeup
<1>1. Init => Awake
  BY InitAwake
<1>2. IndInv /\ Awake /\ [Next]_vars => Awake'
  <2> SUFFICES ASSUME IndInv, Awake, Next PROVE Awake'
    BY Stutter
  <2> USE DEF IndInv
  <2>1. ASSUME NEW t \in Threads, ThreadStep(t) PROVE Awake'
    BY <2>1, ThreadStepAwake
  <2>2. CASE MainStep \/ WorkerStep
    BY <2>2, OtherStepAwake
  <2>3. CASE Terminated
    BY <2>3, Stutter DEF Terminated
  <2> QED
    BY <2>1, <2>2, <2>3 DEF Next
<1>3. Awake => NoLostWakeup
  BY DEF Awake
<1> QED
  BY <1>1, <1>2, <1>3, Invariance, PTL DEF Spec

\* When the worker has left its loop no accepted job is left undone, if poll()
\* does not fail (231, 241-247, 399).
THEOREM StopLeavesNothing ==
    ASSUME ~PollMayFail
    PROVE  Spec => []StopDrains
<1>1. Init => Shutdown
  BY InitShutdown
<1>2. IndInv /\ Shutdown /\ [Next]_vars => Shutdown'
  <2> SUFFICES ASSUME IndInv, Shutdown, Next PROVE Shutdown'
    BY Stutter
  <2> QED
    BY StepShutdown DEF IndInv
<1>3. IndInv /\ Shutdown => StopDrains
  <2> SUFFICES ASSUME IndInv, Shutdown, wpc \in {"exited", "idle"}
               PROVE  Jobs \subseteq done
    BY DEF StopDrains
  <2>1. todo = <<>> /\ batch = <<>> /\ cur \notin Jobs
    BY DEF Shutdown, IndInv, Control
  <2> QED
    BY <2>1, RangeEmpty DEF IndInv, Queued
<1> QED
  BY <1>1, <1>2, <1>3, Invariance, PTL DEF Spec

-----------------------------------------------------------------------------
(* How full the wake-up pipe of the reactor can be.  No step bounds it: a  *)
(* thread pokes outside of the lock, and the worker empties the pipe only  *)
(* at the end of a cycle that poll() told of it.  Shallow of ReactorInv is *)
(* an allowance that every poke was given before it is made.               *)

\* There are finitely many threads.
LEMMA ThreadsFinite == IsFiniteSet(Threads) /\ Cardinality(Threads) \in Nat
<1>1. IsFiniteSet(Threads)
  BY ThreadAssumption, FS_AddElement DEF Threads
<1> QED
  BY <1>1, FS_CardinalityType

\* So finitely many of them poke.
LEMMA PokingFinite == IsFiniteSet(Poking) /\ Cardinality(Poking) \in Nat
<1>1. Poking \in SUBSET Threads
  BY DEF Poking
<1>2. IsFiniteSet(Poking)
  BY <1>1, ThreadsFinite, FS_Subset
<1> QED
  BY <1>2, FS_CardinalityType

\* A step of one thread adds it to those that poke, removes it or does neither.
LEMMA PokingGoto ==
    ASSUME TypeOK, NEW t \in Threads,
           NEW label \in {"idle", "poke", "wait", "woken", "null", "stopping",
                          "join"},
           pc' = [pc EXCEPT ![t] = label]
    PROVE  /\ label \in {"poke", "stopping"} /\ t \notin Poking =>
                Cardinality(Poking') = Cardinality(Poking) + 1
           /\ label \notin {"poke", "stopping"} /\ t \in Poking =>
                Cardinality(Poking') = Cardinality(Poking) - 1
           /\ label \notin {"poke", "stopping"} /\ t \notin Poking =>
                Cardinality(Poking') = Cardinality(Poking)
<1>1. \A u \in Threads : pc'[u] = IF u = t THEN label ELSE pc[u]
  BY DEF TypeOK
<1>2. CASE label \in {"poke", "stopping"}
  <2>1. Poking' = Poking \cup {t}
    BY <1>1, <1>2 DEF Poking
  <2> QED
    BY <1>2, <2>1, PokingFinite, FS_AddElement
<1>3. CASE label \notin {"poke", "stopping"}
  <2>1. Poking' = Poking \ {t}
    BY <1>1, <1>3 DEF Poking
  <2> QED
    BY <1>3, <2>1, PokingFinite, FS_RemoveElement
<1> QED
  BY <1>2, <1>3

\* What the allowance is made of is what it depends on.
LEMMA AllowanceFrame ==
    ASSUME TypeOK, Shallow,
           UNCHANGED <<starts, running, revents, pipe>>,
           Cycle' = Cycle,
           todo # <<>> => todo' # <<>>,
           wpc' \in {"woke", "jobs", "job"} =>
               wpc \in {"woke", "jobs", "job"} \/ "wake" \notin revents,
           Cardinality(Poking') = Cardinality(Poking)
    PROVE  Shallow'
<1>1. /\ Cardinality(Threads) \in Nat /\ Cardinality(Poking) \in Nat
      /\ Cycle \in Int /\ Stops \in Int /\ pipe \in Nat
  BY ThreadsFinite, PokingFinite DEF TypeOK, Cycle, Stops
<1>2. Stops' = Stops
  BY DEF Stops
<1>3. Allowance <= Allowance'
  BY <1>1, <1>2 DEF Allowance
<1>4. Allowance \in Int /\ Allowance' \in Int
  BY <1>1, <1>2 DEF Allowance
<1>5. pipe' + Cardinality(Poking') <= Allowance'
  BY <1>1, <1>3, <1>4 DEF Shallow
<1> QED
  BY <1>5 DEF Shallow

\* A client's or a callback's step is within the allowance.
LEMMA ThreadStepShallow ==
    ASSUME TypeOK, Control, Shallow, NEW t \in Threads, ThreadStep(t)
    PROVE  Shallow'
<1>1. /\ Cardinality(Threads) \in Nat /\ Cardinality(Poking) \in Nat
      /\ Cycle \in Int /\ Stops \in Int /\ pipe \in Nat
  BY ThreadsFinite, PokingFinite DEF TypeOK, Cycle, Stops
<1>2. UNCHANGED <<wpc, revents, starts, running>>
  BY DEF ThreadStep, Submit, Request, Drop, Poke, Recheck, NullCb, shared, loop
<1>3. Cycle' = Cycle /\ Stops' = Stops
  BY <1>2 DEF Cycle, Stops
<1>4. ASSUME NEW j \in Jobs, Submit(t, j) PROVE Shallow'
  <2>1. pipe' = pipe /\ todo' = Append(todo, j) /\ t \notin Poking
    BY <1>4 DEF Submit, CanCall, Poking
  <2>2. todo' # <<>>
    BY <2>1 DEF TypeOK
  <2>3. CASE WakeNeeded
    <3>1. pc' = [pc EXCEPT ![t] = "poke"] /\ todo = <<>>
      BY <1>4, <2>3 DEF Submit, Goto, WakeNeeded
    <3>2. Cardinality(Poking') = Cardinality(Poking) + 1
      BY <2>1, <3>1, PokingGoto
    <3> QED
      BY <1>1, <1>2, <1>3, <2>1, <2>2, <3>1, <3>2 DEF Shallow, Allowance
  <2>4. CASE ~WakeNeeded
    <3>1. Poking' = Poking
      BY <1>4, <2>4 DEF Submit, Poking
    <3> QED
      BY <1>2, <1>3, <2>1, <2>2, <3>1, AllowanceFrame
  <2> QED
    BY <2>3, <2>4
<1>5. ASSUME NEW o \in Ops, Request(t, o) PROVE Shallow'
  <2>1. PICK s \in Seqs : ready' = Append(ready, s)
    BY <1>5 DEF Request
  <2>2. ready' # <<>>
    BY <2>1 DEF TypeOK
  <2>3. UNCHANGED <<pipe, todo>> /\ Poking' = Poking
    BY <1>5, <2>2 DEF Request, Poking
  <2> QED
    BY <1>2, <1>3, <2>3, AllowanceFrame
<1>6. ASSUME NEW x \in Tasks, Drop(t, x) PROVE Shallow'
  <2>1. /\ UNCHANGED <<pipe, todo>> /\ t \notin Poking
        /\ \/ pc' = [pc EXCEPT ![t] = "wait"]
           \/ pc' = [pc EXCEPT ![t] = "null"]
    BY <1>6 DEF Drop, Cancel, Goto, CanCall, Poking
  <2>2. Cardinality(Poking') = Cardinality(Poking)
    BY <2>1, PokingGoto
  <2> QED
    BY <1>2, <1>3, <2>1, <2>2, AllowanceFrame
<1>7. CASE Poke(t)
  <2>1. /\ pipe' = pipe + 1 /\ todo' = todo /\ t \in Poking
        /\ pc' = [pc EXCEPT ![t] = "idle"]
    BY <1>7 DEF Poke, Goto, Poking, shared
  <2>2. Cardinality(Poking') = Cardinality(Poking) - 1
    BY <2>1, PokingGoto
  <2> QED
    BY <1>1, <1>2, <1>3, <2>1, <2>2 DEF Shallow, Allowance
<1>8. CASE Recheck(t)
  <2>1. /\ UNCHANGED <<pipe, todo>> /\ t \notin Poking
        /\ \/ pc' = [pc EXCEPT ![t] = "wait"]
           \/ pc' = [pc EXCEPT ![t] = "null"]
    BY <1>8 DEF Recheck, Cancel, Goto, Poking
  <2>2. Cardinality(Poking') = Cardinality(Poking)
    BY <2>1, PokingGoto
  <2> QED
    BY <1>2, <1>3, <2>1, <2>2, AllowanceFrame
<1>9. CASE NullCb(t)
  <2>1. /\ UNCHANGED <<pipe, todo>> /\ t \notin Poking
        /\ pc' = [pc EXCEPT ![t] = "idle"]
    BY <1>9 DEF NullCb, Goto, Poking, shared
  <2>2. Cardinality(Poking') = Cardinality(Poking)
    BY <2>1, PokingGoto
  <2> QED
    BY <1>2, <1>3, <2>1, <2>2, AllowanceFrame
<1> QED
  BY <1>4, <1>5, <1>6, <1>7, <1>8, <1>9 DEF ThreadStep

\* So is a start, and a stop, which enlarges it.
LEMMA MainStepShallow ==
    ASSUME TypeOK, Shallow, MainStep
    PROVE  Shallow'
<1>1. /\ Cardinality(Threads) \in Nat /\ Cardinality(Poking) \in Nat
      /\ Cycle \in Int /\ Stops \in Int /\ pipe \in Nat /\ starts \in Nat
      /\ running \in BOOLEAN
  <2>1. starts \in Nat /\ running \in BOOLEAN /\ pipe \in Nat
    BY BoundAssumption DEF TypeOK
  <2>2. Cycle \in Int
    BY DEF Cycle
  <2>3. Stops \in Int
    BY <2>1 DEF Stops
  <2> QED BY <2>1, <2>2, <2>3, ThreadsFinite, PokingFinite, Zenon
<1>2. Main \in Threads
  BY ThreadsType
<1>3. CASE Start
  <2>1. /\ UNCHANGED <<pipe, todo, pc, revents>> /\ ~running /\ running' = TRUE
        /\ starts' = starts + 1 /\ wpc = "idle" /\ wpc' = "boot"
    BY <1>3 DEF Start, loop
  <2>2. Cycle' = Cycle /\ Poking' = Poking
    BY <2>1 DEF Cycle, Poking
  <2>3. Stops' = Stops
    BY <1>1, <2>1 DEF Stops
  <2> QED
    BY <1>1, <2>1, <2>2, <2>3 DEF Shallow, Allowance
<1>4. CASE Stop
  <2>1. /\ UNCHANGED <<pipe, todo, revents, wpc, starts>> /\ running
        /\ running' = FALSE /\ Main \notin Poking
        /\ pc' = [pc EXCEPT ![Main] = "stopping"]
    BY <1>4 DEF Stop, CanCall, Goto, Poking, loop
  <2>2. Cardinality(Poking') = Cardinality(Poking) + 1
    BY <1>2, <2>1, PokingGoto
  <2>3. Cycle' = Cycle /\ Stops' = Stops + 1
    BY <1>1, <2>1 DEF Cycle, Stops
  <2>4. Allowance' = Allowance + 1 /\ Allowance \in Int
    <3>1. PICK n \in 0 .. 1 : n = IF todo # <<>> THEN 1 ELSE 0
      OBVIOUS
    <3>2. n = IF todo' # <<>> THEN 1 ELSE 0
      BY <2>1, <3>1
    <3>3. Allowance = Cardinality(Threads) - 1 + Stops + Cycle + n
      BY <3>1, Zenon DEF Allowance
    <3>4. Allowance' = Cardinality(Threads) - 1 + Stops' + Cycle' + n
      BY <3>2, Zenon DEF Allowance
    <3> QED BY <1>1, <2>3, <3>3, <3>4
  <2>5. pipe' + Cardinality(Poking') <= Allowance'
    BY <1>1, <2>1, <2>2, <2>4 DEF Shallow
  <2> QED
    BY <2>1, <2>5 DEF Shallow
<1>5. CASE StopPoke
  <2>1. /\ UNCHANGED <<running, todo, revents, wpc, starts>>
        /\ pipe' = pipe + 1 /\ Main \in Poking
        /\ pc' = [pc EXCEPT ![Main] = "join"]
    BY <1>2, <1>5 DEF StopPoke, Poking, loop, shared
  <2>2. Cardinality(Poking') = Cardinality(Poking) - 1
    BY <1>2, <2>1, PokingGoto
  <2>3. Cycle' = Cycle /\ Stops' = Stops
    BY <2>1 DEF Cycle, Stops
  <2> QED
    BY <1>1, <2>1, <2>2, <2>3 DEF Shallow, Allowance
<1>6. CASE Join
  <2>1. /\ UNCHANGED <<running, todo, revents, pipe, starts>>
        /\ wpc = "exited" /\ wpc' = "idle" /\ Main \notin Poking
        /\ pc' = [pc EXCEPT ![Main] = "idle"]
    BY <1>6 DEF Join, Poking, loop, shared
  <2>2. Cardinality(Poking') = Cardinality(Poking)
    BY <1>2, <2>1, PokingGoto
  <2>3. Cycle' = Cycle
    BY <2>1 DEF Cycle
  <2> QED
    BY <2>1, <2>2, <2>3, AllowanceFrame
<1> QED
  BY <1>3, <1>4, <1>5, <1>6 DEF MainStep

\* The worker cannot poke while it is in poll().
LEMMA WorkerAsleep ==
    ASSUME TypeOK, Control, wpc = "wait"
    PROVE  Cardinality(Poking) <= Cardinality(Threads) - 1
<1>1. Poking \in SUBSET (Threads \ {Worker})
  BY ThreadsType DEF Control, Poking
<1>2. IsFiniteSet(Threads \ {Worker})
      /\ Cardinality(Threads \ {Worker}) = Cardinality(Threads) - 1
  BY ThreadsType, ThreadsFinite, FS_RemoveElement
<1> QED
  BY <1>1, <1>2, FS_Subset

\* So is a step of the worker: what it gives back it has read.
LEMMA WorkerStepShallow ==
    ASSUME TypeOK, Control, Shallow, WorkerStep
    PROVE  Shallow'
<1>1. /\ Cardinality(Threads) \in Nat /\ Cardinality(Poking) \in Nat
      /\ Cycle \in Int /\ Stops \in Nat /\ pipe \in Nat
  <2>1. starts \in Nat /\ running \in BOOLEAN /\ pipe \in Nat
    BY BoundAssumption DEF TypeOK
  <2>2. running => starts > 0
    BY DEF Shallow
  <2>3. Cycle \in Int
    BY DEF Cycle
  <2>4. Stops \in Nat
    BY <2>1, <2>2 DEF Stops
  <2> QED BY <2>1, <2>3, <2>4, ThreadsFinite, PokingFinite, Zenon
<1>2. Cardinality(Poking') = Cardinality(Poking)
  <2>1. pc' = pc \/ NotifyAll
    BY DEF WorkerStep, Boot, Top, Exit, EnterPoll, PollReturn, PollIntr,
           PollFail, TakeTodo, RunJob, SkipJob, JobReturn, DrainPipe, Rx, NoRx,
           RunOp, IgnoreMsg, OpReturn, RxDone, Tx, TxBlocked, TxCrash, TxDone
  <2>2. Poking' = Poking
    BY <2>1 DEF NotifyAll, Poking
  <2> QED
    BY <2>2
<1>3. UNCHANGED <<starts, running>> /\ Stops' = Stops
  BY DEF WorkerStep, Boot, Top, Exit, EnterPoll, PollReturn, PollIntr,
         PollFail, TakeTodo, RunJob, SkipJob, JobReturn, DrainPipe, Rx, NoRx,
         RunOp, IgnoreMsg, OpReturn, RxDone, Tx, TxBlocked, TxCrash, TxDone,
         shared, Stops
<1> USE DEF Step, shared, loop
<1>4. CASE Boot \/ Exit \/ EnterPoll \/ PollFail
  <2>1. /\ UNCHANGED <<revents, pipe, todo>>
        /\ {wpc, wpc'} \cap {"woke", "jobs", "job"} = {}
    BY <1>4 DEF Boot, Exit, EnterPoll, PollFail
  <2>2. Cycle' = Cycle
    BY <2>1 DEF Cycle
  <2> QED
    BY <1>2, <1>3, <2>1, <2>2, AllowanceFrame
<1>5. CASE Top
  <2>1. UNCHANGED <<pipe, todo>> /\ wpc = "top" /\ wpc' = "poll"
    BY <1>5 DEF Top
  <2>2. Cycle' = Cycle
    BY <2>1 DEF Cycle
  <2> QED
    BY <1>1, <1>2, <1>3, <2>1, <2>2 DEF Shallow, Allowance
<1>6. CASE PollReturn \/ PollIntr
  <2>1. /\ UNCHANGED <<pipe, todo>> /\ wpc = "wait" /\ wpc' = "woke"
        /\ "wake" \in revents' <=> pipe > 0
    BY <1>6 DEF PollReturn, PollIntr, Events, Control
  <2>2. Cycle = 1 /\ Cycle' = IF pipe > 0 THEN 1 ELSE 0
    BY <2>1 DEF Cycle
  <2>3. Cardinality(Poking) <= Cardinality(Threads) - 1
    BY <2>1, WorkerAsleep
  <2>4. CASE pipe > 0
    BY <1>1, <1>2, <1>3, <2>1, <2>2, <2>4 DEF Shallow, Allowance
  <2>5. CASE pipe = 0
    BY <1>1, <1>2, <1>3, <2>1, <2>2, <2>3, <2>5 DEF Shallow, Allowance
  <2> QED
    BY <1>1, <2>4, <2>5
<1>7. CASE TakeTodo
  <2>1. /\ UNCHANGED <<pipe, revents>> /\ wpc = "woke" /\ wpc' = "jobs"
        /\ todo' = <<>>
    BY <1>7 DEF TakeTodo
  <2>2. Cycle' = Cycle + 1
    BY <2>1 DEF Cycle
  <2> QED
    BY <1>1, <1>2, <1>3, <2>1, <2>2 DEF Shallow, Allowance
<1>8. CASE RunJob \/ SkipJob \/ JobReturn
  <2>1. /\ UNCHANGED <<pipe, revents, todo>>
        /\ wpc \in {"jobs", "job"} /\ wpc' \in {"jobs", "job"}
    BY <1>8 DEF RunJob, SkipJob, JobReturn
  <2>2. Cycle' = Cycle
    BY <2>1 DEF Cycle
  <2> QED
    BY <1>2, <1>3, <2>1, <2>2, AllowanceFrame
<1>9. CASE DrainPipe
  <2>1. /\ UNCHANGED <<revents, todo>> /\ wpc = "jobs" /\ wpc' = "rx"
        /\ pipe' = IF "wake" \in revents THEN AfterRead ELSE pipe
    BY <1>9 DEF DrainPipe
  <2>2. "wake" \in revents => pipe > 0 /\ AfterRead \in Int
                              /\ AfterRead <= pipe - 1
    BY <1>1, <2>1, BoundAssumption DEF Shallow, AfterRead
  <2>3. Cycle' = 1 /\ Cycle = IF "wake" \in revents THEN 2 ELSE 1
    BY <2>1 DEF Cycle
  <2> QED
    BY <1>1, <1>2, <1>3, <2>1, <2>2, <2>3 DEF Shallow, Allowance
<1>10. CASE \/ Rx \/ NoRx \/ RunOp \/ IgnoreMsg \/ OpReturn \/ RxDone
            \/ Tx \/ TxBlocked \/ TxCrash \/ TxDone
  <2>1. /\ UNCHANGED <<revents, pipe, todo>>
        /\ {wpc, wpc'} \cap {"woke", "jobs", "job"} = {}
    BY <1>10 DEF Rx, NoRx, RunOp, IgnoreMsg, OpReturn, RxDone, Tx, TxBlocked,
                 TxCrash, TxDone, Sending
  <2>2. Cycle' = Cycle
    BY <2>1 DEF Cycle
  <2> QED
    BY <1>2, <1>3, <2>1, <2>2, AllowanceFrame
<1> QED
  BY <1>4, <1>5, <1>6, <1>7, <1>8, <1>9, <1>10 DEF WorkerStep

\* The pipe is empty at first.
LEMMA InitShallow == Init => Shallow
<1> SUFFICES ASSUME Init PROVE Shallow
  OBVIOUS
<1>1. Poking = {} /\ Stops = 0 /\ Cycle = 1
  <2>1. Poking = {}
    BY DEF Init, Poking
  <2>2. Stops = 0
    <3>1. running = FALSE /\ starts = 0
      BY DEF Init
    <3>2. Stops = 0 - 0
      BY <3>1 DEF Stops
    <3> QED
      BY <3>2
  <2>3. Cycle = 1
    BY DEF Init, Cycle
  <2> QED
    BY <2>1, <2>2, <2>3
<1>2. Cardinality(Poking) = 0
  BY <1>1, FS_EmptySet
<1> QED
  BY <1>1, <1>2, ThreadsFinite DEF Init, Shallow, Allowance

\* The pipe holds a few bytes more than there are threads, for any number of
\* threads and jobs, so the write of poke() (202-208) does not block and
\* stop() (190-200) does not hang on it.
THEOREM PipeIsShallow == Spec => []PipeShallow
<1>1. IndInv /\ Shallow /\ [Next]_vars => Shallow'
  <2> SUFFICES ASSUME IndInv, Shallow, [Next]_vars PROVE Shallow'
    OBVIOUS
  <2> USE DEF IndInv
  <2>1. ASSUME NEW t \in Threads, ThreadStep(t) PROVE Shallow'
    BY <2>1, ThreadStepShallow
  <2>2. CASE MainStep
    BY <2>2, MainStepShallow
  <2>3. CASE WorkerStep
    BY <2>3, WorkerStepShallow
  <2>4. CASE UNCHANGED vars
    <3>1. Cycle' = Cycle /\ Poking' = Poking
      BY <2>4 DEF vars, shared, loop, Cycle, Poking
    <3> QED
      BY <2>4, <3>1, AllowanceFrame DEF vars, shared, loop
  <2> QED
    BY <2>1, <2>2, <2>3, <2>4 DEF Next, Terminated
<1>2. IndInv /\ Shallow => PipeShallow
  <2> SUFFICES ASSUME IndInv, Shallow PROVE PipeShallow
    OBVIOUS
  <2>1. /\ Cardinality(Threads) \in Nat /\ Cardinality(Poking) \in Nat
        /\ pipe \in Nat /\ MaxStarts \in Nat
    BY ThreadsFinite, PokingFinite, BoundAssumption DEF IndInv, TypeOK
  <2>2. Stops \in Int /\ Stops <= MaxStarts
    BY BoundAssumption DEF IndInv, TypeOK, Stops
  <2>3. Cycle \in Int /\ Cycle <= 2
    BY DEF Cycle
  <2> QED
    BY <2>1, <2>2, <2>3 DEF Shallow, Allowance, PipeShallow
<1> QED
  BY <1>1, <1>2, InitShallow, Invariance, PTL DEF Spec

-----------------------------------------------------------------------------
(***************************************************************************)
(* Every behaviour of the reactor is, seen through submit() and JobHandle,  *)
(* a behaviour of the abstract Executor: TakeTodo, all wake-ups and all of  *)
(* the netlink side are stuttering steps of it.                             *)
(***************************************************************************)

queueBar == batch \o todo
liveBar == Jobs \ done
execBar == IF cur \in Jobs THEN cur ELSE None

-----------------------------------------------------------------------------
(* Sequences                                                               *)

LEMMA RangeConcat ==
    ASSUME NEW S, NEW p \in Seq(S), NEW q \in Seq(S)
    PROVE  Range(p \o q) = Range(p) \cup Range(q)
<1>1. ASSUME NEW i \in DOMAIN (p \o q) PROVE (p \o q)[i] \in Range(p) \cup Range(q)
  <2>1. CASE i <= Len(p)
    BY <2>1 DEF Range
  <2>2. CASE i > Len(p)
    <3>1. i - Len(p) \in DOMAIN q /\ (p \o q)[i] = q[i - Len(p)]
      BY <2>2
    <3> QED
      BY <3>1 DEF Range
  <2> QED
    BY <2>1, <2>2
<1>2. ASSUME NEW i \in DOMAIN p PROVE p[i] \in Range(p \o q)
  <2>1. i \in DOMAIN (p \o q) /\ (p \o q)[i] = p[i]
    OBVIOUS
  <2> QED
    BY <2>1 DEF Range
<1>3. ASSUME NEW i \in DOMAIN q PROVE q[i] \in Range(p \o q)
  <2>1. i + Len(p) \in DOMAIN (p \o q) /\ (p \o q)[i + Len(p)] = q[i]
    OBVIOUS
  <2> QED
    BY <2>1 DEF Range
<1> QED
  BY <1>1, <1>2, <1>3 DEF Range

LEMMA ConcatAppend ==
    ASSUME NEW S, NEW p \in Seq(S), NEW q \in Seq(S), NEW x \in S
    PROVE  p \o Append(q, x) = Append(p \o q, x)
OBVIOUS

LEMMA ConcatHeadTail ==
    ASSUME NEW S, NEW p \in Seq(S), NEW q \in Seq(S), p # <<>>
    PROVE  /\ p \o q # <<>>
           /\ Head(p \o q) = Head(p)
           /\ Tail(p \o q) = Tail(p) \o q
OBVIOUS

LEMMA ConcatEmpty ==
    ASSUME NEW S, NEW q \in Seq(S)
    PROVE  <<>> \o q = q /\ q \o <<>> = q
OBVIOUS

-----------------------------------------------------------------------------
(* The steps                                                               *)

LEMMA InitRefines == Init => Exec!Init
<1> SUFFICES ASSUME Init PROVE Exec!Init
  OBVIOUS
<1>1. batch \o todo = <<>>
  BY DEF Init
<1> QED
  BY <1>1, TasksType DEF Init, Exec!Init

\* A step that leaves the jobs alone.
LEMMA StutterRefines ==
    ASSUME queueBar' = queueBar, liveBar' = liveBar, execBar' = execBar
    PROVE  UNCHANGED Exec!vars
BY DEF queueBar, liveBar, execBar, Exec!vars

LEMMA SubmitRefines ==
    ASSUME IndInv, NEW t \in Threads, NEW j \in Jobs, Submit(t, j)
    PROVE  Exec!Submit(j)
<1> USE DEF IndInv, TypeOK
<1>1. /\ todo' = Append(todo, j) /\ done' = done \ {j}
      /\ UNCHANGED <<batch, cur>>
  BY DEF Submit, loop
<1>2. batch' \o todo' = Append(batch \o todo, j)
  BY <1>1, ConcatAppend
<1>3. /\ j \notin Range(todo) \cup Range(batch) /\ j # cur /\ j \notin held
      /\ \A u \in Threads : pc[u] # "idle" => arg[u] # j
  BY DEF Submit, Free
<1>4. j \notin Range(batch \o todo)
  BY <1>3, RangeConcat
<1>5. j \in done
  BY <1>3, TasksType, ThreadsType DEF Ownership, Waiting
<1>6. Exec!Range(batch \o todo) = Range(batch \o todo)
  BY DEF Exec!Range, Range
<1> QED
  BY <1>1, <1>2, <1>3, <1>4, <1>5, <1>6, TasksType DEF Exec!Submit

\* What the deleter of a handle does to the job that x may be.
LEMMA CancelRefines ==
    ASSUME IndInv, NEW t \in Threads, NEW x \in Tasks, Cancel(t, x),
           UNCHANGED <<batch, todo, cur>>,
           t # Worker => x \notin busy
    PROVE  Exec!Next \/ UNCHANGED Exec!vars
<1>1. done' = done \cup {x}
  BY DEF Cancel
<1>2. CASE x \in Jobs \ done /\ x # cur
  <2>1. Exec!Cancel(x)
    BY <1>1, <1>2, TasksType DEF Exec!Cancel
  <2> QED
    BY <1>2, <2>1 DEF Exec!Next
<1>3. CASE x \in Jobs \ done /\ x = cur
  <2>1. Exec!CancelSelf
    BY <1>1, <1>3 DEF Exec!CancelSelf
  <2> QED
    BY <2>1 DEF Exec!Next
<1>4. CASE x \notin Jobs \ done
  BY <1>1, <1>4, StutterRefines DEF queueBar, liveBar, execBar
<1> QED
  BY <1>2, <1>3, <1>4

LEMMA ThreadStepRefines ==
    ASSUME IndInv, NEW t \in Threads, ThreadStep(t)
    PROVE  Exec!Next \/ UNCHANGED Exec!vars
<1>1. ASSUME NEW j \in Jobs, Submit(t, j) PROVE Exec!Next
  BY <1>1, SubmitRefines DEF Exec!Next
<1>2. ASSUME NEW o \in Ops, Request(t, o) PROVE UNCHANGED Exec!vars
  <2>1. done' = done \ {o} /\ UNCHANGED <<todo, batch, cur>> /\ o \in done
    <3>1. o \notin held /\ \A u \in Threads : pc[u] # "idle" => arg[u] # o
      BY <1>2 DEF Request, Free
    <3>2. o \in done
      BY <3>1, TasksType, ThreadsType DEF IndInv, Ownership, Waiting
    <3> QED
      BY <1>2, <3>2 DEF Request, loop
  <2> QED
    BY <2>1, TasksType, StutterRefines DEF queueBar, liveBar, execBar
<1>3. ASSUME NEW x \in Tasks, Drop(t, x)
      PROVE  Exec!Next \/ UNCHANGED Exec!vars
  <2>1. UNCHANGED <<batch, todo, cur>>
    BY <1>3 DEF Drop, loop
  <2>2. CASE MustWait(t, x)
    <3>1. UNCHANGED done
      BY <1>3, <2>2 DEF Drop
    <3> QED
      BY <2>1, <3>1, StutterRefines DEF queueBar, liveBar, execBar
  <2>3. CASE ~MustWait(t, x)
    <3>1. Cancel(t, x)
      BY <1>3, <2>3 DEF Drop
    <3> QED
      BY <2>1, <2>3, <3>1, CancelRefines DEF MustWait
  <2> QED
    BY <2>2, <2>3
<1>4. CASE Recheck(t)
  <2>1. UNCHANGED <<batch, todo, cur>> /\ arg[t] \in Tasks
    BY <1>4 DEF Recheck, loop, IndInv, Control
  <2>2. CASE StillBusy(arg[t])
    <3>1. UNCHANGED done
      BY <1>4, <2>2 DEF Recheck
    <3> QED
      BY <2>1, <3>1, StutterRefines DEF queueBar, liveBar, execBar
  <2>3. CASE ~StillBusy(arg[t])
    <3>1. Cancel(t, arg[t])
      BY <1>4, <2>3 DEF Recheck
    <3> QED
      BY <2>1, <2>3, <3>1, CancelRefines DEF StillBusy
  <2> QED
    BY <2>2, <2>3
<1>5. CASE Poke(t) \/ NullCb(t)
  <2>1. UNCHANGED <<batch, todo, cur, done>>
    BY <1>5 DEF Poke, NullCb, shared, tasks, loop
  <2> QED
    BY <2>1, StutterRefines DEF queueBar, liveBar, execBar
<1> QED
  BY <1>1, <1>2, <1>3, <1>4, <1>5 DEF ThreadStep

LEMMA WorkerStepRefines ==
    ASSUME IndInv, WorkerStep
    PROVE  Exec!Next \/ UNCHANGED Exec!vars
<1> USE DEF IndInv, TypeOK
<1>1. CASE TakeTodo
  <2>1. batch = <<>> /\ batch' = todo /\ todo' = <<>> /\ UNCHANGED <<done, cur>>
    BY <1>1 DEF TakeTodo, Step, Control, tasks
  <2>2. batch' \o todo' = batch \o todo
    BY <2>1, ConcatEmpty
  <2> QED
    BY <2>1, <2>2, StutterRefines DEF queueBar, liveBar, execBar
<1>2. CASE RunJob
  <2>1. /\ batch # <<>> /\ batch' = Tail(batch) /\ cur' = Head(batch)
        /\ Head(batch) \in Jobs \ done
        /\ UNCHANGED <<todo, done>>
    BY <1>2 DEF RunJob, Begin, Runnable, shared
  <2>2. cur \notin Jobs
    BY <1>2 DEF RunJob, Step, Control
  <2>3. /\ batch \o todo # <<>> /\ Head(batch \o todo) = Head(batch)
        /\ Tail(batch \o todo) = Tail(batch) \o todo
    <3>1. batch \in Seq(Jobs) /\ todo \in Seq(Jobs)
      OBVIOUS
    <3> QED BY <2>1, <3>1, ConcatHeadTail, SMTT(30)
  <2>4. Exec!Begin
    BY <2>1, <2>2, <2>3 DEF Exec!Begin
  <2> QED
    BY <2>4 DEF Exec!Next
<1>3. CASE SkipJob
  <2>1. /\ batch # <<>> /\ batch' = Tail(batch)
        /\ UNCHANGED <<todo, done, cur>>
    BY <1>3 DEF SkipJob, shared, tasks
  <2>2. Head(batch) \notin Jobs \ done /\ cur \notin Jobs
    BY <1>3, TasksType DEF SkipJob, Runnable, Ownership, Step, Control
  <2>3. /\ batch \o todo # <<>> /\ Head(batch \o todo) = Head(batch)
        /\ Tail(batch \o todo) = Tail(batch) \o todo
    <3>1. batch \in Seq(Jobs) /\ todo \in Seq(Jobs)
      OBVIOUS
    <3> QED BY <2>1, <3>1, ConcatHeadTail, SMTT(30)
  <2>4. Exec!Skip
    BY <2>1, <2>2, <2>3 DEF Exec!Skip
  <2> QED
    BY <2>4 DEF Exec!Next
<1>4. CASE JobReturn
  <2>1. /\ done' = done \cup {cur} /\ cur' = None /\ cur \in Jobs
        /\ UNCHANGED <<todo, batch>>
    BY <1>4 DEF JobReturn, Step, Control, shared
  <2>2. Exec!End
    BY <2>1, TasksType DEF Exec!End
  <2> QED
    BY <2>2 DEF Exec!Next
<1>5. CASE RunOp \/ OpReturn
  <2>1. /\ cur \notin Jobs /\ cur' \notin Jobs
        /\ UNCHANGED <<todo, batch, done>>
    BY <1>5, TasksType
       DEF RunOp, OpReturn, Begin, Deliverable, Addressee, Step, Control, shared
  <2> QED
    BY <2>1, StutterRefines DEF queueBar, liveBar, execBar
<1>6. CASE \/ Boot \/ Top \/ Exit \/ EnterPoll \/ PollReturn \/ PollIntr
           \/ PollFail \/ DrainPipe \/ Rx \/ NoRx \/ IgnoreMsg \/ RxDone
           \/ Tx \/ TxBlocked \/ TxCrash \/ TxDone
  <2>1. UNCHANGED <<todo, batch, done, cur>>
    BY <1>6
       DEF Boot, Top, Exit, EnterPoll, PollReturn, PollIntr, PollFail,
           DrainPipe, Rx, NoRx, IgnoreMsg, RxDone, Tx, TxBlocked, TxCrash,
           TxDone, shared, tasks, loop
  <2> QED
    BY <2>1, StutterRefines DEF queueBar, liveBar, execBar
<1> QED
  BY <1>1, <1>2, <1>3, <1>4, <1>5, <1>6 DEF WorkerStep

LEMMA NextRefines ==
    ASSUME IndInv, [Next]_vars
    PROVE  [Exec!Next]_(Exec!vars)
<1>1. ASSUME NEW t \in Threads, ThreadStep(t)
      PROVE  Exec!Next \/ UNCHANGED Exec!vars
  BY <1>1, ThreadStepRefines
<1>2. CASE MainStep \/ Terminated \/ UNCHANGED vars
  <2>1. UNCHANGED <<todo, batch, done, cur>>
    BY <1>2 DEF MainStep, Start, Stop, StopPoke, Join, Terminated, vars, shared,
                tasks, loop
  <2> QED
    BY <2>1, StutterRefines DEF queueBar, liveBar, execBar
<1>3. CASE WorkerStep
  BY <1>3, WorkerStepRefines
<1> QED
  BY <1>1, <1>2, <1>3 DEF Next

\* The reactor implements the executor: for any number of threads and jobs,
\* jobs begin one at a time, in the order of submit(), at most once, never
\* after they were cancelled, and no other thread cancels one that executes
\* (nlreact.cpp 251-271, 389-432).
THEOREM Refinement == Spec => ImplementsExecutor
<1>1. Init => Exec!Init
  BY InitRefines
<1>2. IndInv /\ [Next]_vars => [Exec!Next]_(Exec!vars)
  BY NextRefines
<1> QED
  BY <1>1, <1>2, Invariance, PTL DEF Spec, ImplementsExecutor, Exec!Spec
=============================================================================
