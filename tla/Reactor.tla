------------------------------- MODULE Reactor -------------------------------
(***************************************************************************)
(* The reactor of statApp/src/nlreact.cpp: one worker thread that runs     *)
(* submitted jobs and exchanges netlink messages, driven by poll() over a  *)
(* wake-up pipe and the netlink socket.  Any thread may submit a job or    *)
(* drop the handle of a job or of a netlink operation; dropping a handle   *)
(* waits, on a condition variable, for a callback that is executing.       *)
(*                                                                         *)
(* All shared state is protected by Pvt::lock.  A client holds the lock    *)
(* for one uninterrupted section of code, so its section is one action,    *)
(* enabled when the worker does not hold the lock.  The worker holds the   *)
(* lock over several actions: all but those where its wpc is in Unlocked.  *)
(***************************************************************************)
EXTENDS Integers, Sequences, FiniteSets, Functions

CONSTANTS
    Clients,        \* the threads of the program other than the worker
    Main,           \* the client that starts and stops the reactor
    Worker,         \* the reactor's own thread
    Jobs,           \* the Job objects (recycled once nothing refers to them)
    Ops,            \* the Operation objects (recycled likewise)
    None,           \* no job, no operation
    SeqMod,         \* sequence numbers are 0..SeqMod-1 (2^32 in the code)
    ReadMax,        \* bytes of the pipe read per cycle (16 in the code)
    MaxStarts,      \* bound: how often the reactor is started
    ReadyMax,       \* bound: requests waiting to be sent
    RxMax,          \* bound: datagrams the socket's receive buffer holds
    Requesters,     \* clients that call request() while the reactor runs
    SendMayBlock,   \* whether sendto() may fail with EWOULDBLOCK
    PollMayFail     \* whether poll() may fail other than with EINTR

Tasks == Jobs \cup Ops
Threads == Clients \cup {Worker}
Seqs == 0 .. SeqMod - 1
NoSeq == -1         \* a message moved from; a message not of our port

ASSUME ThreadAssumption == /\ IsFiniteSet(Clients)
                           /\ Main \in Clients
                           /\ Worker \notin Clients
                           /\ Requesters \subseteq Clients
ASSUME TaskAssumption == /\ IsFiniteSet(Tasks)
                         /\ Jobs \cap Ops = {}
                         /\ None \notin Tasks
ASSUME BoundAssumption == /\ SeqMod \in Nat \ {0} /\ Cardinality(Ops) < SeqMod
                          /\ ReadMax \in Nat \ {0}
                          /\ MaxStarts \in Nat
                          /\ ReadyMax \in Nat
                          /\ RxMax \in Nat
                          /\ SendMayBlock \in BOOLEAN
                          /\ PollMayFail \in BOOLEAN

VARIABLES
    running,    \* Pvt::running
    todo,       \* Pvt::todo, the jobs submitted and not yet taken
    batch,      \* run()'s local jobs, what it took of todo and has not reached
    ready,      \* Pvt::ready, the sequence numbers of requests to send
    handlers,   \* Pvt::handlers, the operation of each sequence number
    nextseq,    \* Pvt::nextseq
    seqOf,      \* Operation::seq
    done,       \* the tasks with Job::done, or with Operation::cancel
    busy,       \* the tasks with Job::busy or Operation::busy
    cbs,        \* the tasks whose cb is not null
    held,       \* the tasks whose handle exists and is not being dropped
    pipe,       \* bytes in the wake-up pipe
    wpc, cur,   \* where the worker is; the task whose callback it runs
    pollout,    \* whether PFD[1].events has POLLOUT
    timeout,    \* poll()'s timeout
    revents,    \* what poll() reported
    msgs,       \* messages left in the datagram being handled
    rxq,        \* the socket's receive buffer: datagrams, each some messages
    pc, arg,    \* where each thread is in an operation, and on which task
    starts      \* bookkeeping: how often the reactor was started

shared == <<running, todo, ready, handlers, nextseq, seqOf>>
tasks == <<done, busy, cbs, held>>
loop == <<batch, cur, pollout, timeout, revents, msgs>>
vars == <<shared, tasks, loop, pipe, wpc, rxq, pc, arg, starts>>

Unlocked == {"idle", "boot", "poll", "wait", "woke", "job", "op", "exited",
             "crashed"}
Locked == {"top", "jobs", "rx", "msgs", "tx"}

TypeOK ==
    /\ running \in BOOLEAN
    /\ todo \in Seq(Jobs)
    /\ batch \in Seq(Jobs)
    /\ ready \in Seq(Seqs \cup {NoSeq})
    /\ handlers \in [Seqs -> Ops \cup {None}]
    /\ nextseq \in Seqs
    /\ seqOf \in [Ops -> Seqs]
    /\ done \subseteq Tasks /\ busy \subseteq Tasks
    /\ cbs \subseteq Tasks /\ held \subseteq Tasks
    /\ pipe \in Nat
    /\ wpc \in Unlocked \cup Locked
    /\ cur \in Tasks \cup {None}
    /\ pollout \in BOOLEAN
    /\ timeout \in {-1, 0}
    /\ revents \subseteq {"wake", "rx", "tx"}
    /\ msgs \in Seq(Seqs \cup {NoSeq})
    /\ rxq \in Seq(Seq(Seqs \cup {NoSeq}))
    /\ pc \in [Threads -> {"idle", "poke", "wait", "woken", "null",
                           "stopping", "join"}]
    /\ arg \in [Threads -> Tasks \cup {None}]
    /\ starts \in 0 .. MaxStarts

Init ==
    /\ running = FALSE
    /\ todo = <<>> /\ batch = <<>> /\ ready = <<>>
    /\ handlers = [s \in Seqs |-> None]
    /\ nextseq = 0
    /\ seqOf = [o \in Ops |-> 0]
    /\ done = Tasks /\ busy = {} /\ cbs = {} /\ held = {}
    /\ pipe = 0
    /\ wpc = "idle" /\ cur = None
    /\ pollout = FALSE /\ timeout = 0 /\ revents = {}
    /\ msgs = <<>> /\ rxq = <<>>
    /\ pc = [t \in Threads |-> "idle"]
    /\ arg = [t \in Threads |-> None]
    /\ starts = 0

-----------------------------------------------------------------------------
(* The program's threads                                                   *)

LockFree == wpc \in Unlocked

\* A thread may call the reactor.  The worker does so from a callback only.
CanCall(t) == /\ pc[t] = "idle"
              /\ LockFree /\ wpc # "crashed"
              /\ t = Worker => wpc \in {"job", "op"}

\* Nothing refers to the object: the allocator may hand it out again.
Free(x) == /\ x \notin held
           /\ x # cur
           /\ x \notin Range(todo) \cup Range(batch)
           /\ \A t \in Threads : pc[t] # "idle" => arg[t] # x

Goto(t, label, x) == /\ pc' = [pc EXCEPT ![t] = label]
                     /\ arg' = [arg EXCEPT ![t] = x]

\* submit() pokes when it finds both queues empty, before it queues the job.
WakeAfterPush == todo' = <<>> /\ ready' = <<>>    \* mutant: computed too late
WakeNeeded == todo = <<>> /\ ready = <<>>

\* Reactor::submit.  It is refused, with an exception and no effect, when the
\* reactor is not running.
Submit(t, j) ==
    /\ CanCall(t) /\ running /\ Free(j)
    /\ todo' = Append(todo, j)
    /\ done' = done \ {j}
    /\ cbs' = cbs \cup {j}
    /\ held' = held \cup {j}
    /\ IF WakeNeeded
       THEN Goto(t, "poke", j)
       ELSE UNCHANGED <<pc, arg>>
    /\ UNCHANGED <<running, ready, handlers, nextseq, seqOf, busy, loop, pipe,
                   wpc, rxq, starts>>

\* mutant: the next number, in use or not
NextAny(s) == s = nextseq

\* The first number from nextseq on, round the ring, that no operation uses.
NextFree(s) ==
    \E d \in Seqs :
        /\ s = (nextseq + d) % SeqMod
        /\ handlers[s] = None
        /\ \A e \in 0 .. d - 1 : handlers[(nextseq + e) % SeqMod] # None

\* Who calls request(): the main thread before it starts the reactor, a
\* callback, and the clients in Requesters.
MayRequest(t) == \/ t = Worker
                 \/ t = Main /\ wpc = "idle"
                 \/ t \in Requesters

\* Reactor::request.  wake is computed after the message is queued.
Request(t, o) ==
    /\ CanCall(t) /\ MayRequest(t) /\ Free(o) /\ Len(ready) < ReadyMax
    /\ \E s \in Seqs :
        /\ NextFree(s)
        /\ nextseq' = (s + 1) % SeqMod
        /\ seqOf' = [seqOf EXCEPT ![o] = s]
        /\ handlers' = [handlers EXCEPT ![s] = o]
        /\ ready' = Append(ready, s)
    /\ done' = done \ {o}
    /\ cbs' = cbs \cup {o}
    /\ held' = held \cup {o}
    /\ IF todo = <<>> /\ ready' = <<>>
       THEN Goto(t, "poke", o)
       ELSE UNCHANGED <<pc, arg>>
    /\ UNCHANGED <<running, todo, busy, loop, pipe, wpc, rxq, starts>>

\* Pvt::poke, outside of the lock.
Poke(t) ==
    /\ pc[t] = "poke"
    /\ pipe' = pipe + 1
    /\ Goto(t, "idle", None)
    /\ UNCHANGED <<shared, tasks, loop, wpc, rxq, starts>>

ForgetEntry(x) == handlers    \* mutant: the entry stays
EraseEntry(x) == IF x \in Ops THEN [handlers EXCEPT ![seqOf[x]] = None]
                              ELSE handlers

\* What a handle's deleter does under the lock once it need not wait: mark the
\* task, and for an operation erase its entry of handlers.
Cancel(t, x) ==
    /\ done' = done \cup {x}
    /\ handlers' = EraseEntry(x)
    /\ Goto(t, "null", x)

NeverWaits(t, x) == FALSE     \* mutant: no wait for the callback
MustWait(t, x) == x \in busy /\ t # Worker

\* The deleter of a JobHandle or of a Handle.  A thread other than the worker
\* waits while the callback executes.
Drop(t, x) ==
    /\ CanCall(t) /\ x \in held
    /\ \A u \in Threads : pc[u] = "poke" => arg[u] # x
    /\ held' = held \ {x}
    /\ IF MustWait(t, x)
       THEN Goto(t, "wait", x) /\ UNCHANGED <<done, handlers>>
       ELSE Cancel(t, x)
    /\ UNCHANGED <<running, todo, ready, nextseq, seqOf, busy, cbs, loop, pipe,
                   wpc, rxq, starts>>

NoRecheck(x) == FALSE         \* mutant: one notification is enough
StillBusy(x) == x \in busy

\* A notified waiter has the lock again and evaluates its predicate.
Recheck(t) ==
    /\ pc[t] = "woken" /\ LockFree
    /\ IF StillBusy(arg[t])
       THEN Goto(t, "wait", arg[t]) /\ UNCHANGED <<done, handlers>>
       ELSE Cancel(t, arg[t])
    /\ UNCHANGED <<running, todo, ready, nextseq, seqOf, busy, cbs, held, loop,
                   pipe, wpc, rxq, starts>>

\* inner->cb = nullptr, outside of the lock.
NullCb(t) ==
    /\ pc[t] = "null"
    /\ cbs' = cbs \ {arg[t]}
    /\ Goto(t, "idle", None)
    /\ UNCHANGED <<shared, done, busy, held, loop, pipe, wpc, rxq, starts>>

\* Pvt::start: the new thread first waits for the lock.
Start ==
    /\ pc[Main] = "idle" /\ ~running /\ wpc = "idle" /\ starts < MaxStarts
    /\ running' = TRUE
    /\ wpc' = "boot"
    /\ starts' = starts + 1
    /\ UNCHANGED <<todo, ready, handlers, nextseq, seqOf, tasks, loop, pipe,
                   rxq, pc, arg>>

\* Pvt::stop: mark, poke, join.
Stop ==
    /\ CanCall(Main) /\ running
    /\ running' = FALSE
    /\ Goto(Main, "stopping", None)
    /\ UNCHANGED <<todo, ready, handlers, nextseq, seqOf, tasks, loop, pipe,
                   wpc, rxq, starts>>

\* mutant: stop() does not poke
StopNoPoke ==
    /\ pc[Main] = "stopping"
    /\ pc' = [pc EXCEPT ![Main] = "join"]
    /\ UNCHANGED <<shared, tasks, loop, pipe, wpc, rxq, arg, starts>>

StopPoke ==
    /\ pc[Main] = "stopping"
    /\ pipe' = pipe + 1
    /\ pc' = [pc EXCEPT ![Main] = "join"]
    /\ UNCHANGED <<shared, tasks, loop, wpc, rxq, arg, starts>>

Join ==
    /\ pc[Main] = "join" /\ wpc = "exited"
    /\ wpc' = "idle"
    /\ pc' = [pc EXCEPT ![Main] = "idle"]
    /\ UNCHANGED <<shared, tasks, loop, pipe, rxq, arg, starts>>

-----------------------------------------------------------------------------
(* The worker thread, Pvt::run                                             *)

\* A step of the worker from one label to another.
Step(from, to) == wpc = from /\ wpc' = to

Boot ==
    /\ Step("boot", "top")
    /\ UNCHANGED <<shared, tasks, loop, pipe, rxq, pc, arg, starts>>

StopAtOnce == running         \* mutant: queued jobs are not waited for
KeepRunning == running \/ todo # <<>>

PolloutKept == pollout        \* mutant: POLLOUT is never asked for
PolloutWanted == ready # <<>>

\* The head of the loop: ask for POLLOUT when there is something to send, and
\* unlock.
Top ==
    /\ KeepRunning
    /\ Step("top", "poll")
    /\ pollout' = PolloutWanted
    /\ revents' = {}
    /\ UNCHANGED <<shared, tasks, batch, cur, timeout, msgs, pipe, rxq, pc, arg,
                   starts>>

Exit ==
    /\ ~KeepRunning
    /\ Step("top", "exited")
    /\ UNCHANGED <<shared, tasks, loop, pipe, rxq, pc, arg, starts>>

\* todo.empty() is read for poll()'s timeout without the lock.
EnterPoll ==
    /\ Step("poll", "wait")
    /\ timeout' = IF todo = <<>> THEN -1 ELSE 0
    /\ UNCHANGED <<shared, tasks, batch, cur, pollout, revents, msgs, pipe, rxq,
                   pc, arg, starts>>

\* What poll() would report now.
Events == (IF pipe > 0 THEN {"wake"} ELSE {})
          \cup (IF rxq # <<>> THEN {"rx"} ELSE {})
          \cup (IF pollout THEN {"tx"} ELSE {})

PollReturn ==
    /\ Step("wait", "woke")
    /\ Events # {} \/ timeout = 0
    /\ revents' = Events
    /\ timeout' = 0
    /\ UNCHANGED <<shared, tasks, batch, cur, pollout, msgs, pipe, rxq,
                   pc, arg, starts>>

\* EINTR, which the kernel returns only when it has nothing to report.
PollIntr ==
    /\ Events = {}
    /\ Step("wait", "woke")
    /\ timeout' = 0
    /\ UNCHANGED <<shared, tasks, batch, cur, pollout, revents, msgs, pipe, rxq,
                   pc, arg, starts>>

\* Any other error ends the worker, with running still set.
PollFail ==
    /\ PollMayFail
    /\ Step("wait", "exited")
    /\ timeout' = 0
    /\ UNCHANGED <<shared, tasks, batch, cur, pollout, revents, msgs, pipe, rxq,
                   pc, arg, starts>>

\* The lock is taken again and todo is moved to a local.
TakeTodo ==
    /\ Step("woke", "jobs")
    /\ batch' = todo
    /\ todo' = <<>>
    /\ UNCHANGED <<running, ready, handlers, nextseq, seqOf, tasks, cur,
                   pollout, timeout, revents, msgs, pipe, rxq, pc, arg, starts>>

RunnableCb(x) == x \in cbs     \* mutant: done is not looked at
Runnable(x) == x \notin done /\ x \in cbs

\* The callback of x begins: busy is set and the lock released.
Begin(x) == /\ busy' = busy \cup {x}
            /\ cur' = x

RunJob ==
    /\ batch # <<>> /\ Runnable(Head(batch))
    /\ Step("jobs", "job")
    /\ Begin(Head(batch))
    /\ batch' = Tail(batch)
    /\ UNCHANGED <<shared, done, cbs, held, pollout, timeout, revents, msgs,
                   pipe, rxq, pc, arg, starts>>

\* The Job is gone, or cancelled.
SkipJob ==
    /\ batch # <<>> /\ ~Runnable(Head(batch))
    /\ Step("jobs", "jobs")
    /\ batch' = Tail(batch)
    /\ UNCHANGED <<shared, tasks, cur, pollout, timeout, revents, msgs, pipe,
                   rxq, pc, arg, starts>>

NotifyNone == pc' = pc        \* mutant: nobody is notified
NotifyAll == pc' = [t \in Threads |-> IF pc[t] = "wait" THEN "woken"
                                                        ELSE pc[t]]

\* A callback returns or throws; the lock is taken again.
JobReturn ==
    /\ Step("job", "jobs") /\ pc[Worker] = "idle"
    /\ busy' = busy \ {cur}
    /\ done' = done \cup {cur}
    /\ cur' = None
    /\ NotifyAll
    /\ UNCHANGED <<shared, cbs, held, batch, pollout, timeout, revents, msgs,
                   pipe, rxq, arg, starts>>

ReadFull == pipe - ReadMax    \* mutant: as if read() always filled its buffer
ReadNone == pipe              \* mutant: the pipe is not emptied
AfterRead == IF pipe > ReadMax THEN pipe - ReadMax ELSE 0

\* After the jobs the pipe is emptied, up to ReadMax bytes.
DrainPipe ==
    /\ batch = <<>>
    /\ Step("jobs", "rx")
    /\ pipe' = IF "wake" \in revents THEN AfterRead ELSE pipe
    /\ UNCHANGED <<shared, tasks, loop, rxq, pc, arg, starts>>

\* One datagram is received per cycle.
Rx ==
    /\ "rx" \in revents
    /\ Step("rx", "msgs")
    /\ msgs' = Head(rxq)
    /\ rxq' = Tail(rxq)
    /\ UNCHANGED <<shared, tasks, batch, cur, pollout, timeout, revents, pipe,
                   pc, arg, starts>>

NoRx ==
    /\ "rx" \notin revents
    /\ Step("rx", "tx")
    /\ UNCHANGED <<shared, tasks, loop, pipe, rxq, pc, arg, starts>>

\* The operation a message is for, None for a foreign or unknown one.
Addressee(s) == IF s \in Seqs THEN handlers[s] ELSE None

Deliverable(s) == Addressee(s) # None /\ Runnable(Addressee(s))

RunOp ==
    /\ msgs # <<>> /\ Deliverable(Head(msgs))
    /\ Step("msgs", "op")
    /\ Begin(Addressee(Head(msgs)))
    /\ msgs' = Tail(msgs)
    /\ UNCHANGED <<shared, done, cbs, held, batch, pollout, timeout, revents,
                   pipe, rxq, pc, arg, starts>>

IgnoreMsg ==
    /\ msgs # <<>> /\ ~Deliverable(Head(msgs))
    /\ Step("msgs", "msgs")
    /\ msgs' = Tail(msgs)
    /\ UNCHANGED <<shared, tasks, batch, cur, pollout, timeout, revents, pipe,
                   rxq, pc, arg, starts>>

OpReturn ==
    /\ Step("op", "msgs") /\ pc[Worker] = "idle"
    /\ busy' = busy \ {cur}
    /\ cur' = None
    /\ NotifyAll
    /\ UNCHANGED <<shared, done, cbs, held, batch, pollout, timeout, revents,
                   msgs, pipe, rxq, arg, starts>>

RxDone ==
    /\ msgs = <<>>
    /\ Step("msgs", "tx")
    /\ UNCHANGED <<shared, tasks, loop, pipe, rxq, pc, arg, starts>>

Sending == wpc = "tx" /\ "tx" \in revents /\ ready # <<>>

\* What the kernel queues for us when it is sent request s: nothing, a reply,
\* a reply and an acknowledgement in one datagram or in two, or a message that
\* is not for our port.
Answers(s) == {<<>>, <<<<s>>>>, <<<<s, s>>>>, <<<<s>>, <<s>>>>, <<<<NoSeq>>>>}

\* sendto() accepts the request, and the kernel answers at once; what does not
\* fit the receive buffer is lost without an error.  A failed sendto() loses
\* the request: it has the effect of no answer.
Tx ==
    /\ Sending /\ Head(ready) # NoSeq
    /\ ready' = Tail(ready)
    /\ \E a \in Answers(Head(ready)) :
        /\ Len(rxq \o a) <= RxMax \/ a = <<>>
        /\ rxq' = rxq \o a
    /\ UNCHANGED <<running, todo, handlers, nextseq, seqOf, tasks, loop, pipe,
                   wpc, pc, arg, starts>>

\* EWOULDBLOCK leaves the loop; front() was already moved from.
TxBlocked ==
    /\ SendMayBlock
    /\ Sending /\ Head(ready) # NoSeq
    /\ ready' = <<NoSeq>> \o Tail(ready)
    /\ wpc' = "top"
    /\ UNCHANGED <<running, todo, handlers, nextseq, seqOf, tasks, loop, pipe,
                   rxq, pc, arg, starts>>

\* A message that was moved from is a null pointer: the process dies.
TxCrash ==
    /\ Sending /\ Head(ready) = NoSeq
    /\ wpc' = "crashed"
    /\ UNCHANGED <<shared, tasks, loop, pipe, rxq, pc, arg, starts>>

TxDone ==
    /\ ~Sending
    /\ Step("tx", "top")
    /\ UNCHANGED <<shared, tasks, loop, pipe, rxq, pc, arg, starts>>

-----------------------------------------------------------------------------
\* The reactor was stopped for good, or the process died.
Terminated ==
    /\ \/ wpc = "crashed"
       \/ wpc = "idle" /\ starts = MaxStarts /\ \A t \in Threads : pc[t] = "idle"
    /\ UNCHANGED vars

ThreadStep(t) == \/ \E j \in Jobs : Submit(t, j)
                 \/ \E o \in Ops : Request(t, o)
                 \/ \E x \in Tasks : Drop(t, x)
                 \/ Poke(t)
                 \/ Recheck(t)
                 \/ NullCb(t)

MainStep == Start \/ Stop \/ StopPoke \/ Join

WorkerStep == \/ Boot \/ Top \/ Exit \/ EnterPoll
              \/ PollReturn \/ PollIntr \/ PollFail
              \/ TakeTodo \/ RunJob \/ SkipJob \/ JobReturn \/ DrainPipe
              \/ Rx \/ NoRx \/ RunOp \/ IgnoreMsg \/ OpReturn \/ RxDone
              \/ Tx \/ TxBlocked \/ TxCrash \/ TxDone

Next == \/ wpc # "crashed" /\ ((\E t \in Threads : ThreadStep(t)) \/ MainStep)
        \/ WorkerStep
        \/ Terminated

Spec == Init /\ [][Next]_vars
-----------------------------------------------------------------------------
(* Safety                                                                  *)

PokePending == \E t \in Threads : pc[t] \in {"poke", "stopping"}

\* When the worker sleeps in poll() with no timeout, whatever it has to do will
\* wake it: a queued job or a stop has its byte in the pipe, or on the way to
\* it, or POLLOUT was asked for; a queued request always has POLLOUT.  submit()
\* (402-407) writes the byte only when both queues were empty, and the worker
\* reads todo.empty() for the timeout without the lock (241).
NoLostWakeup ==
    wpc = "wait" /\ timeout = -1 =>
        /\ todo # <<>> \/ ~running => pipe > 0 \/ PokePending \/ pollout
        /\ ready # <<>> => pollout

\* While a callback executes, its closure exists, and its handle is held or the
\* thread that drops it waits; the exception is a handle the callback itself
\* drops (417, 469).  So no callback executes after a drop has returned.
DropSafe ==
    /\ \A x \in busy \ done :
        /\ x \in cbs
        /\ \/ x \in held
           \/ \E t \in Clients : pc[t] \in {"wait", "woken"} /\ arg[t] = x
    /\ \A t \in Clients : pc[t] = "null" => arg[t] \notin busy

\* handlers holds exactly the operations that are not cancelled, each under its
\* own number, however requests, replies and drops interleave: erasing by
\* number (476) never removes another operation's entry.
HandlersExact ==
    \A s \in Seqs, o \in Ops : handlers[s] = o <=> o \notin done /\ seqOf[o] = s

\* When a stop has returned, every job that was accepted has run or was
\* cancelled: the worker leaves its loop only with todo empty (231), and no job
\* is accepted after running was cleared (399).
StopDrains == wpc \in {"exited", "idle"} /\ ~running => Jobs \subseteq done

\* poke() never fills the pipe, which would block the poking thread.
PipeShallow == pipe <= Cardinality(Threads) + MaxStarts + 2

\* "try again later..." (353): a request that sendto() could not take is kept
\* until it can, so the worker survives a full socket.
SurvivesBlockedSend == wpc # "crashed"

-----------------------------------------------------------------------------
(* Seen from submit() and JobHandle, the reactor is an Executor: the queue is *)
(* what the worker took and has not reached, then what it has not taken.     *)

Exec == INSTANCE Executor WITH
            queue <- batch \o todo,
            live <- Jobs \ done,
            exec <- IF cur \in Jobs THEN cur ELSE None

\* Jobs run one at a time, in order, at most once, and never after a cancel
\* (251-271, 410-429).
ImplementsExecutor == Exec!Spec

-----------------------------------------------------------------------------
(* Liveness: the scheduler runs every thread, callbacks return, and a thread *)
(* that was notified gets the lock in the end.                             *)

ThreadFairness(t) ==
    /\ WF_vars(Poke(t))
    /\ WF_vars(NullCb(t))
    /\ SF_vars(Recheck(t))

WorkerFairness ==
    /\ WF_vars(\/ Boot \/ Top \/ Exit \/ EnterPoll \/ PollReturn
               \/ TakeTodo \/ RunJob \/ SkipJob \/ DrainPipe
               \/ Rx \/ NoRx \/ RunOp \/ IgnoreMsg \/ RxDone \/ Tx \/ TxDone)
    /\ SF_vars(JobReturn)
    /\ SF_vars(OpReturn)

FairSpec == /\ Spec
            /\ \A t \in Threads : ThreadFairness(t)
            /\ WF_vars(StopPoke) /\ WF_vars(Join)
            /\ WorkerFairness

\* A submitted job runs or is cancelled.
JobServed == \A j \in Jobs : j \notin done ~> j \in done

\* Dropping a handle ends, though it may wait for a callback.
DropReturns == \A t \in Clients : pc[t] = "wait" ~> pc[t] = "idle"

\* Stopping the reactor ends: the worker sees it and is joined.
StopReturns == pc[Main] = "stopping" ~> pc[Main] = "idle"

\* A queued request is sent, unless the reactor is stopped.
RequestSent == ready # <<>> /\ running ~> ready = <<>> \/ ~running
=============================================================================
