------------------------------ MODULE ReactorInv ------------------------------
(***************************************************************************)
(* The inductive invariant of Reactor: what TypeOK, DropSafe, HandlersExact, *)
(* NoLostWakeup and StopDrains need to be preserved by every step.          *)
(***************************************************************************)
EXTENDS Reactor

Waiting(t) == pc[t] \in {"wait", "woken"}

\* Where the worker is determines what it executes; a thread that is inside an
\* operation is inside it for a task; only clients wait, only Main stops.
Control ==
    /\ wpc = "job" <=> cur \in Jobs
    /\ wpc = "op" <=> cur \in Ops
    /\ busy = {cur} \ {None}
    /\ batch # <<>> => wpc \in {"jobs", "job"}
    /\ wpc \in {"poll", "wait"} => revents = {}
    /\ "rx" \in revents /\ wpc \in {"woke", "jobs", "job", "rx"} => rxq # <<>>
    /\ pc[Worker] # "idle" => wpc \in {"job", "op"}
    /\ \A t \in Threads :
        /\ pc[t] \in {"poke", "wait", "woken", "null"} => arg[t] \in Tasks
        /\ Waiting(t) => t \in Clients
        /\ pc[t] \in {"stopping", "join"} => t = Main

\* Who answers for a task: one that is not done has its callback, and a handle
\* or a thread that waits to drop it; no two threads drop the same task; one
\* that is being destroyed is done and, unless by its own callback, not busy.
Ownership ==
    /\ \A x \in Tasks \ done :
        x \in cbs /\ (x \in held \/ \E t \in Clients : Waiting(t) /\ arg[t] = x)
    /\ \A t \in Threads : Waiting(t) =>
        /\ arg[t] \notin held
        /\ \A u \in Threads \ {t} : Waiting(u) => arg[u] # arg[t]
    /\ \A t \in Threads : pc[t] = "null" =>
        arg[t] \in done /\ (t \in Clients => arg[t] \notin busy)

\* An operation is not cancelled as long as its handle is held or waited for.
OpsLive ==
    \A o \in Ops : o \in held \/ (\E t \in Clients : Waiting(t) /\ arg[t] = o)
                   => o \notin done

\* A job that is not done is queued, taken or executing.
Queued ==
    \A j \in Jobs \ done : j \in Range(todo) \cup Range(batch) \cup {cur}

\* When poll() is about to be entered or was entered, it will end if it must.
Awake ==
    /\ wpc \in {"poll", "wait"} /\ ready # <<>> => pollout
    /\ wpc = "poll" /\ ~running =>
        todo # <<>> \/ pipe > 0 \/ PokePending \/ pollout
    /\ NoLostWakeup

\* The worker ends when it was stopped and nothing is queued.
Shutdown == /\ wpc \in {"exited", "idle"} => ~running /\ todo = <<>>
            /\ running => pc[Main] \notin {"stopping", "join"}

\* The threads whose byte is on its way to the pipe.
Poking == {t \in Threads : pc[t] \in {"poke", "stopping"}}

\* How often stop() was called, of the times the reactor was started.
Stops == starts - (IF running THEN 1 ELSE 0)

\* What a cycle of the worker adds to the allowance: a wake-up that is seen is
\* paid for when the pipe is drained; one that is not seen was not there.
Cycle == LET seen == IF "wake" \in revents THEN 1 ELSE 0 IN
         CASE wpc = "woke" -> seen
           [] wpc \in {"jobs", "job"} -> 1 + seen
           [] OTHER -> 1

\* The bytes in the pipe, and those on their way to it, are within an allowance
\* that submit() and stop() enlarge when they are about to poke, and a cycle
\* that drains the pipe gives back.  It is no bound on the cycles: a pipe that
\* poll() found empty starts it over.
Allowance == Cardinality(Threads) - 1 + Stops + Cycle
             + (IF todo # <<>> THEN 1 ELSE 0)

Shallow ==
    /\ pipe + Cardinality(Poking) <= Allowance
    /\ "wake" \in revents /\ wpc \in {"woke", "jobs", "job"} => pipe > 0
    /\ running => starts > 0

IndInv == /\ TypeOK
          /\ Control
          /\ Ownership
          /\ HandlersExact
          /\ OpsLive
          /\ Queued

\* The part that needs requests to come from the worker or before the start.
IndAwake == Requesters = {} => Awake

\* The part that needs poll() not to fail.
IndShutdown == ~PollMayFail => Shutdown
=============================================================================
