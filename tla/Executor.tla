------------------------------ MODULE Executor -------------------------------
(***************************************************************************)
(* What Reactor::submit and JobHandle promise to the rest of the program,  *)
(* whatever the wake-up pipe, the lock and the condition variable do:      *)
(* jobs begin one at a time, in the order they were submitted, each at     *)
(* most once; a cancelled job never begins; and a thread that cancels a    *)
(* job other than from inside it never finds it executing.                 *)
(***************************************************************************)
EXTENDS Sequences, Functions

CONSTANTS Jobs, None

VARIABLES
    queue,  \* jobs submitted that have neither begun nor been passed over
    live,   \* jobs submitted that are neither complete nor cancelled
    exec    \* the job that executes

vars == <<queue, live, exec>>

Init == queue = <<>> /\ live = {} /\ exec = None

Submit(j) ==
    /\ j \notin live \cup Range(queue) \cup {exec}
    /\ queue' = Append(queue, j)
    /\ live' = live \cup {j}
    /\ exec' = exec

Begin ==
    /\ exec = None /\ queue # <<>> /\ Head(queue) \in live
    /\ exec' = Head(queue)
    /\ queue' = Tail(queue)
    /\ live' = live

\* A cancelled job is passed over.
Skip ==
    /\ exec = None /\ queue # <<>> /\ Head(queue) \notin live
    /\ queue' = Tail(queue)
    /\ UNCHANGED <<live, exec>>

End ==
    /\ exec # None
    /\ live' = live \ {exec}
    /\ exec' = None
    /\ queue' = queue

Cancel(j) ==
    /\ j \in live /\ j # exec
    /\ live' = live \ {j}
    /\ UNCHANGED <<queue, exec>>

\* The callback drops the handle of its own job.
CancelSelf ==
    /\ exec \in live
    /\ live' = live \ {exec}
    /\ UNCHANGED <<queue, exec>>

Next == \/ \E j \in Jobs : Submit(j) \/ Cancel(j)
        \/ Begin \/ Skip \/ End \/ CancelSelf

Spec == Init /\ [][Next]_vars
=============================================================================
