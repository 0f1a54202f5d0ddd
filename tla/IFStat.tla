-------------------------------- MODULE IFStat --------------------------------
(***************************************************************************)
(* The network interface table of statApp/src/tblIFStat.cpp over the       *)
(* passes of the reactor's worker.  update() runs as a job and only sends  *)
(* a query; the kernel's two answers, the link message and the             *)
(* acknowledgement, come back through the reactor's receive step, one      *)
(* datagram per pass, and the first of them is what is published.          *)
(*                                                                         *)
(* The table's code runs in the worker alone (its first update() runs      *)
(* before the worker exists), so each phase of a pass is one action.  That *)
(* the reactor hands an answer to the operation that asked, and to none    *)
(* once that was abandoned, is Reactor's HandlersExact.                    *)
(*                                                                         *)
(* All these tables share the one netlink socket: what the other interface *)
(* tables and the address lookups receive stands in the same buffer, takes *)
(* a pass of its own and, when the buffer is full, this table's place.     *)
(***************************************************************************)
EXTENDS Integers, Sequences, Functions

CONSTANTS
    Queries,    \* sequence numbers, used again once nothing carries them
    None,       \* no query
    Others,     \* stands for every query of another table
    Late,       \* the age beyond which a query is abandoned (1.0 s in the code)
    RxMax,      \* the datagrams that the receive buffer holds
    MaxVer      \* bound: how often the interface changes

ASSUME QueryAssumption == None \notin Queries /\ Others \notin Queries \cup {None}
ASSUME NumAssumption == Late \in Nat /\ RxMax \in Nat /\ MaxVer \in Nat

VARIABLES
    op,         \* IFStatTable::op, the outstanding query
    age,        \* now - opStart, capped just beyond Late
    ready,      \* Pvt::ready, the queries to be sent
    rx,         \* the socket's receive buffer, a datagram per element
    wpc,        \* the phase of the worker's pass
    pollout,    \* whether this pass may send
    ver, up,    \* the interface: its version, and whether it exists
    prompt,     \* whether the worker receives answers within Late
    shown,      \* the version that current was made from
    asked       \* bookkeeping: the version when op was asked, 0 if none

table == <<op, age, shown, asked>>
environment == <<ver, up, prompt>>
vars == <<table, ready, rx, wpc, pollout, environment>>

Versions == 0 .. MaxVer
Foreign == [query |-> Others, kind |-> "other"]
Messages == [query : Queries, kind : {"link", "ack"}, ver : Versions] \cup {Foreign}

TypeOK ==
    /\ op \in Queries \cup {None}
    /\ age \in 0 .. Late + 1
    /\ ready \in Seq(Queries)
    /\ rx \in Seq(Messages) /\ Len(rx) <= RxMax
    /\ wpc \in {"jobs", "rx", "tx"}
    /\ pollout \in BOOLEAN
    /\ ver \in Versions /\ up \in BOOLEAN /\ prompt \in BOOLEAN
    /\ shown \in Versions /\ asked \in Versions

\* current is empty: no version was shown, the interface may not exist yet.
Init ==
    /\ op = None /\ age = 0
    /\ ready = <<>> /\ rx = <<>>
    /\ wpc = "jobs" /\ pollout = FALSE
    /\ ver = 0 /\ up \in BOOLEAN /\ prompt = FALSE
    /\ shown = 0 /\ asked = 0

-----------------------------------------------------------------------------
(* The kernel, the clock and the worker's other work                       *)

\* Counters move, the interface goes away or comes back.
Change ==
    /\ ver < MaxVer
    /\ ver' = ver + 1
    /\ up' \in BOOLEAN
    /\ UNCHANGED <<table, ready, rx, wpc, pollout, prompt>>

\* Other jobs and other tables' datagrams keep the worker, or no longer do.
Load ==
    /\ prompt' = ~prompt
    /\ UNCHANGED <<table, ready, rx, wpc, pollout, ver, up>>

InFlight(q) == q \in Range(ready) \/ \E i \in DOMAIN rx : rx[i].query = q

Tick ==
    /\ op # None /\ age <= Late
    /\ prompt /\ InFlight(op) => age < Late
    /\ age' = age + 1
    /\ UNCHANGED <<op, shown, asked, ready, rx, wpc, pollout, environment>>

\* An answer to another table.  While the worker is in time, what the others
\* receive leaves room for an answer to this table.  It may arrive at any time, but
\* what arrives after poll() is not received before the next pass.
OtherAnswer ==
    /\ wpc = "tx"
    /\ Len(rx) + (IF prompt THEN 3 ELSE 1) <= RxMax
    /\ rx' = Append(rx, Foreign)
    /\ UNCHANGED <<table, ready, wpc, pollout, environment>>

\* Any of the answers to query q may be lost; an interface that does not exist
\* is answered by an acknowledgement that carries an error.
Answers(q) ==
    LET link == [query |-> q, kind |-> "link", ver |-> ver]
        ack == [query |-> q, kind |-> "ack", ver |-> ver]
    IN  {<<>>, <<ack>>} \cup IF up THEN {<<link>>, <<link, ack>>} ELSE {}

-----------------------------------------------------------------------------
(* The jobs of a pass: an update() for each of the table's scan records that *)
(* was processed, or none                                                   *)

NeverLate == FALSE            \* mutant: a lost answer is waited for for ever
TooLate == age > Late

\* mutant: the time of the query is not noted
AskUndated(q) ==
    /\ ~InFlight(q)
    /\ op' = q /\ age' = age
    /\ ready' = Append(ready, q)
    /\ asked' = ver

\* The query is copied from the prepared message and queued.
Ask(q) ==
    /\ ~InFlight(q)
    /\ op' = q /\ age' = 0
    /\ ready' = Append(ready, q)
    /\ asked' = ver

\* Abandoned; the next update() asks again.
Abandon ==
    /\ wpc = "jobs"
    /\ op # None /\ TooLate
    /\ op' = None /\ asked' = 0
    /\ UNCHANGED <<age, shown, ready, rx, wpc, pollout, environment>>

Busy ==
    /\ wpc = "jobs"
    /\ op # None /\ ~TooLate
    /\ UNCHANGED vars

\* mutant: an update() does not wait for the answers to the last one
RequestAnyway ==
    /\ wpc = "jobs"
    /\ \E q \in Queries : Ask(q)
    /\ UNCHANGED <<shown, rx, wpc, pollout, environment>>

Request ==
    /\ wpc = "jobs"
    /\ op = None
    /\ \E q \in Queries : Ask(q)
    /\ UNCHANGED <<shown, rx, wpc, pollout, environment>>

JobsDone ==
    /\ wpc = "jobs" /\ wpc' = "rx"
    /\ UNCHANGED <<table, ready, rx, pollout, environment>>

-----------------------------------------------------------------------------
(* The rest of a pass: receive one datagram, then send if POLLOUT was asked *)
(* for when the pass began.                                                *)

\* mutant: late answers are not told apart
AnyAnswer(m) == m.query \in Queries
ForUs(m) == m.query = op

Received(kind) ==
    /\ wpc = "rx" /\ wpc' = "tx"
    /\ rx # <<>> /\ ForUs(Head(rx)) /\ Head(rx).kind = kind
    /\ rx' = Tail(rx)

\* digest_newlink: a transaction with what the message holds.
Publish ==
    /\ Received("link")
    /\ shown' = Head(rx).ver
    /\ UNCHANGED <<op, age, asked, ready, pollout, environment>>

\* With an error or without, the query is over.
Acknowledge ==
    /\ Received("ack")
    /\ op' = None /\ asked' = 0
    /\ UNCHANGED <<age, shown, ready, pollout, environment>>

\* Another table's, or of an operation that is gone; or there is nothing to
\* receive.  What stands behind it waits for the next pass.
IgnoreAnswer ==
    /\ wpc = "rx" /\ wpc' = "tx"
    /\ rx # <<>> => ~ForUs(Head(rx))
    /\ rx' = IF rx = <<>> THEN rx ELSE Tail(rx)
    /\ UNCHANGED <<table, ready, pollout, environment>>

Sending == wpc = "tx" /\ pollout /\ ready # <<>>

SendTo(answers) ==
    /\ Sending
    /\ ready' = Tail(ready)
    /\ \E a \in answers : Len(rx \o a) <= RxMax /\ rx' = rx \o a
    /\ UNCHANGED <<table, wpc, pollout, environment>>

\* sendto(), query after query, if poll() reported room; an abandoned query is
\* sent like any other.  Answers that the buffer has no room for are lost.
Send == SendTo(Answers(Head(ready)))

\* The head of the loop: POLLOUT is asked for if there is something to send, by
\* this table or by another.
PassEnds ==
    /\ wpc = "tx" /\ ~Sending
    /\ wpc' = "jobs"
    /\ pollout' \in BOOLEAN /\ (ready # <<>> => pollout')
    /\ UNCHANGED <<table, ready, rx, environment>>

-----------------------------------------------------------------------------
Update == Abandon \/ Busy \/ Request
Receive == Publish \/ Acknowledge \/ IgnoreAnswer
Worker == Update \/ JobsDone \/ Receive \/ Send \/ PassEnds
Next == Change \/ Load \/ Tick \/ OtherAnswer \/ Worker

Spec == Init /\ [][Next]_vars

-----------------------------------------------------------------------------
(* Safety                                                                  *)

\* What a record shows never goes back to an older state of the interface, nor
\* to one from before the outstanding query: the late answer to an abandoned
\* query is not taken for the next one's (155, 164), though it arrives first.
AnswersCurrent == [][shown' # shown => shown' > shown /\ shown' >= asked]_vars

-----------------------------------------------------------------------------
(* Liveness                                                                *)

SendAnswered == up /\ SendTo({a \in Answers(Head(ready)) : Len(a) = 2})

\* The worker makes its passes, the clock ticks, the table is scanned again and
\* again (tblScan.template), and not every answer is lost.
FairSpec ==
    /\ Spec
    /\ WF_vars(Tick)
    /\ WF_vars(JobsDone) /\ SF_vars(Update)
    /\ WF_vars(Receive) /\ WF_vars(Send) /\ WF_vars(PassEnds)
    /\ SF_vars(SendAnswered)

\* Every query ends, also one whose answers were lost.
QueryEnds == op # None ~> op = None

\* An interface that stays, perhaps after it came back, is shown as it is once
\* the worker is no longer late, however many queries were lost or abandoned.
Converges == <>[](up /\ prompt) => <>[](shown = ver)

\* A worker that is late lets abandoned queries and their answers pile up, one
\* datagram being received per pass of a socket that others use (153-160,
\* nlreact.cpp 284-289).  Once it is in time, what is left of them is gone for
\* good: whatever is under way belongs to the outstanding query.
BacklogDrains == <>[]prompt => <>[](\A q \in Queries : InFlight(q) => q = op)
=============================================================================
