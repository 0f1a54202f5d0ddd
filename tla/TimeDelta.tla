------------------------------ MODULE TimeDelta -------------------------------
(***************************************************************************)
(* The up-time record of statApp/src/devtdelta.cpp: a number of seconds as *)
(* days, hours, minutes and seconds, written into the record's text field, *)
(* which keeps what it held before where nothing is written.               *)
(***************************************************************************)
EXTENDS Values

CONSTANTS
    Starts,     \* up-times at which the record is processed first
    Period,     \* of the scan that processes it, $(PERIOD) of tblScan.template
    Times,      \* bound: how often it is processed
    ValSize     \* sizeof(prec->val)

VARIABLES uptime, val, left

vars == <<uptime, val, left>>

Intervals == <<[period |-> 60 * 60 * 24, label |-> "D"], [period |-> 60 * 60, label |-> "H"],
               [period |-> 60, label |-> "M"]>>

\* A whole interval is named and taken off; what is left are the seconds.
Name(msg, interval) ==
    LET count == msg.rest \div interval.period
    IN  IF count = 0 THEN msg
        ELSE [text |-> msg.text \o ToString(count) \o " " \o interval.label \o " ",
              rest |-> msg.rest % interval.period]

Formatted(seconds) ==
    LET msg == FoldLeft(Name, [text |-> "", rest |-> seconds], Intervals)
    IN  msg.text \o ToString(msg.rest) \o " S"

\* std::string::copy() writes the characters and no nil: the field goes on
\* with what it held, but for its last byte.
Overwritten(field, s) == Prefix(s \o SubSeq(field, Len(s) + 1, Len(field)), ValSize - 1)

Init == uptime \in Starts /\ val = "" /\ left = Times

Process ==
    /\ left > 0 /\ left' = left - 1
    /\ val' = Overwritten(val, Formatted(uptime))
    /\ uptime' = uptime + Period

Next == Process
Spec == Init /\ [][Next]_vars

\* The record shows "system up-time" (Db/logicHost.template 156): the days,
\* hours, minutes and seconds there are, and nothing else.
TextIsUptime == left < Times => val = Prefix(Formatted(uptime - Period), ValSize - 1)
===============================================================================
