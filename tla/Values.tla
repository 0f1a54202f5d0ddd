-------------------------------- MODULE Values --------------------------------
(***************************************************************************)
(* What tables publish and how: the variant Value of statApp/src/linStat.h *)
(* and the names a Transaction sets.  Each table's update() is an operator *)
(* that gives an Outcome: what the transaction publishes, also when the    *)
(* update fails half way, and whether it returned.                         *)
(***************************************************************************)
EXTENDS Integers, Sequences, SequencesExt

Integer(v) == [int |-> v]
Float(v) == [float |-> v]       \* a quotient is kept as <<dividend, divisor>>
Text(s) == [text |-> s]
NoValue == [none |-> TRUE]      \* std::monostate

\* The names set to their values, each pair <<name, value>> with its own name.
Named(pairs) == [n \in {p[1] : p \in pairs} |-> (CHOOSE p \in pairs : p[1] = n)[2]]
Nothing == Named({})
One(name, value) == Named({<<name, value>>})

\* What is set later replaces what was set before: @@, with a definition.
Over(later, before) ==
    [n \in DOMAIN later \cup DOMAIN before |->
        IF n \in DOMAIN later THEN later[n] ELSE before[n]]

\* Line after line, what is set later replaces what was set before.
OverAll(maps) == FoldLeft(LAMBDA before, m : Over(m, before), Nothing, maps)
OverLines(Values(_), lines) == OverAll([i \in DOMAIN lines |-> Values(lines[i])])

Returns(next) == [next |-> next, ok |-> TRUE]
Throws(next) == [next |-> next, ok |-> FALSE]

Bad == -99          \* a token that std::stol and its kin refuse
Unread == -98       \* a file that cannot be opened or read
File(lines) == [lines |-> lines]
NoFile == [none |-> TRUE]

Prefix(s, n) == SubSeq(s, 1, Min({n, Len(s)}))
===============================================================================
