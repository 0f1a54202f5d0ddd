----------------------------- MODULE IFStatProofs -----------------------------
(***************************************************************************)
(* The safety properties of IFStat, for any number of queries, any patience *)
(* and any number of changes of the interface.                             *)
(***************************************************************************)
EXTENDS IFStat, TLAPS

\* This table's datagrams among those of the buffer.
Ours == {i \in DOMAIN rx : rx[i].query \in Queries}

\* What the buffer holds for this table was sampled in order, after what is
\* shown, and the answers to the outstanding query after it was asked.
Order ==
    /\ asked <= ver /\ shown <= ver
    /\ \A i \in Ours : shown <= rx[i].ver /\ rx[i].ver <= ver
    /\ \A i, j \in Ours : i < j => rx[i].ver <= rx[j].ver
    /\ \A i \in Ours : rx[i].query = op => asked <= rx[i].ver

IndInv == TypeOK /\ Order

-----------------------------------------------------------------------------
\* The kernel's answers to a query carry its number and what it sampled.
LEMMA AnswersTyped ==
    ASSUME TypeOK, NEW q \in Queries, NEW a \in Answers(q)
    PROVE  /\ a \in Seq(Messages)
           /\ \A i \in DOMAIN a : a[i].query = q /\ a[i].ver = ver
  <1> DEFINE link == [query |-> q, kind |-> "link", ver |-> ver]
             ack == [query |-> q, kind |-> "ack", ver |-> ver]
  <1>1. link \in Messages /\ ack \in Messages
    BY DEF TypeOK, Messages
  <1>2. a \in {<<>>, <<ack>>, <<link>>, <<link, ack>>}
    BY DEF Answers
  <1>3. link.query = q /\ link.ver = ver /\ ack.query = q /\ ack.ver = ver
    OBVIOUS
  <1> HIDE DEF link, ack
  <1>4. QED
    <2>1. CASE a = <<>>
      BY <2>1
    <2>2. CASE a = <<ack>>
      BY <2>2, <1>1, <1>3
    <2>3. CASE a = <<link>>
      BY <2>3, <1>1, <1>3
    <2>4. CASE a = <<link, ack>>
      BY <2>4, <1>1, <1>3
    <2>5. QED
      BY <1>2, <2>1, <2>2, <2>3, <2>4

\* The first datagram of the buffer, and what is left without it.
LEMMA HeadTail ==
    ASSUME NEW s \in Seq(Messages), s # <<>>
    PROVE  /\ 1 \in DOMAIN s /\ Head(s) = s[1] /\ s[1] \in Messages
           /\ Tail(s) \in Seq(Messages) /\ Len(Tail(s)) = Len(s) - 1
           /\ \A i \in DOMAIN Tail(s) : /\ i + 1 \in DOMAIN s
                                       /\ Tail(s)[i] = s[i + 1]
  OBVIOUS

\* What a datagram of the buffer holds.
LEMMA Fields ==
    ASSUME TypeOK
    PROVE  /\ \A i \in DOMAIN rx : rx[i].query # None
           /\ \A i \in Ours : i \in DOMAIN rx /\ rx[i].ver \in Nat
  <1>1. \A i \in DOMAIN rx : rx[i] \in Messages
    BY DEF TypeOK
  <1>2. Foreign.query = Others
    BY DEF Foreign
  <1>3. \A m \in Messages : m.query # None /\ (m.query \in Queries => m.ver \in Nat)
    <2> TAKE m \in Messages
    <2>1. CASE m = Foreign
      BY <2>1, <1>2, QueryAssumption
    <2>2. CASE m \in [query : Queries, kind : {"link", "ack"}, ver : Versions]
      <3>1. m.query \in Queries /\ m.ver \in Versions
        BY <2>2
      <3>2. QED
        BY <3>1, QueryAssumption, NumAssumption DEF Versions
    <2>3. QED
      BY <2>1, <2>2 DEF Messages
  <1>4. QED
    BY <1>1, <1>3 DEF Ours

\* A datagram of another table is none of this table's.
LEMMA ForeignTyped == Foreign \in Messages /\ Foreign.query \notin Queries
  BY QueryAssumption DEF Foreign, Messages

\* The initial states satisfy the invariant.
LEMMA InitInv == Init => IndInv
  <1> SUFFICES ASSUME Init PROVE TypeOK /\ Order
    BY DEF IndInv
  <1> USE NumAssumption DEF Init
  <1>1. TypeOK
    <2>1. up \in BOOLEAN /\ prompt \in BOOLEAN /\ pollout \in BOOLEAN
      BY Zenon
    <2>2. /\ op \in Queries \cup {None} /\ age \in 0 .. Late + 1
          /\ ver \in Versions /\ shown \in Versions /\ asked \in Versions
          /\ ready \in Seq(Queries) /\ rx \in Seq(Messages) /\ Len(rx) <= RxMax
          /\ wpc \in {"jobs", "rx", "tx"}
      BY DEF Versions
    <2>3. QED
      BY <2>1, <2>2, Zenon DEF TypeOK
  <1>2. Order
    BY DEF Order, Ours
  <1>3. QED
    BY <1>1, <1>2

\* A step that leaves the buffer, and what is shown, keeps the order.
LEMMA SameOrder ==
    ASSUME TypeOK, Order, UNCHANGED <<rx, shown>>, ver' \in Nat, ver <= ver',
           asked' <= ver',
           op' # None => \A i \in Ours : rx[i].query = op' => asked' <= rx[i].ver
    PROVE  Order'
  <1>1. Ours' = Ours
    BY DEF Ours
  <1>2. /\ \A i \in DOMAIN rx : rx[i].query # None
        /\ \A i \in Ours : i \in DOMAIN rx /\ rx[i].ver \in Nat
    BY Fields
  <1>3. shown \in Nat /\ ver \in Nat
    BY NumAssumption DEF TypeOK, Versions
  <1>4. QED
    BY <1>1, <1>2, <1>3 DEF Order

\* Receiving a datagram, this table's or another's, keeps the order of the rest.
LEMMA ReceiveOrder ==
    ASSUME TypeOK, Order, rx # <<>>, rx' = Tail(rx), UNCHANGED ver,
           <<op', asked'>> \in {<<op, asked>>, <<None, 0>>},
           shown' = shown \/ (1 \in Ours /\ shown' = rx[1].ver)
    PROVE  Order'
  <1>1. /\ \A i \in DOMAIN rx' : /\ i \in Nat \ {0} /\ i + 1 \in DOMAIN rx
                                /\ rx'[i] = rx[i + 1]
    BY HeadTail DEF TypeOK
  <1>2. \A i \in Ours' : /\ i \in Nat \ {0} /\ i + 1 \in Ours
                         /\ rx'[i] = rx[i + 1] /\ rx'[i].query # None
    BY <1>1, Fields DEF Ours
  <1>3. \A i \in Ours : rx[i].ver \in Nat
    BY Fields
  <1>4. /\ shown \in Nat /\ asked \in Nat /\ ver \in Nat
        /\ asked' \in {asked, 0} /\ op' \in {op, None} /\ (op' = None \/ asked' = asked)
    BY NumAssumption DEF TypeOK, Versions
  <1>5. asked' <= ver' /\ shown' <= ver'
    BY <1>3, <1>4 DEF Order
  <1>6. \A i \in Ours' : shown' <= rx'[i].ver /\ rx'[i].ver <= ver'
    <2> TAKE i \in Ours'
    <2>1. i \in Nat \ {0} /\ i + 1 \in Ours /\ rx'[i] = rx[i + 1]
      BY <1>2
    <2>2. 1 < i + 1
      BY <2>1
    <2>3. /\ 1 \in Ours => rx[1].ver <= rx[i + 1].ver
          /\ shown <= rx[i + 1].ver /\ rx[i + 1].ver <= ver
      BY <2>1, <2>2 DEF Order
    <2>4. QED
      BY <2>1, <2>3
  <1>7. \A i, j \in Ours' : i < j => rx'[i].ver <= rx'[j].ver
    <2> TAKE i \in Ours', j \in Ours'
    <2> HAVE i < j
    <2>1. /\ i \in Nat /\ i + 1 \in Ours /\ rx'[i] = rx[i + 1]
          /\ j \in Nat /\ j + 1 \in Ours /\ rx'[j] = rx[j + 1]
      BY <1>2
    <2>2. i + 1 < j + 1
      BY <2>1
    <2>3. QED
      BY <2>1, <2>2 DEF Order
  <1>8. \A i \in Ours' : rx'[i].query = op' => asked' <= rx'[i].ver
    <2> TAKE i \in Ours'
    <2> HAVE rx'[i].query = op'
    <2>1. i + 1 \in Ours /\ rx'[i] = rx[i + 1] /\ op' = op /\ asked' = asked
      BY <1>2, <1>4
    <2>2. QED
      BY <2>1 DEF Order
  <1>9. QED
    BY <1>5, <1>6, <1>7, <1>8 DEF Order

\* What is appended to the buffer, being sampled now, comes after what it holds.
LEMMA AppendOrder ==
    ASSUME TypeOK, Order, NEW a \in Seq(Messages), rx' = rx \o a,
           \A i \in DOMAIN a : a[i].query \in Queries => a[i].ver = ver,
           UNCHANGED <<op, asked, shown, ver>>
    PROVE  Order'
  <1>1. rx \in Seq(Messages)
    BY DEF TypeOK
  <1>2. \A i \in DOMAIN rx' :
            \/ i \in DOMAIN rx /\ rx'[i] = rx[i]
            \/ i > Len(rx) /\ i - Len(rx) \in DOMAIN a /\ rx'[i] = a[i - Len(rx)]
    BY <1>1
  <1>3. \A i \in Ours' : \/ i \in Ours /\ rx'[i] = rx[i]
                         \/ i > Len(rx) /\ rx'[i].ver = ver
    BY <1>2 DEF Ours
  <1>4. \A i \in Ours : i \in 1 .. Len(rx) /\ rx[i].ver \in Nat
    BY <1>1, Fields
  <1>5. \A i \in Ours' : i \in Nat
    BY <1>1 DEF Ours
  <1>6. shown \in Nat /\ asked \in Nat /\ ver \in Nat /\ Len(rx) \in Nat
    BY <1>1, NumAssumption DEF TypeOK, Versions
  <1>7. \A i \in Ours' : shown' <= rx'[i].ver /\ rx'[i].ver <= ver'
    <2> TAKE i \in Ours'
    <2>1. CASE i \in Ours /\ rx'[i] = rx[i]
      BY <2>1 DEF Order
    <2>2. CASE rx'[i].ver = ver
      BY <2>2, <1>6 DEF Order
    <2>3. QED
      BY <1>3, <2>1, <2>2
  <1>8. \A i, j \in Ours' : i < j => rx'[i].ver <= rx'[j].ver
    <2> TAKE i \in Ours', j \in Ours'
    <2> HAVE i < j
    <2>1. CASE j \in Ours /\ rx'[j] = rx[j]
      <3>1. i \in Ours /\ rx'[i] = rx[i]
        BY <2>1, <1>3, <1>4, <1>5, <1>6
      <3>2. QED
        BY <2>1, <3>1 DEF Order
    <2>2. CASE rx'[j].ver = ver
      BY <2>2, <1>7
    <2>3. QED
      BY <1>3, <2>1, <2>2
  <1>9. \A i \in Ours' : rx'[i].query = op' => asked' <= rx'[i].ver
    <2> TAKE i \in Ours'
    <2>1. CASE i \in Ours /\ rx'[i] = rx[i]
      BY <2>1 DEF Order
    <2>2. CASE rx'[i].ver = ver
      BY <2>2 DEF Order
    <2>3. QED
      BY <1>3, <2>1, <2>2
  <1>10. QED
    BY <1>7, <1>8, <1>9 DEF Order

\* Every step keeps it.
LEMMA NextInv == IndInv /\ [Next]_vars => IndInv'
  <1> SUFFICES ASSUME TypeOK, Order, [Next]_vars
               PROVE  TypeOK' /\ Order'
    BY DEF IndInv
  <1> USE NumAssumption, QueryAssumption
  <1>0. /\ op \in Queries \cup {None} /\ age \in 0 .. Late + 1
        /\ rx \in Seq(Messages) /\ Len(rx) <= RxMax /\ ready \in Seq(Queries)
        /\ ver \in 0 .. MaxVer /\ asked \in 0 .. MaxVer /\ shown \in 0 .. MaxVer
        /\ asked <= ver /\ shown <= ver
        /\ \A i \in Ours : rx[i].query = op => asked <= rx[i].ver
    BY DEF TypeOK, Versions, Order
  <1>1. CASE Change
    <2>1. TypeOK'
      BY <1>1 DEF TypeOK, Versions, Change, table
    <2>2. Order'
      BY <1>0, <1>1, SameOrder DEF Change, table
    <2>3. QED
      BY <2>1, <2>2
  <1>2. CASE Load
    <2>1. TypeOK'
      BY <1>2 DEF TypeOK, Load, table
    <2>2. Order'
      BY <1>0, <1>2, SameOrder DEF Load, table
    <2>3. QED
      BY <2>1, <2>2
  <1>3. CASE Tick
    <2>1. TypeOK'
      BY <1>3 DEF TypeOK, Tick, environment
    <2>2. Order'
      BY <1>0, <1>3, SameOrder DEF Tick, environment
    <2>3. QED
      BY <2>1, <2>2
  <1>4. CASE OtherAnswer
    <2>1. /\ <<Foreign>> \in Seq(Messages) /\ rx' = rx \o <<Foreign>>
          /\ \A i \in DOMAIN <<Foreign>> : <<Foreign>>[i].query \notin Queries
          /\ Len(rx') = Len(rx) + 1 /\ rx' \in Seq(Messages)
      <3>1. rx' = Append(rx, Foreign) /\ Foreign \in Messages
        BY <1>4, ForeignTyped DEF OtherAnswer
      <3>2. QED
        BY <1>0, <3>1, ForeignTyped
    <2>2. Len(rx') <= RxMax
      <3>1. Len(rx) + (IF prompt THEN 3 ELSE 1) <= RxMax
        BY <1>4 DEF OtherAnswer
      <3>2. Len(rx) + 1 <= RxMax
        BY <1>0, <3>1
      <3>3. QED
        BY <2>1, <3>2
    <2>3. TypeOK'
      BY <1>4, <2>1, <2>2 DEF TypeOK, OtherAnswer, table, environment
    <2>4. Order'
      BY <1>4, <2>1, AppendOrder DEF OtherAnswer, table, environment
    <2>5. QED
      BY <2>3, <2>4
  <1>5. CASE Abandon
    <2>1. TypeOK'
      BY <1>5 DEF TypeOK, Versions, Abandon, environment
    <2>2. Order'
      BY <1>0, <1>5, SameOrder DEF Abandon, environment
    <2>3. QED
      BY <2>1, <2>2
  <1>6. CASE Busy \/ UNCHANGED vars
    <2>1. UNCHANGED vars
      BY <1>6 DEF Busy
    <2>2. TypeOK'
      BY <2>1 DEF TypeOK, vars, table, environment
    <2>3. Order'
      BY <1>0, <2>1, SameOrder DEF vars, table, environment
    <2>4. QED
      BY <2>2, <2>3
  <1>7. CASE Request
    <2>1. PICK q \in Queries : Ask(q)
      BY <1>7 DEF Request
    <2>2. \A i \in Ours : rx[i].query # q
      BY <2>1 DEF Ask, InFlight, Ours
    <2>3. TypeOK'
      <3>1. Append(ready, q) \in Seq(Queries)
        BY <1>0
      <3>2. QED
        BY <1>7, <2>1, <3>1 DEF TypeOK, Versions, Request, Ask, environment
    <2>4. Order'
      BY <1>0, <1>7, <2>1, <2>2, SameOrder DEF Request, Ask, environment
    <2>5. QED
      BY <2>3, <2>4
  <1>8. CASE JobsDone
    <2>1. TypeOK'
      BY <1>8 DEF TypeOK, JobsDone, table, environment
    <2>2. Order'
      BY <1>0, <1>8, SameOrder DEF JobsDone, table, environment
    <2>3. QED
      BY <2>1, <2>2
  <1>9. CASE Publish
    <2>1. /\ rx # <<>> /\ rx' = Tail(rx) /\ wpc' = "tx" /\ rx[1].query = op
          /\ 1 \in DOMAIN rx /\ Tail(rx) \in Seq(Messages) /\ Len(Tail(rx)) <= RxMax
          /\ shown' = rx[1].ver /\ rx[1] \in Messages
          /\ UNCHANGED <<op, age, asked, ready, pollout, ver, up, prompt>>
      BY <1>0, <1>9, HeadTail DEF Publish, Received, ForUs, environment
    <2>2. 1 \in Ours
      BY <1>0, <2>1, Fields DEF Ours
    <2>3. Order'
      BY <2>1, <2>2, ReceiveOrder
    <2>4. shown' \in Versions
      BY <1>0, <2>1, <2>2, Fields DEF Versions, Order
    <2>5. TypeOK'
      BY <2>1, <2>4 DEF TypeOK, Versions
    <2>6. QED
      BY <2>3, <2>5
  <1>10. CASE Acknowledge
    <2>1. /\ rx # <<>> /\ rx' = Tail(rx) /\ wpc' = "tx" /\ op' = None /\ asked' = 0
          /\ Tail(rx) \in Seq(Messages) /\ Len(Tail(rx)) <= RxMax
          /\ UNCHANGED <<shown, age, ready, pollout, ver, up, prompt>>
      BY <1>0, <1>10, HeadTail DEF Acknowledge, Received, environment
    <2>2. Order'
      BY <2>1, ReceiveOrder
    <2>3. TypeOK'
      BY <2>1 DEF TypeOK, Versions
    <2>4. QED
      BY <2>2, <2>3
  <1>11. CASE IgnoreAnswer
    <2>1. CASE rx = <<>>
      <3>1. TypeOK'
        BY <1>11, <2>1 DEF TypeOK, IgnoreAnswer, table, environment
      <3>2. Order'
        BY <1>0, <1>11, <2>1, SameOrder DEF IgnoreAnswer, table, environment
      <3>3. QED
        BY <3>1, <3>2
    <2>2. CASE rx # <<>>
      <3>1. /\ rx' = Tail(rx) /\ wpc' = "tx"
            /\ Tail(rx) \in Seq(Messages) /\ Len(Tail(rx)) <= RxMax
            /\ UNCHANGED <<op, shown, age, asked, ready, pollout, ver, up, prompt>>
        BY <1>0, <1>11, <2>2, HeadTail DEF IgnoreAnswer, table, environment
      <3>2. Order'
        BY <2>2, <3>1, ReceiveOrder
      <3>3. TypeOK'
        BY <3>1 DEF TypeOK
      <3>4. QED
        BY <3>2, <3>3
    <2>3. QED
      BY <2>1, <2>2
  <1>12. CASE Send
    <2>1. ready # <<>> /\ ready[1] \in Queries /\ Tail(ready) \in Seq(Queries)
      BY <1>0, <1>12 DEF Send, SendTo, Sending
    <2>2. PICK a \in Answers(ready[1]) : Len(rx \o a) <= RxMax /\ rx' = rx \o a
      <3>1. \E a \in Answers(Head(ready)) : Len(rx \o a) <= RxMax /\ rx' = rx \o a
        BY <1>12, Zenon DEF Send, SendTo
      <3>2. Head(ready) = ready[1]
        BY <2>1
      <3>3. QED
        BY <3>1, <3>2, Zenon
    <2>3. /\ a \in Seq(Messages)
          /\ \A i \in DOMAIN a : a[i].query = ready[1] /\ a[i].ver = ver
      BY <2>1, <2>2, AnswersTyped
    <2>4. rx' \in Seq(Messages) /\ Len(rx') <= RxMax
      BY <1>0, <2>2, <2>3
    <2>5. TypeOK'
      BY <1>12, <2>1, <2>4 DEF TypeOK, Send, SendTo, table, environment
    <2>6. Order'
      BY <1>12, <2>2, <2>3, AppendOrder DEF Send, SendTo, table, environment
    <2>7. QED
      BY <2>5, <2>6
  <1>13. CASE PassEnds
    <2>1. TypeOK'
      BY <1>13 DEF TypeOK, PassEnds, table, environment
    <2>2. Order'
      BY <1>0, <1>13, SameOrder DEF PassEnds, table, environment
    <2>3. QED
      BY <2>1, <2>2
  <1>14. QED
    BY <1>1, <1>2, <1>3, <1>4, <1>5, <1>6, <1>7, <1>8, <1>9, <1>10, <1>11,
       <1>12, <1>13 DEF Next, Worker, Update, Receive

\* The invariant holds in every reachable state.
THEOREM Invariance == Spec => []IndInv
  BY InitInv, NextInv, PTL DEF Spec

\* The table and the reactor's queues keep their types.
THEOREM TypeCorrect == Spec => []TypeOK
  BY Invariance, PTL DEF IndInv

\* No step shows an older state of the interface, or an abandoned query's.
THEOREM AnswersAreCurrent == Spec => AnswersCurrent
  <1> DEFINE Fresh == shown' # shown => shown' > shown /\ shown' >= asked
  <1>1. IndInv /\ [Next]_vars => [Fresh]_vars
    <2> SUFFICES ASSUME TypeOK, Order, Next, shown' # shown
                 PROVE  shown' > shown /\ shown' >= asked
      BY DEF IndInv
    <2>1. Publish
      BY DEF Next, Worker, Update, Receive, Change, Load, Tick, OtherAnswer,
             Abandon, Busy, Request, Ask, JobsDone, Acknowledge, IgnoreAnswer,
             Send, SendTo, PassEnds, table, vars
    <2>2. 1 \in DOMAIN rx /\ rx[1].query = op /\ shown' = rx[1].ver
      BY <2>1, HeadTail DEF Publish, Received, ForUs, TypeOK
    <2>3. 1 \in Ours /\ rx[1].ver \in Nat
      BY <2>2, Fields DEF Ours, TypeOK
    <2>4. shown <= rx[1].ver /\ asked <= rx[1].ver
      BY <2>2, <2>3 DEF Order
    <2>5. shown \in Nat /\ asked \in Nat
      BY NumAssumption DEF TypeOK, Versions
    <2>6. QED
      BY <2>2, <2>3, <2>4, <2>5
  <1>2. QED
    BY <1>1, Invariance, PTL DEF Spec, AnswersCurrent
=============================================================================
