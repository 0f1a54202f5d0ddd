--------------------------- MODULE TableFoldProofs ---------------------------
(***************************************************************************)
(* Theorems about Tables that rest on what a loop over a line, or over the *)
(* lines of a file, adds up or lays over one another: FoldLemmas.          *)
(***************************************************************************)
EXTENDS TablesProofs

-----------------------------------------------------------------------------
(* Sums                                                                    *)

\* A sum of integers is one.
LEMMA SumIsInteger ==
    ASSUME NEW n \in Nat, NEW s \in [1 .. n -> Int]
    PROVE  Sum(s) \in Int
<1>1. PICK h \in [0 .. n -> Int] : Sum(s) = h[n]
  BY SumByPrefix
<1> QED BY <1>1

\* The sum of two columns is the sum of their sums.
LEMMA SumsAdd ==
    ASSUME NEW n \in Nat, NEW s \in [1 .. n -> Int], NEW t \in [1 .. n -> Int],
           NEW u \in [1 .. n -> Int], \A i \in 1 .. n : u[i] = s[i] + t[i]
    PROVE  Sum(u) = Sum(s) + Sum(t)
<1>1. PICK f \in [0 .. n -> Int] : /\ f[0] = 0 /\ \A k \in 1 .. n : f[k] = f[k - 1] + s[k]
                                   /\ Sum(s) = f[n]
  BY SumByPrefix
<1>2. PICK g \in [0 .. n -> Int] : /\ g[0] = 0 /\ \A k \in 1 .. n : g[k] = g[k - 1] + t[k]
                                   /\ Sum(t) = g[n]
  BY SumByPrefix
<1>3. PICK h \in [0 .. n -> Int] : /\ h[0] = 0 /\ \A k \in 1 .. n : h[k] = h[k - 1] + u[k]
                                   /\ Sum(u) = h[n]
  BY SumByPrefix
<1> DEFINE S == {k \in Nat : k <= n => h[k] = f[k] + g[k]}
<1>4. 0 \in S
  BY <1>1, <1>2, <1>3
<1>5. ASSUME NEW k \in Nat, k \in S PROVE k + 1 \in S
  <2> SUFFICES ASSUME k + 1 <= n PROVE h[k + 1] = f[k + 1] + g[k + 1]
    OBVIOUS
  <2>1. k + 1 \in 1 .. n /\ k \in 0 .. n /\ (k + 1) - 1 = k /\ h[k] = f[k] + g[k]
    BY <1>5
  <2>2. /\ f[k + 1] = f[k] + s[k + 1] /\ g[k + 1] = g[k] + t[k + 1]
        /\ h[k + 1] = h[k] + u[k + 1]
    BY <1>1, <1>2, <1>3, <2>1
  <2>3. u[k + 1] = s[k + 1] + t[k + 1] /\ s[k + 1] \in Int /\ t[k + 1] \in Int
        /\ f[k] \in Int /\ g[k] \in Int
    BY <2>1
  <2> QED BY <2>1, <2>2, <2>3
<1>6. n \in S
  <2> HIDE DEF S
  <2> QED BY <1>4, <1>5, SetInduction
<1> QED
  BY <1>1, <1>2, <1>3, <1>6

\* What division leaves, and that nothing else does.
LEMMA Division ==
    ASSUME NEW d \in Nat \ {0}, NEW x \in Int
    PROVE  /\ x \div d \in Int /\ x % d \in 0 .. d - 1
           /\ x = (d * (x \div d)) + (x % d)
  OBVIOUS

\* Multiples of d are at least d apart.
LEMMA Spread ==
    ASSUME NEW d \in Nat \ {0}, NEW p \in Int, NEW q \in Int, p < q
    PROVE  d * p + d <= d * q
<1>1. d * p + d = d * (p + 1)
  OBVIOUS
<1>2. PICK e : e = q - (p + 1)
  OBVIOUS
<1>3. e \in Nat /\ q = (p + 1) + e
  BY <1>2
<1>4. d * q = d * (p + 1) + d * e /\ d * e >= 0
  BY <1>3
<1> QED
  BY <1>1, <1>3, <1>4

\* A remainder is determined by its range.
LEMMA OnlyRemainder ==
    ASSUME NEW d \in Nat \ {0}, NEW q \in Int, NEW r \in 0 .. d - 1, NEW x, x = d * q + r
    PROVE  x % d = r
<1>1. d * q \in Int /\ x \in Int
  OBVIOUS
<1>2. PICK p, s : p = x \div d /\ s = x % d
  OBVIOUS
<1>3. p \in Int /\ s \in 0 .. d - 1 /\ x = d * p + s /\ d * p \in Int
  BY <1>1, <1>2, Division
<1>4. PICK dp, dq : dp = d * p /\ dq = d * q
  OBVIOUS
<1>5. dp + s = dq + r /\ dp \in Int /\ dq \in Int
  BY <1>1, <1>3, <1>4
<1>6. p < q => dp + d <= dq
  BY <1>3, <1>4, Spread
<1>7. q < p => dq + d <= dp
  BY <1>3, <1>4, Spread
<1>8. p = q
  BY <1>3, <1>5, <1>6, <1>7
<1> QED
  BY <1>2, <1>4, <1>5, <1>8, <1>3

\* A narrow integer has the low bits, and is the same if it fits.
LEMMA SignedBits ==
    ASSUME NEW W \in Nat \ {0}, NEW v \in Int
    PROVE  /\ Signed(v, W) \in Int
           /\ Signed(v, W) % W = v % W
           /\ v \in 0 .. (W \div 2) - 1 => Signed(v, W) = v
<1>1. PICK h, q, m : h = W \div 2 /\ q = (v + h) \div W /\ m = (v + h) % W
  OBVIOUS
<1>2. h \in Nat /\ 2 * h <= W /\ q \in Int /\ m \in 0 .. W - 1 /\ v + h = (W * q) + m
  <2>1. h \in Nat /\ 2 * h <= W
    BY <1>1
  <2>2. v + h \in Int
    BY <2>1
  <2> QED BY <1>1, <2>1, <2>2, Division
<1>3. Signed(v, W) = m - h
  BY <1>1 DEF Signed
<1>4. v % W = (m - h) % W
  <2>1. PICK x, y : x = v /\ y = m - h
    OBVIOUS
  <2>2. x \in Int /\ y \in Int /\ x = (W * q) + y
    BY <1>2, <2>1
  <2>3. PICK a, r : a = y \div W /\ r = y % W
    OBVIOUS
  <2>4. a \in Int /\ r \in 0 .. W - 1 /\ y = (W * a) + r
    BY <2>2, <2>3, Division
  <2>5. PICK p \in Int : p = q + a /\ x = (W * p) + r
    BY <1>2, <2>2, <2>4
  <2>6. x % W = r
    <3>1. x = W * p + r
      BY <2>5
    <3> QED BY <2>4, <3>1, OnlyRemainder
  <2> QED BY <2>1, <2>3, <2>6
<1>5. v \in 0 .. h - 1 => m - h = v
  <2> SUFFICES ASSUME v \in 0 .. h - 1 PROVE m = v + h
    BY <1>2
  <2>1. PICK x : x = v + h
    OBVIOUS
  <2>2. x \in 0 .. W - 1 /\ x = (W * 0) + x
    BY <1>2, <2>1
  <2>3. x % W = x
    BY <2>2, OnlyRemainder
  <2> QED BY <1>1, <2>1, <2>3
<1> QED
  BY <1>1, <1>2, <1>3, <1>4, <1>5

\* Sums that wrap around may be taken before or after.
LEMMA Wrapped ==
    ASSUME NEW d \in Nat \ {0}, NEW x \in Int, NEW y \in Int
    PROVE  ((x % d) + (y % d)) % d = (x + y) % d
<1>1. PICK a, b, r, s, z : /\ a = x \div d /\ b = y \div d /\ r = x % d /\ s = y % d
                           /\ z = (r + s) % d
  OBVIOUS
<1>2. /\ a \in Int /\ b \in Int /\ r \in Int /\ s \in Int
      /\ x = d * a + r /\ y = d * b + s
  BY <1>1, Division
<1>3. PICK c, t : c = t \div d /\ t = r + s
  OBVIOUS
<1>4. c \in Int /\ z \in 0 .. d - 1 /\ t = d * c + z
  <2>1. t \in Int /\ z = t % d
    BY <1>1, <1>2, <1>3
  <2> QED BY <1>3, <2>1, Division
<1>5. PICK e, f, g, h : e = d * a /\ f = d * b /\ g = d * c /\ h = d * (a + b + c)
  OBVIOUS
<1>6. e \in Int /\ f \in Int /\ g \in Int /\ h = e + f + g
  BY <1>2, <1>4, <1>5
<1>7. x + y = d * (a + b + c) + z
  BY <1>2, <1>3, <1>4, <1>5, <1>6
<1>8. (x + y) % d = z
  <2>1. PICK w, q : w = x + y /\ q = a + b + c
    OBVIOUS
  <2>2. q \in Int /\ w = d * q + z
    BY <1>2, <1>4, <1>7, <2>1
  <2>3. w % d = z
    BY <1>4, <2>2, OnlyRemainder
  <2> QED BY <2>1, <2>3
<1> QED
  BY <1>1, <1>8

-----------------------------------------------------------------------------
(* ethtool: every drop counted once                                        *)

\* What one statistic adds to a sum.
Part(stats, out, Test(_)) == [i \in DOMAIN stats |-> IF Test(stats[i]) THEN out[i] ELSE 0]
Dropped(stat) == stat.drop /\ (stat.rx \/ stat.tx)

\* The two sums together are the sum of what is dropped at all.
LEMMA PartsAdd ==
    ASSUME NEW n \in Nat,
           NEW stats \in [1 .. n -> [name : STRING, drop : BOOLEAN, rx : BOOLEAN, tx : BOOLEAN]],
           NEW out, \A i \in 1 .. n : out[i] \in Nat
    PROVE  (Signed(Total(stats, out, DropsRX), DWord) + Signed(Total(stats, out, DropsTX), DWord))
               % DWord
           = Sum(Part(stats, out, Dropped)) % DWord
<1>1. PICK rx, tx, all : /\ rx = Part(stats, out, DropsRX) /\ tx = Part(stats, out, DropsTX)
                         /\ all = Part(stats, out, Dropped)
  OBVIOUS
<1>2. /\ rx \in [1 .. n -> Int] /\ tx \in [1 .. n -> Int] /\ all \in [1 .. n -> Int]
      /\ \A i \in 1 .. n : all[i] = rx[i] + tx[i]
  BY <1>1 DEF Part, DropsRX, DropsTX, Dropped
<1>3. Sum(all) = Sum(rx) + Sum(tx)
  BY <1>2, SumsAdd
<1>4. Total(stats, out, DropsRX) = Sum(rx) % DWord /\ Total(stats, out, DropsTX) = Sum(tx) % DWord
  BY <1>1 DEF Total, Part
<1>5. PICK x, y : x = Sum(rx) /\ y = Sum(tx)
  OBVIOUS
<1>6. x \in Int /\ y \in Int /\ DWord \in Nat \ {0}
  BY <1>2, <1>5, SumIsInteger, WidthAssumption
<1>7. PICK a, b, c, d : /\ a = x % DWord /\ b = y % DWord
                        /\ c = Signed(a, DWord) /\ d = Signed(b, DWord)
  OBVIOUS
<1>8. a \in Int /\ b \in Int /\ (a + b) % DWord = (x + y) % DWord
  <2>1. ((x % DWord) + (y % DWord)) % DWord = (x + y) % DWord
    BY <1>6, Wrapped
  <2>2. a \in Int /\ b \in Int
    BY <1>6, <1>7, Division
  <2> QED BY <1>7, <2>1, <2>2
<1>9. c \in Int /\ d \in Int /\ c % DWord = a % DWord /\ d % DWord = b % DWord
  BY <1>6, <1>7, <1>8, SignedBits
<1>10. (c + d) % DWord = (a + b) % DWord
  <2>1. ((c % DWord) + (d % DWord)) % DWord = (c + d) % DWord
    BY <1>6, <1>9, Wrapped
  <2>2. ((a % DWord) + (b % DWord)) % DWord = (a + b) % DWord
    BY <1>6, <1>8, Wrapped
  <2> QED BY <1>9, <2>1, <2>2
<1>11. /\ Signed(Total(stats, out, DropsRX), DWord) = c
       /\ Signed(Total(stats, out, DropsTX), DWord) = d
  BY <1>1, <1>4, <1>5, <1>7, Zenon
<1>12. Sum(Part(stats, out, Dropped)) = x + y
  BY <1>1, <1>3, <1>5
<1> QED
  BY <1>8, <1>10, <1>11, <1>12

\* What Ethtool publishes of the sums.
LEMMA DropsPublished ==
    ASSUME NEW constants, NEW nic
    PROVE  LET next == Ethtool(constants, nic).next
           IN  constants.stats # <<>> =>
                  /\ nic.stats = NoFile => {"rx_dropped", "tx_dropped"} \cap DOMAIN next = {}
                  /\ nic.stats # NoFile =>
                        /\ next["rx_dropped"] =
                               Integer(Signed(Total(constants.stats, nic.stats.lines, DropsRX), DWord))
                        /\ next["tx_dropped"] =
                               Integer(Signed(Total(constants.stats, nic.stats.lines, DropsTX), DWord))
<1> DEFINE stats == constants.stats
           out == nic.stats.lines
           rx == Integer(Signed(Total(stats, out, DropsRX), DWord))
           tx == Integer(Signed(Total(stats, out, DropsTX), DWord))
           found == Integer(IF \E i \in DOMAIN stats : DropsRX(stats[i]) \/ DropsTX(stats[i])
                            THEN 1 ELSE 0)
           S == {<<"rx_dropped", rx>>, <<"tx_dropped", tx>>, <<"found_stat", found>>}
           names == OverAll([i \in DOMAIN stats |->
                                One("stat." \o stats[i].name, Integer(Signed(out[i], DWord)))])
           driver == [n \in {"driver", "version"} |->
                          Text(IF constants.supported THEN n ELSE "N/A")]
           link == Link(constants.handshake, nic)
<1>1. Ethtool(constants, nic).next = Over(Statistics(stats, nic), Over(link, driver))
  BY DEF Ethtool, Returns
<1>2. SUFFICES ASSUME stats # <<>>
               PROVE  /\ nic.stats = NoFile =>
                            {"rx_dropped", "tx_dropped"} \cap
                                DOMAIN Over(Statistics(stats, nic), Over(link, driver)) = {}
                      /\ nic.stats # NoFile =>
                            /\ Over(Statistics(stats, nic), Over(link, driver))["rx_dropped"] = rx
                            /\ Over(Statistics(stats, nic), Over(link, driver))["tx_dropped"] = tx
  BY <1>1, Zenon
<1>3. nic.stats = NoFile => Statistics(stats, nic) = Nothing
  BY <1>2, Zenon DEF Statistics
<1>4. nic.stats # NoFile => Statistics(stats, nic) = Over(Named(S), names)
  BY <1>2, Zenon DEF Statistics
<1>5. DOMAIN link = {"speed", "duplex"} /\ DOMAIN driver = {"driver", "version"}
  BY DEF Link, Named
<1>6. /\ "rx_dropped" \in DOMAIN Named(S) /\ Named(S)["rx_dropped"] = rx
      /\ "tx_dropped" \in DOMAIN Named(S) /\ Named(S)["tx_dropped"] = tx
  <2>1. /\ <<"rx_dropped", rx>> \in S /\ <<"tx_dropped", tx>> \in S
        /\ \A p \in S : (p[1] = "rx_dropped" => p[2] = rx) /\ (p[1] = "tx_dropped" => p[2] = tx)
    OBVIOUS
  <2> HIDE DEF S
  <2> QED BY <2>1, NamedOnce
<1> HIDE DEF S, names, rx, tx, link, driver
<1>7. CASE nic.stats = NoFile
  BY <1>3, <1>5, <1>7, NothingIsEmpty DEF Over
<1>8. CASE nic.stats # NoFile
  BY <1>4, <1>6, <1>8 DEF Over
<1> QED
  BY <1>7, <1>8

\* Whatever the driver names its statistics, and however the counters wrap:
\* each that it drops is in one of the two sums; a failed query leaves both out.
THEOREM DropsAreCountedOnce == Spec => []DropsCountedOnce
<1>1. Told => DropsCountedOnce
  <2> SUFFICES ASSUME Told, Fresh("ethtool"), info.stats # <<>>
               PROVE  /\ source.stats = NoFile => ~Published("rx_dropped") /\ ~Published("tx_dropped")
                      /\ source.stats # NoFile =>
                             (Value("rx_dropped") + Value("tx_dropped")) % DWord
                             = Sum(Part(info.stats, source.stats.lines, Dropped)) % DWord
    BY Zenon DEF DropsCountedOnce, Part, Dropped
  <2>1. PICK d \in Drivers : /\ info = EthtoolInfo(d) /\ ~EthtoolFails(d)
                             /\ current = Ethtool(info, source).next
    BY LastRead DEF Fresh, FromSource
  <2>2. HasNames(d) /\ d.names # NoFile /\ info.stats = d.names.lines
    BY <2>1 DEF EthtoolInfo, EthtoolFails
  <2>3. CASE source.stats = NoFile
    BY <2>1, <2>3, DropsPublished DEF Published
  <2>4. CASE source.stats # NoFile
    <3>1. /\ kind = "ethtool" /\ kind \in Kinds /\ time \in 1 .. Horizon
          /\ source \in Sources(kind, time) /\ Readable(kind, source, time)
      BY LastRead DEF Told, Fresh
    <3>2. /\ info.stats \in Seq([name : STRING, drop : BOOLEAN, rx : BOOLEAN, tx : BOOLEAN])
          /\ Len(info.stats) <= Len(source.stats.lines)
      BY <2>2, <2>4, <3>1, DriversAssumption
    <3>3. source.stats.lines \in Seq(Nat)
      BY <2>4, <3>1 DEF Readable
    <3>4. PICK n, stats, out : n = Len(info.stats) /\ stats = info.stats /\ out = source.stats.lines
      OBVIOUS
    <3>5. /\ n \in Nat /\ \A i \in 1 .. n : out[i] \in Nat
          /\ stats \in [1 .. n -> [name : STRING, drop : BOOLEAN, rx : BOOLEAN, tx : BOOLEAN]]
      <4>1. PICK R : R = [name : STRING, drop : BOOLEAN, rx : BOOLEAN, tx : BOOLEAN]
        OBVIOUS
      <4>2. stats \in Seq(R) /\ n = Len(stats) /\ out \in Seq(Nat) /\ n <= Len(out)
        BY <3>2, <3>3, <3>4, <4>1
      <4>3. n \in Nat /\ (\A i \in 1 .. n : out[i] \in Nat) /\ stats \in [1 .. n -> R]
        BY <4>2
      <4> QED BY <4>1, <4>3
    <3>6. (Signed(Total(stats, out, DropsRX), DWord) + Signed(Total(stats, out, DropsTX), DWord))
              % DWord
          = Sum(Part(stats, out, Dropped)) % DWord
      BY <3>5, PartsAdd
    <3>7. /\ Value("rx_dropped") = Signed(Total(stats, out, DropsRX), DWord)
          /\ Value("tx_dropped") = Signed(Total(stats, out, DropsTX), DWord)
      <4>1. /\ current["rx_dropped"] =
                   Integer(Signed(Total(info.stats, source.stats.lines, DropsRX), DWord))
            /\ current["tx_dropped"] =
                   Integer(Signed(Total(info.stats, source.stats.lines, DropsTX), DWord))
        BY <2>1, <2>4, DropsPublished
      <4>2. /\ current["rx_dropped"] = Integer(Signed(Total(stats, out, DropsRX), DWord))
            /\ current["tx_dropped"] = Integer(Signed(Total(stats, out, DropsTX), DWord))
        BY <3>4, <4>1, Zenon
      <4> QED BY <4>2 DEF Value, Integer
    <3> QED BY <2>4, <3>4, <3>6, <3>7
  <2> QED BY <2>3, <2>4
<1> QED
  BY ToldInit, ToldStep, <1>1, PTL DEF Spec

-----------------------------------------------------------------------------
(* irq: the largest rate                                                   *)

\* A label's count fits its width.
LEMMA CountsBounded ==
    ASSUME NEW file, NEW l \in DOMAIN file.lines, file.lines[l] \in Seq(Int)
    PROVE  Counts(file)[l] \in 0 .. DWord - 1
<1>1. PICK n, columns : n = Len(file.lines[l]) /\ columns = Good(file.lines[l])
  OBVIOUS
<1>2. n \in Nat /\ columns \in [1 .. n -> Int]
  BY <1>1 DEF Good
<1>3. PICK x : x = Sum(columns)
  OBVIOUS
<1>4. x \in Int
  BY <1>2, <1>3, SumIsInteger
<1>5. x % DWord \in 0 .. DWord - 1
  BY <1>4, WidthAssumption, Division
<1> QED
  BY <1>1, <1>3, <1>5 DEF Counts

\* The largest of a function's values, or 0, is one of them.
GreatestOr0(f) == Max({0} \cup Range(f))
UpTo(n, L) == [L -> 0 .. n]

\* What the greatest of the values, or 0, is.
LEMMA GreatestValue ==
    ASSUME NEW L, NEW n \in Nat, NEW f \in UpTo(n, L), NEW max, max = GreatestOr0(f)
    PROVE  /\ max \in 0 .. n /\ \A l \in L : f[l] <= max
           /\ max > 0 => \E l \in L : f[l] = max
<1>1. PICK T : T = {0} \cup Range(f)
  OBVIOUS
<1>2. /\ T \subseteq Nat /\ T # {} /\ (\A k \in T : k <= n)
      /\ (\A l \in L : f[l] \in T) /\ (\A k \in T : k = 0 \/ \E l \in L : f[l] = k)
  BY <1>1 DEF Range, UpTo
<1>3. max \in T /\ \A k \in T : k <= max
  BY <1>1, <1>2, GreatestOf DEF GreatestOr0
<1> QED
  BY <1>1, <1>2, <1>3

\* What update() publishes of the rates, told from the counts before it.
RateOf(next, file, before, elapsed) ==
    LET change(l) == Counts(file)[l] - before[l]
        rate == next["max_irq"].float
        name == next["max_irq_name"].text
    IN  /\ rate[2] = elapsed /\ rate[1] \in Nat
        /\ \A l \in DOMAIN file.lines : /\ change(l) <= rate[1]
                                        /\ name = <<l>> => change(l) = rate[1]
        /\ rate[1] > 0 => \E l \in DOMAIN file.lines : name = <<l>>

\* What Irq publishes when no count decreased.
LEMMA RatePublished ==
    ASSUME NEW file, NEW before, NEW since \in Int, NEW now \in Int,
           file # NoFile, DOMAIN file.lines \subseteq Nat \ {0},
           \A l \in DOMAIN file.lines : file.lines[l] \in Seq(Int),
           DOMAIN before = DOMAIN file.lines,
           \A l \in DOMAIN file.lines : before[l] \in Int /\ 0 <= before[l]
                                        /\ before[l] <= Counts(file)[l]
    PROVE  RateOf(Irq(file, before, since, now).next, file, before, now - since)
<1> DEFINE Changes == [l \in DOMAIN Counts(file) |-> Delta(Counts(file), before, l)]
           Largest == Max({0} \cup Range(Changes))
           Most == {l \in DOMAIN Changes : Largest > 0 /\ Changes[l] = Largest}
           Triple == {<<"total_irq", Integer(Signed(TotalCount(Counts(file)), DWord))>>,
                      <<"max_irq", Float(<<Largest, now - since>>)>>,
                      <<"max_irq_name", Text(IF Most = {} THEN <<>> ELSE <<Min(Most)>>)>>}
<1>0. Irq(file, before, since, now).next = Named(Triple)
  BY DEF Irq, Returns
<1>1. PICK L, counts, delta : /\ L = DOMAIN file.lines /\ counts = Counts(file)
                              /\ delta = Changes
                              /\ delta = [l \in DOMAIN counts |-> Delta(counts, before, l)]
  OBVIOUS
<1>2. DOMAIN counts = L /\ \A l \in L : counts[l] \in 0 .. DWord - 1
  <2>1. DOMAIN counts = L
    BY <1>1 DEF Counts
  <2>2. \A l \in L : counts[l] \in 0 .. DWord - 1
    BY <1>1, CountsBounded
  <2> QED BY <2>1, <2>2
<1>3. ASSUME NEW l \in L PROVE delta[l] = counts[l] - before[l] /\ delta[l] \in 0 .. DWord - 1
  <2>1. PICK d, b, c : d = delta[l] /\ b = before[l] /\ c = counts[l]
    OBVIOUS
  <2>2. d = (c - b) % DWord
    BY <1>1, <1>2, <2>1 DEF Delta
  <2>3. c \in 0 .. DWord - 1 /\ b \in Int /\ 0 <= b /\ b <= c
    BY <1>1, <1>2, <2>1
  <2>4. c - b \in 0 .. DWord - 1 /\ c - b = DWord * 0 + (c - b)
    BY <2>3, WidthAssumption
  <2>5. (c - b) % DWord = c - b
    <3>1. PICK x : x = c - b
      OBVIOUS
    <3>2. x \in 0 .. DWord - 1 /\ x = DWord * 0 + x /\ 0 \in Int /\ DWord \in Nat \ {0}
      BY <2>4, <3>1, WidthAssumption
    <3>3. x % DWord = x
      BY <3>2, OnlyRemainder
    <3> QED BY <3>1, <3>3
  <2> QED BY <2>1, <2>2, <2>4, <2>5
<1>4. PICK n, max : n = DWord - 1 /\ max = Largest /\ max = Max({0} \cup Range(delta))
  BY <1>1
<1> HIDE DEF Changes, Largest
<1>5. n \in Nat /\ delta \in [L -> 0 .. n]
  <2>1. n \in Nat
    BY <1>4, WidthAssumption
  <2>2. delta = [l \in L |-> delta[l]]
    BY <1>1, <1>2
  <2> QED BY <1>3, <1>4, <2>1, <2>2
<1>6. /\ max \in 0 .. n /\ \A l \in L : delta[l] <= max
      /\ max > 0 => \E l \in L : delta[l] = max
  <2>1. max = GreatestOr0(delta)
    BY <1>4 DEF GreatestOr0
  <2>2. delta \in UpTo(n, L)
    BY <1>5 DEF UpTo
  <2> QED BY <1>5, <2>1, <2>2, GreatestValue
<1>7. PICK most, name : /\ most = {l \in DOMAIN delta : max > 0 /\ delta[l] = max}
                        /\ name = IF most = {} THEN <<>> ELSE <<Min(most)>>
                        /\ name = IF Most = {} THEN <<>> ELSE <<Min(Most)>>
  <2>1. Most = {l \in DOMAIN delta : max > 0 /\ delta[l] = max}
    BY <1>1, <1>4
  <2> QED BY <2>1
<1>8. /\ \A l \in L : name = <<l>> => delta[l] = max
      /\ max > 0 => \E l \in L : name = <<l>>
  <2>1. most \subseteq Nat /\ L \subseteq Nat \ {0} /\ DOMAIN delta = L
    BY <1>1, <1>2, <1>7
  <2>2. most # {} => Min(most) \in most
    BY <2>1, LeastOf
  <2>3. CASE most = {}
    <3>1. name = <<>> /\ \A l \in L : name # <<l>>
      BY <1>7, <2>3
    <3> QED BY <1>6, <1>7, <2>1, <2>3, <3>1
  <2>4. CASE most # {}
    <3>1. PICK m \in most : name = <<m>>
      BY <1>7, <2>2, <2>4
    <3>2. m \in L /\ delta[m] = max
      BY <1>7, <2>1
    <3>3. \A l : name = <<l>> => l = m
      BY <3>1
    <3> QED BY <3>1, <3>2, <3>3
  <2> QED BY <2>3, <2>4
<1>9. PICK total : Triple = {<<"total_irq", total>>, <<"max_irq", Float(<<max, now - since>>)>>,
                             <<"max_irq_name", Text(name)>>}
  <2>1. Largest = max /\ (IF Most = {} THEN <<>> ELSE <<Min(Most)>>) = name
    BY <1>4, <1>7
  <2> HIDE DEF Largest, Most
  <2> QED BY <2>1, Zenon
<1> HIDE DEF Triple
<1>10. PICK S : /\ S = {<<"total_irq", total>>, <<"max_irq", Float(<<max, now - since>>)>>,
                        <<"max_irq_name", Text(name)>>}
                /\ Irq(file, before, since, now).next = Named(S)
  BY <1>0, <1>9
<1>11. /\ <<"max_irq", Float(<<max, now - since>>)>> \in S /\ <<"max_irq_name", Text(name)>> \in S
       /\ \A p \in S : /\ p[1] = "max_irq" => p[2] = Float(<<max, now - since>>)
                       /\ p[1] = "max_irq_name" => p[2] = Text(name)
  BY <1>10
<1>12. /\ Named(S)["max_irq"] = Float(<<max, now - since>>)
       /\ Named(S)["max_irq_name"] = Text(name)
  BY <1>11, NamedOnce, SMTT(30)
<1>13. PICK rate : rate = <<max, now - since>>
  OBVIOUS
<1>14. /\ Irq(file, before, since, now).next["max_irq"].float = rate
       /\ Irq(file, before, since, now).next["max_irq_name"].text = name
  <2>1. /\ Irq(file, before, since, now).next["max_irq"] = Float(rate)
        /\ Irq(file, before, since, now).next["max_irq_name"] = Text(name)
    BY <1>10, <1>12, <1>13, Zenon
  <2>2. Float(rate).float = rate /\ Text(name).text = name
    BY DEF Float, Text
  <2> QED BY <2>1, <2>2, Zenon
<1>15. /\ rate[2] = now - since /\ rate[1] \in Nat
       /\ \A l \in L : /\ counts[l] - before[l] <= rate[1]
                       /\ name = <<l>> => counts[l] - before[l] = rate[1]
       /\ rate[1] > 0 => \E l \in L : name = <<l>>
  <2>1. rate[1] = max /\ rate[2] = now - since
    BY <1>13
  <2> QED BY <1>3, <1>6, <1>8, <2>1
<1> QED
  BY <1>1, <1>14, <1>15, Zenon DEF RateOf

\* Between two reads that succeeded the rate published is the largest, and of
\* the label named: whatever labels there are, and however many updates went
\* before.
THEOREM RatesAreTrue == Spec => RatesTrue
<1> DEFINE Step == Fresh("irq") /\ ok /\ time' > time /\ source' # NoFile /\ NoneDecreased =>
        LET rate == current'["max_irq"].float
            name == current'["max_irq_name"].text
            elapsed == time' - time
        IN  /\ \A l \in DOMAIN source.lines :
                   /\ Change(l) * rate[2] <= rate[1] * elapsed
                   /\ name = <<l>> => Change(l) * rate[2] = rate[1] * elapsed
            /\ rate[1] > 0 => \E l \in DOMAIN source.lines : name = <<l>>
<1>1. Told /\ Told' /\ [Next]_vars => [Step]_vars
  <2> SUFFICES ASSUME Told, Told', [Next]_vars, Fresh("irq"), ok, time' > time,
                      source' # NoFile, NoneDecreased
               PROVE  Step
    OBVIOUS
  <2>1. Fetch /\ kind' = kind /\ made' \in Nat /\ made' > 0
    <3>1. time' # time
      BY DEF Told
    <3>2. \A r \in Recs : MakeTable(r) => Fetch /\ kind' = kind /\ made' = made + 1
      BY DEF MakeTable, Initialise
    <3>3. Update => Fetch /\ kind' = kind /\ made' = made
      BY DEF Update, iocVars
    <3>4. \A r \in Recs : BadLink(r) \/ FindTable(r) \/ MakeFails(r) => time' = time
      BY DEF BadLink, FindTable, MakeFails, Initialise, tableVars
    <3>5. (\E r \in Recs : Process(r) \/ ProcessFailed(r)) \/ IocRuns \/ ServerRuns
          \/ Suspend \/ ProcessParam \/ UNCHANGED vars => time' = time
      BY DEF Process, ProcessFailed, IocRuns, ServerRuns, Suspend, ProcessParam, vars,
         tableVars
    <3>6. made \in Nat /\ made > 0
      BY DEF Told, Fresh
    <3> QED BY <3>1, <3>2, <3>3, <3>4, <3>5, <3>6 DEF Next, InitRecord
  <2>2. kind = "irq" /\ source # NoFile /\ made > 0
    BY DEF Fresh
  <2>3. prev = Counts(source) /\ Readable("irq", source, time) /\ time \in 1 .. Horizon
    BY <2>2, LastRead DEF FromSource
  <2>4. /\ source' \in Sources("irq", time') /\ "irq" \in Kinds /\ time' \in 1 .. Horizon
    BY <2>1, <2>2 DEF Told
  <2>5. Readable("irq", source', time')
    BY <2>4, SourcesAssumption
  <2>6. current' = Irq(source', prev, time, time').next
    BY <2>2, <2>1 DEF Fetch, Outcome
  <2>7. PICK L, old, new, t, u : /\ L = DOMAIN source.lines /\ old = source /\ new = source'
                                 /\ t = time /\ u = time'
    OBVIOUS
  <2>8. /\ L \subseteq Nat \ {0} /\ L = DOMAIN old.lines /\ L = DOMAIN new.lines
        /\ old # NoFile /\ new # NoFile
        /\ \A l \in L : old.lines[l] \in Seq(Int) /\ new.lines[l] \in Seq(Int)
        /\ \A l \in L : Counts(new)[l] - Counts(old)[l] >= 0
    BY <2>2, <2>3, <2>5, <2>7 DEF Readable, NoneDecreased, Change
  <2>9. PICK c, b : c = Counts(new) /\ b = Counts(old)
    OBVIOUS
  <2>10. \A l \in L : c[l] \in 0 .. DWord - 1 /\ b[l] \in 0 .. DWord - 1 /\ c[l] - b[l] >= 0
    BY <2>8, <2>9, CountsBounded
  <2>11. DOMAIN b = L /\ \A l \in L : b[l] \in Int /\ 0 <= b[l] /\ b[l] <= c[l]
    <3>1. DOMAIN b = L
      BY <2>8, <2>9 DEF Counts
    <3> QED BY <2>10, <3>1
  <2>12. t \in Int /\ u \in Int /\ u - t \in Nat /\ u - t > 0
    <3>1. time' > time
      OBVIOUS
    <3>2. t \in Nat /\ u \in Nat /\ u > t
      BY <2>3, <2>4, <2>7, <3>1
    <3> QED BY <3>2
  <2>13. RateOf(Irq(new, b, t, u).next, new, b, u - t)
    BY <2>8, <2>9, <2>11, <2>12, RatePublished
  <2>14. PICK next, rate, name, elapsed :
            /\ next = current' /\ elapsed = u - t
            /\ rate = next["max_irq"].float /\ name = next["max_irq_name"].text
    OBVIOUS
  <2>15. next = Irq(new, b, t, u).next
    BY <2>3, <2>6, <2>7, <2>9, <2>14
  <2>16. /\ rate[2] = elapsed /\ rate[1] \in Nat
         /\ \A l \in L : /\ c[l] - b[l] <= rate[1]
                         /\ name = <<l>> => c[l] - b[l] = rate[1]
         /\ rate[1] > 0 => \E l \in L : name = <<l>>
    BY <2>8, <2>9, <2>13, <2>14, <2>15, Zenon DEF RateOf
  <2>17. \A x, y \in Int : x <= y => x * elapsed <= y * elapsed
    BY <2>12, <2>14
  <2>18. ASSUME NEW l \in L
         PROVE  /\ (c[l] - b[l]) * rate[2] <= rate[1] * elapsed
                /\ name = <<l>> => (c[l] - b[l]) * rate[2] = rate[1] * elapsed
    <3>1. c[l] - b[l] \in Int /\ rate[1] \in Int /\ c[l] - b[l] <= rate[1]
      BY <2>10, <2>16
    <3> QED BY <2>16, <2>17, <3>1
  <2>19. \A l : Change(l) = c[l] - b[l]
    BY <2>7, <2>9 DEF Change
  <2> QED
    BY <2>7, <2>14, <2>16, <2>18, <2>19
<1>2. Spec => []Told
  BY ToldInit, ToldStep, PTL DEF Spec
<1> QED
  BY <1>1, <1>2, PTL DEF Spec, RatesTrue

-----------------------------------------------------------------------------
(* netstat: each column at its place                                       *)

Line == [table : STRING, names : Seq(STRING), vals : Seq(Int), agree : BOOLEAN]

\* As many values are good as there are, or fewer.
LEMMA LeadingWithin ==
    ASSUME NEW vals \in Seq(Int)
    PROVE  LeadingGood(vals) \in 0 .. Len(vals)
<1> DEFINE bad == {i \in DOMAIN vals : vals[i] = Bad}
<1>1. bad \subseteq 1 .. Len(vals)
  OBVIOUS
<1> HIDE DEF bad
<1>2. bad # {} => Min(bad) \in 1 .. Len(vals)
  <2>1. PICK T : T = bad
    OBVIOUS
  <2>2. T \subseteq Nat
    BY <1>1, <2>1
  <2>3. T # {} => Min(T) \in T
    BY <2>2, LeastOf
  <2> QED BY <1>1, <2>1, <2>3
<1>3. LeadingGood(vals) = IF bad = {} THEN Len(vals) ELSE Min(bad) - 1
  BY DEF LeadingGood, bad
<1>4. Len(vals) \in Nat
  OBVIOUS
<1> QED
  BY <1>2, <1>3, <1>4

\* What one pair of lines gives: its columns as far as both have them.
LEMMA ColumnsOf ==
    ASSUME NEW pair \in Line
    PROVE  /\ \A x \in DOMAIN Columns(pair) : \E j \in DOMAIN pair.names :
                  /\ x = pair.table \o pair.names[j] /\ j \in DOMAIN pair.vals
                  /\ Columns(pair)[x] = Integer(pair.vals[j])
           /\ WellFormatted(pair) =>
                  \A j \in 1 .. Len(pair.vals) : /\ j \in DOMAIN pair.names
                                                 /\ pair.table \o pair.names[j] \in DOMAIN Columns(pair)
<1>1. PICK n, a, b : /\ n = Min({Len(pair.names), LeadingGood(pair.vals)})
                     /\ a = Len(pair.names) /\ b = LeadingGood(pair.vals)
  OBVIOUS
<1>2. pair.names \in Seq(STRING) /\ pair.vals \in Seq(Int) /\ pair.agree \in BOOLEAN
  BY DEF Line
<1>3. a \in Nat /\ b \in 0 .. Len(pair.vals) /\ Len(pair.vals) \in Nat
  BY <1>1, <1>2, LeadingWithin
<1>4. n = IF a <= b THEN a ELSE b
  <2>1. n = Min({a, b}) /\ a \in Nat /\ b \in Nat
    BY <1>1, <1>3
  <2> QED BY <2>1, Smaller
<1>5. \A j \in 1 .. n : j \in DOMAIN pair.names /\ j \in DOMAIN pair.vals
  <2>1. DOMAIN pair.names = 1 .. a /\ DOMAIN pair.vals = 1 .. Len(pair.vals)
    BY <1>1, <1>2
  <2>2. \A j \in 1 .. n : j \in 1 .. a /\ j \in 1 .. Len(pair.vals)
    BY <1>3, <1>4
  <2> QED BY <2>1, <2>2
<1> DEFINE S == {<<pair.table \o pair.names[i], Integer(pair.vals[i])>> : i \in 1 .. n}
<1>6. Columns(pair) = IF pair.agree THEN Named(S) ELSE Nothing
  BY <1>1, <1>2 DEF Columns
<1>7. ASSUME NEW j \in 1 .. n PROVE pair.table \o pair.names[j] \in DOMAIN Named(S)
  <2>1. PICK x, v : x = pair.table \o pair.names[j] /\ v = Integer(pair.vals[j])
    OBVIOUS
  <2>2. <<x, v>> \in S /\ <<x, v>>[1] = x
    BY <2>1
  <2> HIDE DEF S
  <2>3. x \in {p[1] : p \in S}
    BY <2>2
  <2> QED BY <2>1, <2>3 DEF Named
<1>8. ASSUME NEW x \in DOMAIN Named(S)
      PROVE  \E j \in 1 .. n : /\ x = pair.table \o pair.names[j]
                               /\ Named(S)[x] = Integer(pair.vals[j])
  <2>1. \E p \in S : p[1] = x
    BY DEF Named
  <2> HIDE DEF S
  <2>2. PICK p \in S : p[1] = x /\ Named(S)[x] = p[2]
    BY <2>1 DEF Named
  <2> USE DEF S
  <2>3. PICK j \in 1 .. n : p = <<pair.table \o pair.names[j], Integer(pair.vals[j])>>
    OBVIOUS
  <2> HIDE DEF S
  <2> QED BY <2>2, <2>3
<1> HIDE DEF S
<1>9. ASSUME NEW x \in DOMAIN Columns(pair)
      PROVE  \E j \in DOMAIN pair.names : /\ x = pair.table \o pair.names[j] /\ j \in DOMAIN pair.vals
                                          /\ Columns(pair)[x] = Integer(pair.vals[j])
  <2>1. pair.agree
    BY <1>6, <1>9, NothingIsEmpty
  <2> QED BY <1>5, <1>6, <1>8, <1>9, <2>1
<1>10. ASSUME WellFormatted(pair), NEW j \in 1 .. Len(pair.vals)
       PROVE  j \in DOMAIN pair.names /\ pair.table \o pair.names[j] \in DOMAIN Columns(pair)
  <2>1. pair.agree /\ b = Len(pair.vals) /\ a - Len(pair.vals) \in {0, 1}
    BY <1>1, <1>10 DEF WellFormatted
  <2>2. n = Len(pair.vals)
    BY <1>3, <1>4, <2>1
  <2> QED BY <1>5, <1>6, <1>7, <2>1, <2>2
<1> QED
  BY <1>9, <1>10

ColumnsOver(lines) == OverLines(Columns, lines)

\* What is published has the value at its place, and all that is well formatted.
AtPlace(lines, next) ==
    /\ \A x \in DOMAIN next : \E i \in DOMAIN lines : \E j \in DOMAIN lines[i].names :
           /\ x = lines[i].table \o lines[i].names[j] /\ j \in DOMAIN lines[i].vals
           /\ next[x] = Integer(lines[i].vals[j])
    /\ \A i \in DOMAIN lines : WellFormatted(lines[i]) =>
           \A j \in 1 .. Len(lines[i].vals) :
               lines[i].table \o lines[i].names[j] \in DOMAIN next

\* What a number of pairs of lines gives, one laid over the other.
LEMMA ColumnsOfLines ==
    ASSUME NEW lines \in Seq(Line), NEW next, next = ColumnsOver(lines)
    PROVE  AtPlace(lines, next)
<1>1. PICK n, maps : /\ n = Len(lines) /\ maps = [i \in DOMAIN lines |-> Columns(lines[i])]
                     /\ next = OverAll(maps)
  BY DEF ColumnsOver, OverLines
<1>2. n \in Nat /\ DOMAIN lines = 1 .. n /\ DOMAIN maps = 1 .. n
      /\ \A i \in 1 .. n : lines[i] \in Line /\ maps[i] = Columns(lines[i])
  BY <1>1
<1>3. /\ \A x : x \in DOMAIN next <=> \E i \in 1 .. n : x \in DOMAIN maps[i]
      /\ \A x \in DOMAIN next : \E i \in 1 .. n :
             /\ x \in DOMAIN maps[i] /\ next[x] = maps[i][x]
             /\ \A j \in i + 1 .. n : x \notin DOMAIN maps[j]
  <2>1. n \in Nat /\ DOMAIN maps = 1 .. n
    BY <1>2
  <2>2. /\ \A x : x \in DOMAIN OverAll(maps) <=> \E i \in 1 .. n : x \in DOMAIN maps[i]
        /\ \A x \in DOMAIN OverAll(maps) : \E i \in 1 .. n :
               /\ x \in DOMAIN maps[i] /\ OverAll(maps)[x] = maps[i][x]
               /\ \A j \in i + 1 .. n : x \notin DOMAIN maps[j]
    BY <2>1, LastIsOver, Zenon
  <2>3. next = OverAll(maps)
    BY <1>1
  <2> HIDE DEF Line
  <2> QED BY <2>2, <2>3, Zenon
<1>4. ASSUME NEW x \in DOMAIN next
      PROVE  \E i \in DOMAIN lines : \E j \in DOMAIN lines[i].names :
                      /\ x = lines[i].table \o lines[i].names[j] /\ j \in DOMAIN lines[i].vals
                      /\ next[x] = Integer(lines[i].vals[j])
  <2>1. PICK i \in 1 .. n : x \in DOMAIN Columns(lines[i]) /\ next[x] = Columns(lines[i])[x]
    BY <1>2, <1>3
  <2>2. PICK pair : pair = lines[i] /\ pair \in Line
    BY <1>2
  <2>3. \E j \in DOMAIN pair.names : /\ x = pair.table \o pair.names[j] /\ j \in DOMAIN pair.vals
                                     /\ Columns(pair)[x] = Integer(pair.vals[j])
    BY <2>1, <2>2, ColumnsOf
  <2> QED BY <1>2, <2>1, <2>2, <2>3
<1>5. ASSUME NEW i \in DOMAIN lines, WellFormatted(lines[i]), NEW j \in 1 .. Len(lines[i].vals)
      PROVE  lines[i].table \o lines[i].names[j] \in DOMAIN next
  <2>1. PICK pair : pair = lines[i] /\ pair \in Line
    BY <1>2
  <2>2. pair.table \o pair.names[j] \in DOMAIN Columns(pair)
    BY <1>5, <2>1, ColumnsOf
  <2> QED BY <1>2, <1>3, <2>1, <2>2
<1> QED
  BY <1>4, <1>5 DEF AtPlace

\* However many lines there are, and whatever is in them: each column has the
\* value at its place, and after an update that returned none is missing.
THEOREM ColumnsDoMatch == Spec => []ColumnsMatch
<1>1. Told => ColumnsMatch
  <2> SUFFICES ASSUME Told, Fresh("netstat") PROVE ColumnsMatch
    BY DEF ColumnsMatch
  <2>1. /\ source.lines \in Seq(Line) /\ source # NoFile
        /\ current = Netstat(source).next /\ ok = Netstat(source).ok
    BY LastRead DEF Fresh, FromSource, Memoryless, Tells, Readable, Line
  <2>2. PICK lines : lines = source.lines
    OBVIOUS
  <2> DEFINE ill == {i \in DOMAIN lines : ~WellFormatted(lines[i])}
             some == SubSeq(lines, 1, Min(ill))
  <2>3. ill = {} => current = ColumnsOver(lines)
    BY <2>1, <2>2, Zenon DEF Netstat, Returns, ColumnsOver
  <2>4. ill # {} => current = ColumnsOver(some) /\ ok = FALSE
    BY <2>1, <2>2, Zenon DEF Netstat, Throws, ColumnsOver
  <2>5. lines \in Seq(Line) /\ ill \subseteq 1 .. Len(lines)
    BY <2>1, <2>2
  <2>6. PICK taken : taken = IF ill = {} THEN lines ELSE some
    OBVIOUS
  <2>7. /\ current = ColumnsOver(taken) /\ (ok => taken = lines /\ ill = {})
    BY <2>3, <2>4, <2>6, Zenon
  <2>8. taken \in Seq(Line) /\ \A i \in DOMAIN taken : i \in DOMAIN lines /\ taken[i] = lines[i]
    <3>1. CASE ill = {}
      BY <2>5, <2>6, <3>1
    <3>2. CASE ill # {}
      <4> HIDE DEF ill
      <4>0. PICK T : T = ill
        OBVIOUS
      <4>1. PICK m : m = Min(ill) /\ m \in 1 .. Len(lines)
        <5>1. T \subseteq Nat /\ T # {}
          BY <2>5, <3>2, <4>0
        <5>2. Min(T) \in T
          BY <5>1, LeastOf
        <5> QED BY <2>5, <4>0, <5>2
      <4>2. taken = SubSeq(lines, 1, m)
        BY <2>6, <3>2, <4>1
      <4> QED BY <2>5, <4>1, <4>2
    <3> QED BY <3>1, <3>2
  <2>9. AtPlace(taken, current)
    <3>1. taken \in Seq(Line) /\ current = ColumnsOver(taken)
      BY <2>7, <2>8
    <3> QED BY <3>1, ColumnsOfLines
  <2>10. \A x \in DOMAIN current : \E i \in DOMAIN lines :
             LET pair == lines[i]
             IN  \E j \in DOMAIN pair.names : /\ x = pair.table \o pair.names[j]
                                              /\ j \in DOMAIN pair.vals
                                              /\ Value(x) = pair.vals[j]
    <3> SUFFICES ASSUME NEW x \in DOMAIN current
                 PROVE  \E i \in DOMAIN lines : \E j \in DOMAIN lines[i].names :
                            /\ x = lines[i].table \o lines[i].names[j]
                            /\ j \in DOMAIN lines[i].vals
                            /\ Value(x) = lines[i].vals[j]
      BY Zenon
    <3>1. PICK i \in DOMAIN taken : \E j \in DOMAIN taken[i].names :
              /\ x = taken[i].table \o taken[i].names[j] /\ j \in DOMAIN taken[i].vals
              /\ current[x] = Integer(taken[i].vals[j])
      BY <2>9, Zenon DEF AtPlace
    <3>2. PICK pair : pair = taken[i] /\ pair = lines[i] /\ i \in DOMAIN lines
      BY <2>8
    <3>3. PICK j \in DOMAIN pair.names :
              /\ x = pair.table \o pair.names[j] /\ j \in DOMAIN pair.vals
              /\ current[x] = Integer(pair.vals[j])
      BY <3>1, <3>2
    <3>4. Value(x) = pair.vals[j]
      BY <3>3 DEF Value, Integer
    <3> QED BY <3>2, <3>3, <3>4
  <2>11. ASSUME ok, NEW i \in DOMAIN lines, NEW a, a = Len(lines[i].names) - 1,
                NEW j \in 1 .. Max({a, Len(lines[i].vals)})
         PROVE  Published(lines[i].table \o lines[i].names[j])
    <3>1. WellFormatted(lines[i]) /\ taken = lines
      BY <2>7, <2>11
    <3>2. PICK b : b = Len(lines[i].vals) /\ b \in Nat /\ Len(lines[i].names) \in Nat
      <4>1. lines[i] \in Line
        BY <2>5
      <4>2. lines[i].vals \in Seq(Int) /\ lines[i].names \in Seq(STRING)
        BY <4>1 DEF Line
      <4>3. Len(lines[i].vals) \in Nat /\ Len(lines[i].names) \in Nat
        BY <4>2
      <4> QED BY <4>3, Zenon
    <3>3. a \in Int /\ a <= b
      BY <2>11, <3>1, <3>2 DEF WellFormatted
    <3>4. Max({a, b}) = b
      BY <3>2, <3>3 DEF Max
    <3>5. j \in 1 .. Len(lines[i].vals)
      BY <2>11, <3>2, <3>4
    <3> QED BY <2>9, <2>11, <3>1, <3>5 DEF Published, AtPlace
  <2> QED
    BY <2>2, <2>10, <2>11 DEF ColumnsMatch
<1> QED
  BY ToldInit, ToldStep, <1>1, PTL DEF Spec

-----------------------------------------------------------------------------
(* Columns are published under their numbers.                              *)

\* What Numbered() has after k columns.
NumberedTo(at, prefix, first, tokens, k) ==
    at.column = first + k /\ HasColumns(at.next, prefix, first, tokens, k)

\* One more column keeps what the others are.
LEMMA NextNumbered ==
    ASSUME NEW prefix, NumbersApart(prefix), NEW first \in Nat, NEW k \in Nat,
           NEW tokens, NEW at, NumberedTo(at, prefix, first, tokens, k)
    PROVE  NumberedTo(WithColumn(prefix, at, tokens[k + 1]), prefix, first, tokens, k + 1)
<1> DEFINE name(i) == ColumnName(prefix, first + i - 1)
           m == tokens[k + 1]
           next == WithColumn(prefix, at, m).next
<1>1. /\ WithColumn(prefix, at, m).column = first + (k + 1)
      /\ next = IF m = Bad THEN at.next ELSE Over(One(name(k + 1), Integer(m)), at.next)
  BY DEF WithColumn, NextColumn, NumberedTo
<1>2. \A i, j \in 1 .. k + 1 : name(i) = name(j) => i = j
  BY DEF NumbersApart
<1>3. /\ \A x \in DOMAIN at.next : \E i \in 1 .. k : x = name(i)
      /\ \A i \in 1 .. k : IF tokens[i] = Bad THEN name(i) \notin DOMAIN at.next
                           ELSE name(i) \in DOMAIN at.next /\ at.next[name(i)] = Integer(tokens[i])
  BY DEF NumberedTo, HasColumns
<1>4. \A i : i \in 1 .. k + 1 <=> i \in 1 .. k \/ i = k + 1
  OBVIOUS
<1> HIDE DEF name, next
<1>5. k + 1 \notin 1 .. k /\ k + 1 \in 1 .. k + 1 /\ \A i \in 1 .. k : i \in 1 .. k + 1
  OBVIOUS
<1>6. name(k + 1) \notin DOMAIN at.next
  BY <1>2, <1>3, <1>5
<1>7. DOMAIN One(name(k + 1), Integer(m)) = {name(k + 1)}
      /\ One(name(k + 1), Integer(m))[name(k + 1)] = Integer(m)
  <2>1. PICK x, v : x = name(k + 1) /\ v = Integer(m)
    OBVIOUS
  <2>2. DOMAIN One(x, v) = {x} /\ One(x, v)[x] = v
    BY DEF One, Named
  <2> QED BY <2>1, <2>2
<1>8. /\ \A x \in DOMAIN next : x \in DOMAIN at.next \/ x = name(k + 1)
      /\ \A x \in DOMAIN at.next : x \in DOMAIN next /\ next[x] = at.next[x]
      /\ name(k + 1) \in DOMAIN next <=> m # Bad
      /\ m # Bad => next[name(k + 1)] = Integer(m)
  BY <1>1, <1>6, <1>7 DEF Over
<1>9. ASSUME NEW x \in DOMAIN next PROVE \E i \in 1 .. k + 1 : x = name(i)
  BY <1>3, <1>5, <1>8
<1>10. ASSUME NEW i \in 1 .. k + 1
       PROVE  IF tokens[i] = Bad THEN name(i) \notin DOMAIN next
              ELSE name(i) \in DOMAIN next /\ next[name(i)] = Integer(tokens[i])
  <2>1. CASE i = k + 1
    BY <1>8, <2>1 DEF m
  <2>2. CASE i \in 1 .. k
    <3>1. name(i) # name(k + 1)
      BY <1>2, <1>5, <2>2
    <3> QED BY <1>3, <1>8, <2>2, <3>1
  <2> QED BY <1>4, <2>1, <2>2
<1> QED
  BY <1>1, <1>9, <1>10 DEF NumberedTo, HasColumns, name, next

\* What Numbered() is made of, from column to column, are integers.
IntegerColumns(h, prefix, first, tokens, n) ==
    /\ h[0] = [column |-> first, next |-> Nothing]
    /\ ColumnByColumn(h, prefix, tokens, n)
    /\ Numbered(prefix, first, tokens) = h[n].next
    /\ \A x \in DOMAIN h[n].next : \E v \in Int : h[n].next[x] = Integer(v)

\* Numbered() goes from column to column, and publishes integers.
LEMMA NumberedSteps ==
    ASSUME NEW prefix, NEW first \in Nat, NEW tokens \in Seq(Int)
    PROVE  \E h : IntegerColumns(h, prefix, first, tokens, Len(tokens))
<1> DEFINE n == Len(tokens)
           X == {ColumnName(prefix, i) : i \in Nat}
           R == {Integer(v) : v \in Int}
           V == [column : Nat, next : UNION {[D -> R] : D \in SUBSET X}]
<1>1. PICK start : start = [column |-> first, next |-> Nothing]
  OBVIOUS
<1>2. start \in V
  BY <1>1, NothingIsEmpty
<1>3. ASSUME NEW i \in 1 .. n, NEW v \in V PROVE WithColumn(prefix, v, tokens[i]) \in V
  <2>1. tokens[i] \in Int /\ v.column \in Nat /\ v.column + 1 \in Nat
    OBVIOUS
  <2>2. PICK D \in SUBSET X : v.next \in [D -> R]
    OBVIOUS
  <2>3. PICK x, w : x = ColumnName(prefix, v.column) /\ w = Integer(tokens[i])
    OBVIOUS
  <2>4. x \in X /\ w \in R
    BY <2>1, <2>3
  <2>5. Over(One(x, w), v.next) \in [{x} \cup D -> R]
    <3>1. DOMAIN One(x, w) = {x} /\ One(x, w)[x] = w
      BY DEF One, Named
    <3> HIDE DEF R, X
    <3> QED BY <2>2, <2>4, <3>1 DEF Over
  <2>6. Over(One(x, w), v.next) \in UNION {[E -> R] : E \in SUBSET X}
    BY <2>4, <2>5
  <2> HIDE DEF X, R
  <2> QED BY <2>1, <2>2, <2>3, <2>6 DEF WithColumn, NextColumn
<1>4. DOMAIN tokens = 1 .. n /\ n \in Nat
  OBVIOUS
<1> HIDE DEF V, n
<1>5. PICK h \in [0 .. n -> V] : /\ h[0] = start
                                 /\ ColumnByColumn(h, prefix, tokens, n)
                                 /\ Numbered(prefix, first, tokens) = h[n].next
  BY <1>1, <1>2, <1>3, <1>4, NumberedByPrefix
<1>6. \A x \in DOMAIN h[n].next : \E v \in Int : h[n].next[x] = Integer(v)
  <2>1. h[n] \in V
    BY <1>4, <1>5
  <2>2. PICK D : h[n].next \in [D -> R]
    BY <2>1 DEF V
  <2> QED BY <2>2
<1>7. IntegerColumns(h, prefix, first, tokens, n)
  BY <1>1, <1>5, <1>6 DEF IntegerColumns
<1> QED
  BY <1>7 DEF n

\* Each column has its number, counted from the first.
LEMMA NumberedOf ==
    ASSUME NEW prefix, NumbersApart(prefix), NEW first \in Nat, NEW tokens \in Seq(Int)
    PROVE  HasColumns(Numbered(prefix, first, tokens), prefix, first, tokens, Len(tokens))
<1> DEFINE n == Len(tokens)
<1>1. PICK start : start = [column |-> first, next |-> Nothing]
  OBVIOUS
<1>4. DOMAIN tokens = 1 .. n /\ n \in Nat
  OBVIOUS
<1> HIDE DEF n
<1>5. PICK h : /\ h[0] = start
               /\ ColumnByColumn(h, prefix, tokens, n)
               /\ Numbered(prefix, first, tokens) = h[n].next
  <2>1. PICK h : IntegerColumns(h, prefix, first, tokens, n)
    BY NumberedSteps DEF n
  <2> QED BY <1>1, <2>1 DEF IntegerColumns
<1> DEFINE S == {k \in Nat : k <= n => NumberedTo(h[k], prefix, first, tokens, k)}
<1>6. NumberedTo(h[0], prefix, first, tokens, 0)
  <2>1. h[0].column = first /\ h[0].next = Nothing
    BY <1>1, <1>5
  <2> QED BY <2>1, NothingIsEmpty DEF NumberedTo, HasColumns
<1>7. ASSUME NEW k \in Nat, k + 1 <= n, NumberedTo(h[k], prefix, first, tokens, k)
      PROVE  NumberedTo(h[k + 1], prefix, first, tokens, k + 1)
  <2>1. h[k + 1] = WithColumn(prefix, h[k], tokens[k + 1])
    <3>1. k + 1 \in 1 .. n /\ (k + 1) - 1 = k
      BY <1>4, <1>7
    <3> QED BY <1>5, <3>1 DEF ColumnByColumn
  <2> QED BY <1>7, <2>1, NextNumbered
<1>8. 0 \in S /\ \A k \in Nat : k \in S => k + 1 \in S
  <2>1. \A k \in Nat : k + 1 <= n => k <= n
    BY <1>4
  <2> QED BY <1>6, <1>7, <2>1
<1>9. n \in S
  <2> HIDE DEF S
  <2> QED BY <1>4, <1>8, SetInduction
<1>10. NumberedTo(h[n], prefix, first, tokens, n)
  BY <1>4, <1>9
<1> QED
  BY <1>5, <1>10 DEF NumberedTo, n

\* Decimal numerals are told apart, by themselves and after "cpu:".
Numerals == NumbersApart("cpu:") /\ NumbersApart(NoPrefix)

\* The three columns before the numbered ones do not hide them.
LEMMA ProcStatColumns ==
    ASSUME NumbersApart(NoPrefix), NEW file, file # NoFile, file.lines.match,
           file.lines.columns \in Seq(Int)
    PROVE  LET tokens == file.lines.columns
               next == ProcStat(file).next
           IN  \A i \in DOMAIN tokens :
                   IF tokens[i] = Bad THEN ColumnName(NoPrefix, i + 3) \notin DOMAIN next
                   ELSE /\ ColumnName(NoPrefix, i + 3) \in DOMAIN next
                        /\ next[ColumnName(NoPrefix, i + 3)] = Integer(tokens[i])
<1> DEFINE tokens == file.lines.columns
           S == {<<ColumnName(NoPrefix, 1), Integer(file.lines.pid)>>,
                 <<ColumnName(NoPrefix, 2), Text(file.lines.name)>>,
                 <<ColumnName(NoPrefix, 3), Text(file.lines.state)>>}
           next == ProcStat(file).next
<1>0. tokens \in Seq(Int)
  OBVIOUS
<1>1. next = Over(Named(S), Numbered(NoPrefix, 4, tokens))
  BY DEF ProcStat, Returns
<1>2. \A x \in DOMAIN Named(S) : \E j \in 1 .. 3 : x = ColumnName(NoPrefix, j)
  <2>1. PICK a, b, c, u, v, w :
            /\ a = ColumnName(NoPrefix, 1) /\ b = ColumnName(NoPrefix, 2) /\ c = ColumnName(NoPrefix, 3)
            /\ u = Integer(file.lines.pid) /\ v = Text(file.lines.name)
            /\ w = Text(file.lines.state)
    OBVIOUS
  <2>2. DOMAIN Named(S) = {a, b, c}
    <3>1. S = {<<a, u>>, <<b, v>>, <<c, w>>}
      BY <2>1
    <3> HIDE DEF S
    <3>2. DOMAIN Named({<<a, u>>, <<b, v>>, <<c, w>>}) = {a, b, c}
      BY DEF Named
    <3> QED BY <3>1, <3>2, Zenon
  <2>3. {1, 2, 3} \subseteq 1 .. 3
    OBVIOUS
  <2> HIDE DEF S
  <2> QED BY <2>1, <2>2, <2>3
<1> HIDE DEF S, next, tokens
<1>3. PICK rest : rest = Numbered(NoPrefix, 4, tokens)
  OBVIOUS
<1>4. HasColumns(rest, NoPrefix, 4, tokens, Len(tokens))
  BY <1>0, <1>3, NumberedOf
<1>5. ASSUME NEW i \in DOMAIN tokens
      PROVE  IF tokens[i] = Bad THEN ColumnName(NoPrefix, i + 3) \notin DOMAIN next
             ELSE /\ ColumnName(NoPrefix, i + 3) \in DOMAIN next
                  /\ next[ColumnName(NoPrefix, i + 3)] = Integer(tokens[i])
  <2>0. i \in 1 .. Len(tokens) /\ Len(tokens) \in Nat
    BY <1>0
  <2>1. i \in Nat /\ i + 3 \in Nat /\ 4 + i - 1 = i + 3 /\ i + 3 \notin 1 .. 3
    BY <2>0
  <2>2. PICK name : name = ColumnName(NoPrefix, i + 3)
    OBVIOUS
  <2>3. IF tokens[i] = Bad THEN name \notin DOMAIN rest
        ELSE name \in DOMAIN rest /\ rest[name] = Integer(tokens[i])
    BY <1>4, <2>0, <2>1, <2>2 DEF HasColumns
  <2>4. name \notin DOMAIN Named(S)
    <3>1. ASSUME NEW j \in 1 .. 3 PROVE name # ColumnName(NoPrefix, j)
      BY <2>1, <2>2 DEF NumbersApart
    <3> QED BY <1>2, <3>1
  <2>5. /\ name \in DOMAIN next <=> name \in DOMAIN rest
        /\ name \in DOMAIN rest => next[name] = rest[name]
    BY <1>1, <1>3, <2>4 DEF Over
  <2> QED BY <2>2, <2>3, <2>5
<1> QED
  BY <1>5 DEF next, tokens

\* A column has the number proc(5) gives it, for every line of numbers and of
\* tokens that are none (tblStat.cpp 52-59, tblProcStat.cpp 76-84).
THEOREM ColumnsAreNumbered ==
    ASSUME Numerals
    PROVE  Spec => []ColumnsNumbered
<1>1. Told => ColumnsNumbered
  <2> SUFFICES ASSUME Told PROVE ColumnsNumbered
    OBVIOUS
  <2>1. ASSUME Fresh("stat"), NEW i \in DOMAIN source.lines
        PROVE  IF source.lines[i] = Bad THEN ~Published(ColumnName("cpu:", i + 1))
               ELSE /\ Published(ColumnName("cpu:", i + 1))
                    /\ Value(ColumnName("cpu:", i + 1)) = source.lines[i]
    <3>1. source.lines \in Seq(Int) /\ current = Stat(source).next
      BY <2>1, LastRead DEF Fresh, FromSource, Memoryless, Tells, Readable
    <3>2. PICK next : next = Numbered("cpu:", 2, source.lines)
      OBVIOUS
    <3>3. current = next
      BY <2>1, <3>1, <3>2 DEF Stat, Returns, Fresh
    <3>4. HasColumns(next, "cpu:", 2, source.lines, Len(source.lines))
      BY <3>1, <3>2, NumberedOf DEF Numerals
    <3>5. i \in 1 .. Len(source.lines) /\ 2 + i - 1 = i + 1
      BY <3>1
    <3>6. PICK name : name = ColumnName("cpu:", i + 1)
      OBVIOUS
    <3>7. IF source.lines[i] = Bad THEN name \notin DOMAIN next
          ELSE name \in DOMAIN next /\ next[name] = Integer(source.lines[i])
      BY <3>4, <3>5, <3>6 DEF HasColumns
    <3> QED BY <3>3, <3>6, <3>7 DEF Published, Value, Integer
  <2>2. ASSUME Fresh("procStat"), source.lines.match, NEW i \in DOMAIN source.lines.columns
        PROVE  IF source.lines.columns[i] = Bad THEN ~Published(ColumnName(NoPrefix, i + 3))
               ELSE /\ Published(ColumnName(NoPrefix, i + 3))
                    /\ Value(ColumnName(NoPrefix, i + 3)) = source.lines.columns[i]
    <3>1. source.lines.columns \in Seq(Int) /\ current = ProcStat(source).next
      BY <2>2, LastRead DEF Fresh, FromSource, Memoryless, Tells, Readable
    <3>2. PICK name : name = ColumnName(NoPrefix, i + 3)
      OBVIOUS
    <3>3. IF source.lines.columns[i] = Bad THEN name \notin DOMAIN current
          ELSE name \in DOMAIN current /\ current[name] = Integer(source.lines.columns[i])
      BY <2>2, <3>1, <3>2, ProcStatColumns DEF Fresh, Numerals
    <3>4. IF source.lines.columns[i] = Bad THEN ~Published(name)
          ELSE Published(name) /\ Value(name) = source.lines.columns[i]
      BY <3>3 DEF Published, Value, Integer
    <3> QED BY <3>2, <3>4
  <2>3. CASE Fresh("stat")
    <3>1. kind = "stat"
      BY <2>3 DEF Fresh
    <3> QED BY <2>1, <2>3, <3>1 DEF ColumnsNumbered
  <2>4. CASE Fresh("procStat") /\ source.lines.match
    <3>1. kind = "procStat"
      BY <2>4 DEF Fresh
    <3> QED BY <2>2, <2>4, <3>1 DEF ColumnsNumbered
  <2> QED BY <2>3, <2>4 DEF ColumnsNumbered
<1> QED
  BY ToldInit, ToldStep, <1>1, PTL DEF Spec


-----------------------------------------------------------------------------
(* A mask's bits are those of its digits.                                  *)

\* The number that std::stol reads is made digit by digit.
LEMMA EvaluatedByDigit ==
    ASSUME NEW b \in {8, 10, 16}, NEW digits \in Seq(0 .. 15), NEW n, n = Len(digits)
    PROVE  \E h \in [0 .. n -> Nat] : /\ h[0] = 0
                                      /\ \A k \in 1 .. n : h[k] = h[k - 1] * b + digits[k]
                                      /\ Evaluated(b, digits) = h[n]
<1>0. n \in Nat /\ \A k \in 1 .. n : digits[k] \in 0 .. 15
  OBVIOUS
<1> DEFINE Def(g) == [k \in 0 .. n |-> IF k = 0 THEN 0 ELSE g[k - 1] * b + digits[k]]
<1>1. PICK V, base : V = Nat /\ base = 0
  OBVIOUS
<1>2. PICK step \in [(1 .. n) \X V -> V] :
          \A k \in 1 .. n, v \in V : step[<<k, v>>] = v * b + digits[k]
  <2> DEFINE step == [p \in (1 .. n) \X V |-> p[2] * b + digits[p[1]]]
  <2>1. step \in [(1 .. n) \X V -> V]
    <3>1. ASSUME NEW p \in (1 .. n) \X V PROVE p[2] * b + digits[p[1]] \in V
      <4>1. p[2] \in Nat /\ digits[p[1]] \in Nat
        BY <1>0, <1>1
      <4> QED BY <1>1, <4>1
    <3> QED BY <3>1
  <2>2. \A k \in 1 .. n, v \in V : step[<<k, v>>] = v * b + digits[k]
    OBVIOUS
  <2> HIDE DEF step
  <2> QED BY <2>1, <2>2
<1>3. PICK g \in PrefixFolds(n, V, base, step) : TRUE
  <2>1. base \in V
    BY <1>1
  <2> QED BY <1>0, <2>1, PrefixExists
<1>4. /\ g \in [0 .. n -> V] /\ g[0] = base
      /\ \A k \in 1 .. n : g[k] = step[<<k, g[k - 1]>>]
  BY DEF PrefixFolds
<1>5. g = Def(g)
  <2>1. ASSUME NEW k \in 1 .. n PROVE g[k] = g[k - 1] * b + digits[k]
    <3>1. k - 1 \in 0 .. n
      BY <1>0
    <3> QED BY <1>2, <1>4, <3>1
  <2>2. \A k \in 0 .. n : k # 0 => k \in 1 .. n
    BY <1>0
  <2> QED BY <1>1, <1>4, <2>1, <2>2
<1>6. PICK h : h = Def(h) /\ Evaluated(b, digits) = h[n]
  <2>1. Evaluated(b, digits) = (CHOOSE f : f = Def(f))[n]
    BY Zenon DEF Evaluated
  <2> HIDE DEF Def
  <2> QED BY <1>5, <2>1, Zenon
<1>7. h[0] = 0 /\ \A k \in 1 .. n : h[k] = h[k - 1] * b + digits[k]
  <2>1. h[0] = 0
    BY <1>0, <1>6
  <2>2. ASSUME NEW k \in 1 .. n PROVE h[k] = h[k - 1] * b + digits[k]
    <3>1. k \in 0 .. n /\ k # 0
      BY <1>0
    <3>2. Def(h)[k] = h[k - 1] * b + digits[k]
      BY <3>1
    <3> HIDE DEF Def
    <3> QED BY <1>6, <3>2
  <2> QED BY <2>1, <2>2
<1>8. \A k \in Nat : k \in {j \in Nat : j <= n => h[j] \in Nat}
  <2> DEFINE S == {j \in Nat : j <= n => h[j] \in Nat}
  <2>1. 0 \in S
    BY <1>7
  <2>2. ASSUME NEW k \in Nat, k \in S PROVE k + 1 \in S
    <3> SUFFICES ASSUME k + 1 <= n PROVE h[k + 1] \in Nat
      OBVIOUS
    <3>1. k + 1 \in 1 .. n /\ (k + 1) - 1 = k /\ h[k] \in Nat
      BY <1>0, <2>2
    <3>2. h[k + 1] = h[(k + 1) - 1] * b + digits[k + 1]
      BY <1>7, <3>1, Zenon
    <3>3. h[k + 1] = h[k] * b + digits[k + 1]
      BY <3>1, <3>2, Zenon
    <3>4. digits[k + 1] \in 0 .. 15
      BY <1>0, <3>1
    <3>5. PICK a \in Nat, d \in 0 .. 15 : a = h[k] /\ d = digits[k + 1]
      BY <3>1, <3>4, Zenon
    <3>6. a * b + d \in Nat
      OBVIOUS
    <3> QED BY <3>3, <3>5, <3>6, Zenon
  <2> HIDE DEF S
  <2>3. \A k \in Nat : k \in S
    BY <2>1, <2>2, SetInduction
  <2> QED BY <2>3 DEF S
<1>9. h \in [0 .. n -> Nat]
  BY <1>0, <1>6, <1>8
<1> QED
  BY <1>6, <1>7, <1>9

SameLowBits(x, d) ==
    /\ x % 2 = d % 2 /\ (x \div 2) % 2 = (d \div 2) % 2
    /\ (x \div 4) % 2 = (d \div 4) % 2 /\ (x \div 8) % 2 = (d \div 8) % 2

\* The lowest bits of a number are those of its last digit.
LEMMA DigitBits ==
    ASSUME NEW x \in Nat, NEW y \in Nat, NEW d \in 0 .. 15, x = y * 16 + d
    PROVE  SameLowBits(x, d)
<1>1. PICK e0 \in 0 .. 1, e1 \in 0 .. 1, e2 \in 0 .. 1, e3 \in 0 .. 1 :
          d = 8 * e3 + 4 * e2 + 2 * e1 + e0
  <2> WITNESS d % 2 \in 0 .. 1, (d \div 2) % 2 \in 0 .. 1, (d \div 4) % 2 \in 0 .. 1,
              (d \div 8) % 2 \in 0 .. 1
  <2> QED OBVIOUS
<1>2. x % 2 = e0 /\ d % 2 = e0
  BY <1>1
<1>3. x \div 2 = 8 * y + 4 * e3 + 2 * e2 + e1 /\ d \div 2 = 4 * e3 + 2 * e2 + e1
  BY <1>1
<1>4. x \div 4 = 4 * y + 2 * e3 + e2 /\ d \div 4 = 2 * e3 + e2
  BY <1>1
<1>5. x \div 8 = 2 * y + e3 /\ d \div 8 = e3
  BY <1>1
<1> QED BY <1>2, <1>3, <1>4, <1>5 DEF SameLowBits

\* Without its last digit d, x is y.
OneDigit(x, y, d) == x \in Nat /\ y \in Nat /\ d \in 0 .. 15 /\ x = y * 16 + d

\* A number without its last two digits is divided by 256.
LEMMA TwoDigits ==
    ASSUME NEW x, NEW y, NEW z, NEW d, NEW e, OneDigit(x, y, d), OneDigit(y, z, e)
    PROVE  x \div 256 = z
<1> USE DEF OneDigit
<1>1. PICK r \in 0 .. 255 : r = 16 * e + d
  OBVIOUS
<1>2. x = 256 * z + r /\ z \in Nat
  BY <1>1
<1> HIDE DEF OneDigit
<1> QED BY <1>2

\* A number without its last three digits is divided by 4096.
LEMMA ThreeDigits ==
    ASSUME NEW w, NEW x, NEW y, NEW z, NEW c, NEW d, NEW e,
           OneDigit(w, x, c), OneDigit(x, y, d), OneDigit(y, z, e)
    PROVE  w \div 4096 = z
<1> USE DEF OneDigit
<1>1. PICK r \in 0 .. 4095 : r = 256 * e + 16 * d + c
  OBVIOUS
<1>2. w = 4096 * z + r /\ z \in Nat
  BY <1>1
<1> HIDE DEF OneDigit
<1> QED BY <1>2

\* X[j]: what is left of a number without its last j digits, D[j].
Chain(X, D) ==
    \A j \in 0 .. 5 : /\ X[j] \in Nat /\ X[j + 1] \in Nat /\ D[j] \in 0 .. 15
                      /\ X[j] = X[j + 1] * 16 + D[j]

\* A number's bits are those of its digits.
LEMMA BitsOfChain ==
    ASSUME NEW X, NEW D, Chain(X, D)
    PROVE  /\ X[0] \in Nat /\ D[3] \in 0 .. 15 /\ D[5] \in 0 .. 15
           /\ HasBit(X[0], 12) <=> D[3] % 2 = 1
           /\ HasBit(X[0], 14) <=> (D[3] \div 4) % 2 = 1
           /\ HasBit(X[0], 21) <=> (D[5] \div 2) % 2 = 1
           /\ HasBit(X[0], 23) <=> (D[5] \div 8) % 2 = 1
<1>1. PICK x0 \in Nat, x1 \in Nat, x2 \in Nat, x3 \in Nat,
           d0 \in 0 .. 15, d1 \in 0 .. 15, d2 \in 0 .. 15 :
          /\ x0 = X[0] /\ x1 = X[1] /\ x2 = X[2] /\ x3 = X[3]
          /\ x0 = x1 * 16 + d0 /\ x1 = x2 * 16 + d1 /\ x2 = x3 * 16 + d2
  <2>1. 0 + 1 = 1 /\ 1 + 1 = 2 /\ 2 + 1 = 3
    OBVIOUS
  <2>2. X[0] \in Nat /\ D[0] \in 0 .. 15 /\ X[0] = X[1] * 16 + D[0]
    BY <2>1 DEF Chain
  <2>3. X[1] \in Nat /\ D[1] \in 0 .. 15 /\ X[1] = X[2] * 16 + D[1]
    BY <2>1 DEF Chain
  <2>4. X[2] \in Nat /\ D[2] \in 0 .. 15 /\ X[2] = X[3] * 16 + D[2] /\ X[3] \in Nat
    BY <2>1 DEF Chain
  <2> QED BY <2>2, <2>3, <2>4, Zenon
<1>2. PICK x4 \in Nat, x5 \in Nat, x6 \in Nat,
           d3 \in 0 .. 15, d4 \in 0 .. 15, d5 \in 0 .. 15 :
          /\ d3 = D[3] /\ d5 = D[5]
          /\ x3 = x4 * 16 + d3 /\ x4 = x5 * 16 + d4 /\ x5 = x6 * 16 + d5
  <2>1. 3 + 1 = 4 /\ 4 + 1 = 5 /\ 5 + 1 = 6
    OBVIOUS
  <2>2. D[3] \in 0 .. 15 /\ x3 = X[4] * 16 + D[3]
    BY <1>1, <2>1 DEF Chain
  <2>3. X[4] \in Nat /\ D[4] \in 0 .. 15 /\ X[4] = X[5] * 16 + D[4]
    BY <2>1 DEF Chain
  <2>4. X[5] \in Nat /\ D[5] \in 0 .. 15 /\ X[5] = X[6] * 16 + D[5] /\ X[6] \in Nat
    BY <2>1 DEF Chain
  <2> QED BY <2>2, <2>3, <2>4, Zenon
<1>c. /\ OneDigit(x0, x1, d0) /\ OneDigit(x1, x2, d1) /\ OneDigit(x2, x3, d2)
      /\ OneDigit(x3, x4, d3) /\ OneDigit(x4, x5, d4)
  BY <1>1, <1>2 DEF OneDigit
<1>3. x0 \div 4096 = x3
  BY <1>c, ThreeDigits
<1>4. x3 \div 256 = x5
  BY <1>c, TwoDigits
<1>5. /\ x0 \div 16384 = x3 \div 4
      /\ x0 \div 2097152 = x5 \div 2
      /\ x0 \div 8388608 = x5 \div 8
  <2>1. x0 \div 16384 = (x0 \div 4096) \div 4
    OBVIOUS
  <2>2. x0 \div 2097152 = ((x0 \div 4096) \div 256) \div 2
    OBVIOUS
  <2>3. x0 \div 8388608 = ((x0 \div 4096) \div 256) \div 8
    OBVIOUS
  <2> QED BY <1>3, <1>4, <2>1, <2>2, <2>3
<1>6. /\ x3 % 2 = d3 % 2 /\ (x3 \div 4) % 2 = (d3 \div 4) % 2
      /\ (x5 \div 2) % 2 = (d5 \div 2) % 2 /\ (x5 \div 8) % 2 = (d5 \div 8) % 2
  <2>1. /\ x3 = x4 * 16 + d3
        /\ x5 = x6 * 16 + d5
    BY <1>2
  <2>2. SameLowBits(x3, d3)
    BY <2>1, DigitBits, Zenon
  <2>3. SameLowBits(x5, d5)
    BY <2>1, DigitBits, Zenon
  <2> QED BY <2>2, <2>3 DEF SameLowBits
<1>7. /\ HasBit(x0, 12) <=> d3 % 2 = 1
      /\ HasBit(x0, 14) <=> (d3 \div 4) % 2 = 1
      /\ HasBit(x0, 21) <=> (d5 \div 2) % 2 = 1
      /\ HasBit(x0, 23) <=> (d5 \div 8) % 2 = 1
  <2>1. 2^12 = 4096 /\ 2^14 = 16384 /\ 2^21 = 2097152 /\ 2^23 = 8388608
    OBVIOUS
  <2>2. /\ HasBit(x0, 12) <=> x3 % 2 = 1
        /\ HasBit(x0, 14) <=> (x3 \div 4) % 2 = 1
    BY <1>3, <1>5, <2>1 DEF HasBit
  <2>3. /\ HasBit(x0, 21) <=> (x5 \div 2) % 2 = 1
        /\ HasBit(x0, 23) <=> (x5 \div 8) % 2 = 1
    BY <1>5, <2>1 DEF HasBit
  <2> QED BY <1>6, <2>2, <2>3
<1> QED BY <1>1, <1>2, <1>7, Zenon

\* The bits that have a name are those of the digits, as far as these go.
LEMMA BitsOfDigits ==
    ASSUME NEW digits \in Seq(0 .. 15), NEW v, v = Evaluated(16, digits)
    PROVE  /\ v \in Nat
           /\ \A b \in {12, 14, 21, 23} :
                  HasBit(v, b) <=> b < 4 * Len(digits) /\ DigitBit(digits, b)
<1>1. PICK n : n = Len(digits)
  OBVIOUS
<1>2. n \in Nat /\ \A k \in 1 .. n : digits[k] \in 0 .. 15
  BY <1>1
<1>3. PICK h \in [0 .. n -> Nat] : /\ h[0] = 0
                                   /\ \A k \in 1 .. n : h[k] = h[k - 1] * 16 + digits[k]
                                   /\ v = h[n]
  BY <1>1, EvaluatedByDigit
<1>4. PICK X, D : /\ X = [j \in Nat |-> IF j <= n THEN h[n - j] ELSE 0]
                  /\ D = [j \in Nat |-> IF j < n THEN digits[n - j] ELSE 0]
  OBVIOUS
<1>5. ASSUME NEW j \in 0 .. 6
      PROVE  X[j] \in Nat /\ D[j] \in 0 .. 15 /\ X[j] = X[j + 1] * 16 + D[j]
  <2>0. j \in Nat /\ j + 1 \in Nat
    OBVIOUS
  <2>1. CASE j < n
    <3>1. n - j \in 1 .. n /\ n - (j + 1) = (n - j) - 1 /\ j + 1 <= n /\ j <= n
      BY <1>2, <2>1
    <3>2. h[n - j] = h[(n - j) - 1] * 16 + digits[n - j]
      BY <1>3, <3>1
    <3>3. X[j] = h[n - j] /\ X[j + 1] = h[n - (j + 1)] /\ D[j] = digits[n - j]
      BY <1>4, <2>0, <2>1, <3>1
    <3>4. digits[n - j] \in 0 .. 15 /\ h[n - j] \in Nat
      BY <1>2, <1>3, <3>1
    <3> QED BY <3>1, <3>2, <3>3, <3>4
  <2>2. CASE j = n
    <3>1. n - j = 0 /\ ~(j + 1 <= n) /\ ~(j < n) /\ j <= n
      BY <1>2, <2>2
    <3>2. X[j] = h[0] /\ X[j + 1] = 0 /\ D[j] = 0
      BY <1>4, <2>0, <3>1
    <3> QED BY <1>3, <3>2
  <2>3. CASE j > n
    <3>1. ~(j + 1 <= n) /\ ~(j <= n) /\ ~(j < n)
      BY <1>2, <2>3
    <3>2. X[j] = 0 /\ X[j + 1] = 0 /\ D[j] = 0
      BY <1>4, <2>0, <3>1
    <3> QED BY <3>2
  <2> QED BY <1>2, <2>1, <2>2, <2>3
<1>6. X[0] = v
  <2>1. n - 0 = n /\ 0 <= n
    BY <1>2
  <2> QED BY <1>3, <1>4, <2>1
<1>7. \A j \in 0 .. 6 : X[j] \in Nat /\ D[j] \in 0 .. 15 /\ X[j] = X[j + 1] * 16 + D[j]
  BY <1>5
<1>8. Chain(X, D)
  <2>1. \A j \in 0 .. 5 : j \in 0 .. 6 /\ j + 1 \in 0 .. 6
    OBVIOUS
  <2> QED BY <1>7, <2>1 DEF Chain
<1>9. PICK d3 \in 0 .. 15, d5 \in 0 .. 15 : d3 = D[3] /\ d5 = D[5]
  BY <1>8, BitsOfChain
<1>15. /\ v \in Nat
       /\ HasBit(v, 12) <=> d3 % 2 = 1
       /\ HasBit(v, 14) <=> (d3 \div 4) % 2 = 1
       /\ HasBit(v, 21) <=> (d5 \div 2) % 2 = 1
       /\ HasBit(v, 23) <=> (d5 \div 8) % 2 = 1
  BY <1>6, <1>8, <1>9, BitsOfChain, Zenon
<1>16. /\ 3 < n => d3 = digits[n - 3]
       /\ 5 < n => d5 = digits[n - 5]
       /\ ~(3 < n) => d3 = 0
       /\ ~(5 < n) => d5 = 0
  BY <1>4, <1>9
<1>17. /\ DigitBit(digits, 12) <=> (digits[n - 3] \div 1) % 2 = 1
       /\ DigitBit(digits, 14) <=> (digits[n - 3] \div 4) % 2 = 1
       /\ DigitBit(digits, 21) <=> (digits[n - 5] \div 2) % 2 = 1
       /\ DigitBit(digits, 23) <=> (digits[n - 5] \div 8) % 2 = 1
  <2>1. /\ 12 \div 4 = 3 /\ 14 \div 4 = 3 /\ 21 \div 4 = 5 /\ 23 \div 4 = 5
        /\ 2^(12 % 4) = 1 /\ 2^(14 % 4) = 4 /\ 2^(21 % 4) = 2 /\ 2^(23 % 4) = 8
    OBVIOUS
  <2> QED BY <1>1, <2>1 DEF DigitBit
<1>18. 3 < n => (digits[n - 3] \div 1) % 2 = d3 % 2
  <2> SUFFICES ASSUME 3 < n PROVE (digits[n - 3] \div 1) % 2 = d3 % 2
    OBVIOUS
  <2>1. d3 = digits[n - 3] /\ d3 \div 1 = d3
    BY <1>16
  <2> QED BY <2>1
<1>19. /\ HasBit(v, 12) <=> 12 < 4 * n /\ DigitBit(digits, 12)
       /\ HasBit(v, 14) <=> 14 < 4 * n /\ DigitBit(digits, 14)
  <2>1. (12 < 4 * n <=> 3 < n) /\ (14 < 4 * n <=> 3 < n)
    BY <1>2
  <2>2. CASE 3 < n
    BY <1>15, <1>16, <1>17, <1>18, <2>1, <2>2
  <2>3. CASE ~(3 < n)
    <3>1. d3 % 2 = 0 /\ (d3 \div 4) % 2 = 0
      BY <1>16, <2>3
    <3> QED BY <1>15, <2>1, <2>3, <3>1
  <2> QED BY <2>2, <2>3
<1>20. /\ HasBit(v, 21) <=> 21 < 4 * n /\ DigitBit(digits, 21)
       /\ HasBit(v, 23) <=> 23 < 4 * n /\ DigitBit(digits, 23)
  <2>1. (21 < 4 * n <=> 5 < n) /\ (23 < 4 * n <=> 5 < n)
    BY <1>2
  <2>2. CASE 5 < n
    BY <1>15, <1>16, <1>17, <2>1, <2>2
  <2>3. CASE ~(5 < n)
    <3>1. (d5 \div 2) % 2 = 0 /\ (d5 \div 8) % 2 = 0
      BY <1>16, <2>3
    <3> QED BY <1>15, <2>1, <2>3, <3>1
  <2> QED BY <2>2, <2>3
<1>21. ASSUME NEW b \in {12, 14, 21, 23}
       PROVE  HasBit(v, b) <=> b < 4 * n /\ DigitBit(digits, b)
  BY <1>19, <1>20
<1> QED
  BY <1>1, <1>15, <1>21

-----------------------------------------------------------------------------
(* The names of the bits.                                                  *)

\* The map of the bits is one to one.
LEMMA CapFacts ==
    /\ \A c \in DOMAIN CapMap : /\ CapMap[c] \in {12, 14, 21, 23}
                                /\ CapMap[c] \in Range(CapMap)
                                /\ CapName(CapMap[c]) = c
    /\ \A bit \in Range(CapMap) : CapName(bit) \in DOMAIN CapMap /\ CapMap[CapName(bit)] = bit
<1>1. /\ DOMAIN CapMap = {"NET_ADMIN", "SYS_ADMIN", "SYS_NICE", "IPC_LOCK"}
      /\ CapMap["NET_ADMIN"] = 12 /\ CapMap["SYS_ADMIN"] = 21
      /\ CapMap["SYS_NICE"] = 23 /\ CapMap["IPC_LOCK"] = 14
  BY DEF CapMap
<1>2. ASSUME NEW c \in DOMAIN CapMap
      PROVE  /\ CapMap[c] \in {12, 14, 21, 23} /\ CapMap[c] \in Range(CapMap)
             /\ CapName(CapMap[c]) = c
  <2>1. \A d \in DOMAIN CapMap : CapMap[d] = CapMap[c] => d = c
    BY <1>1
  <2>2. CapName(CapMap[c]) = c
    BY <2>1 DEF CapName
  <2> QED BY <1>1, <2>2 DEF Range
<1>3. ASSUME NEW bit \in Range(CapMap)
      PROVE  CapName(bit) \in DOMAIN CapMap /\ CapMap[CapName(bit)] = bit
  BY <1>2 DEF Range
<1> QED
  BY <1>2, <1>3

\* How many bits below a number have a name.
NamedBelow(n) ==
    IF n > 23 THEN 4 ELSE IF n > 21 THEN 3 ELSE IF n > 14 THEN 2 ELSE IF n > 12 THEN 1 ELSE 0

\* The names of the bits below a number.
NamesBelow(names, n, mask) ==
    /\ names \in Seq(DOMAIN CapMap) /\ Len(names) <= NamedBelow(n)
    /\ \A c \in DOMAIN CapMap :
           (\E i \in 1 .. Len(names) : names[i] = c) <=> CapMap[c] < n /\ HasBit(mask, CapMap[c])
    /\ \A i, j \in 1 .. Len(names) : i < j => CapMap[names[i]] < CapMap[names[j]]

\* One more bit keeps the names right, and there is room for every name.
LEMMA NamesAfterBit ==
    ASSUME NEW bit \in Nat, NEW mask, NEW names, NamesBelow(names, bit, mask)
    PROVE  NamesBelow(AfterBit(names, bit, mask, 4), bit + 1, mask)
<1>1. /\ names \in Seq(DOMAIN CapMap) /\ Len(names) <= NamedBelow(bit)
      /\ \A c \in DOMAIN CapMap :
             (\E i \in 1 .. Len(names) : names[i] = c)
                 <=> CapMap[c] < bit /\ HasBit(mask, CapMap[c])
      /\ \A i, j \in 1 .. Len(names) : i < j => CapMap[names[i]] < CapMap[names[j]]
  BY DEF NamesBelow
<1>2. \A c \in DOMAIN CapMap : CapMap[c] \in Nat
  BY CapFacts
<1>3. CASE ~(HasBit(mask, bit) /\ bit \in Range(CapMap))
  <2>1. AfterBit(names, bit, mask, 4) = names
    BY <1>3 DEF AfterBit
  <2>2. NamedBelow(bit) <= NamedBelow(bit + 1) /\ NamedBelow(bit) \in Nat
        /\ NamedBelow(bit + 1) \in Nat /\ Len(names) \in Nat
    BY <1>1 DEF NamedBelow
  <2>3. ASSUME NEW c \in DOMAIN CapMap
        PROVE  CapMap[c] < bit + 1 /\ HasBit(mask, CapMap[c])
                   <=> CapMap[c] < bit /\ HasBit(mask, CapMap[c])
    <3>1. CASE CapMap[c] = bit
      BY <1>3, <3>1, CapFacts
    <3>2. CASE CapMap[c] # bit
      <4>1. CapMap[c] < bit + 1 <=> CapMap[c] < bit
        BY <1>2, <3>2
      <4> QED BY <4>1
    <3> QED BY <3>1, <3>2
  <2>4. Len(names) <= NamedBelow(bit + 1)
    BY <1>1, <2>2
  <2> QED BY <1>1, <2>1, <2>3, <2>4 DEF NamesBelow
<1>4. CASE HasBit(mask, bit) /\ bit \in Range(CapMap)
  <2>1. CapName(bit) \in DOMAIN CapMap /\ CapMap[CapName(bit)] = bit
    BY <1>4, CapFacts
  <2>2. PICK name \in DOMAIN CapMap : name = CapName(bit) /\ CapMap[name] = bit
    BY <2>1
  <2>3. bit \in {12, 14, 21, 23}
    BY <2>2, CapFacts
  <2>4. /\ NamedBelow(bit) < 4 /\ NamedBelow(bit + 1) = NamedBelow(bit) + 1
        /\ NamedBelow(bit) \in Nat
    BY <2>3 DEF NamedBelow
  <2>5. PICK longer : longer = Append(names, name) /\ AfterBit(names, bit, mask, 4) = longer
    <3>1. Len(names) \in Nat /\ Len(names) < 4
      BY <1>1, <2>4
    <3> QED BY <1>4, <2>2, <3>1 DEF AfterBit
  <2>6. PICK n \in Nat : n = Len(names)
    BY <1>1
  <2>7. /\ longer \in Seq(DOMAIN CapMap) /\ Len(longer) = n + 1 /\ longer[n + 1] = name
        /\ \A i \in 1 .. n : longer[i] = names[i] /\ names[i] \in DOMAIN CapMap
    BY <1>1, <2>5, <2>6
  <2>8. Len(longer) <= NamedBelow(bit + 1)
    BY <1>1, <2>4, <2>6, <2>7
  <2>9. ASSUME NEW c \in DOMAIN CapMap
        PROVE  (\E i \in 1 .. Len(longer) : longer[i] = c)
                   <=> CapMap[c] < bit + 1 /\ HasBit(mask, CapMap[c])
    <3>1. CASE c = name
      <4>1. n + 1 \in 1 .. Len(longer) /\ longer[n + 1] = c
        BY <2>6, <2>7, <3>1
      <4>2. CapMap[c] < bit + 1 /\ HasBit(mask, CapMap[c])
        BY <1>4, <2>2, <3>1
      <4> QED BY <4>1, <4>2
    <3>2. CASE c # name
      <4>1. CapMap[c] # bit
        BY <2>2, <3>2, CapFacts
      <4>2. CapMap[c] < bit + 1 <=> CapMap[c] < bit
        BY <1>2, <4>1
      <4>3. \A i \in 1 .. n + 1 : i \in 1 .. n \/ i = n + 1
        BY <2>6
      <4>4. (\E i \in 1 .. n + 1 : longer[i] = c) <=> \E i \in 1 .. n : names[i] = c
        BY <2>6, <2>7, <3>2, <4>3
      <4> QED BY <1>1, <2>6, <2>7, <4>2, <4>4
    <3> QED BY <3>1, <3>2
  <2>10. ASSUME NEW i \in 1 .. Len(longer), NEW j \in 1 .. Len(longer), i < j
         PROVE  CapMap[longer[i]] < CapMap[longer[j]]
    <3>1. i \in 1 .. n
      BY <2>6, <2>7, <2>10
    <3>2. CASE j \in 1 .. n
      BY <1>1, <2>6, <2>7, <2>10, <3>1, <3>2
    <3>3. CASE j = n + 1
      <4>1. CapMap[names[i]] < bit
        BY <1>1, <2>6, <2>7, <3>1
      <4> QED BY <2>2, <2>7, <3>1, <3>3, <4>1
    <3> QED BY <2>6, <2>7, <3>2, <3>3
  <2> QED BY <2>5, <2>7, <2>8, <2>9, <2>10 DEF NamesBelow
<1> QED
  BY <1>3, <1>4

\* All bits of a mask are looked at.
LEMMA NamesOfMask ==
    ASSUME NEW mask, NEW names, names = Capabilities(mask, 4)
    PROVE  NamesBelow(names, MaskBits, mask)
<1>0. MaskBits \in Nat
  BY MaskAssumption
<1> DEFINE Def(g) == [n \in 0 .. MaskBits |-> IF n = 0 THEN <<>> ELSE AfterBit(g[n - 1], n - 1, mask, 4)]
<1>1. PICK V, base : V = Seq(DOMAIN CapMap) /\ base = <<>>
  OBVIOUS
<1>2. PICK step \in [(1 .. MaskBits) \X V -> V] :
          \A k \in 1 .. MaskBits, v \in V : step[<<k, v>>] = AfterBit(v, k - 1, mask, 4)
  <2> DEFINE step == [p \in (1 .. MaskBits) \X V |-> AfterBit(p[2], p[1] - 1, mask, 4)]
  <2>1. step \in [(1 .. MaskBits) \X V -> V]
    <3>1. ASSUME NEW p \in (1 .. MaskBits) \X V PROVE AfterBit(p[2], p[1] - 1, mask, 4) \in V
      <4>1. PICK v, bit : v = p[2] /\ bit = p[1] - 1 /\ v \in Seq(DOMAIN CapMap)
        BY <1>1
      <4>2. bit \in Range(CapMap) => Append(v, CapName(bit)) \in Seq(DOMAIN CapMap)
        BY <4>1, CapFacts
      <4>3. AfterBit(v, bit, mask, 4) \in Seq(DOMAIN CapMap)
        BY <4>1, <4>2 DEF AfterBit
      <4> QED BY <1>1, <4>1, <4>3
    <3> QED BY <3>1
  <2>2. \A k \in 1 .. MaskBits, v \in V : step[<<k, v>>] = AfterBit(v, k - 1, mask, 4)
    OBVIOUS
  <2> HIDE DEF step
  <2> QED BY <2>1, <2>2
<1>3. PICK g \in PrefixFolds(MaskBits, V, base, step) : TRUE
  <2>1. base \in V
    BY <1>1
  <2> QED BY <1>0, <2>1, PrefixExists
<1>4. /\ g \in [0 .. MaskBits -> V] /\ g[0] = base
      /\ \A k \in 1 .. MaskBits : g[k] = step[<<k, g[k - 1]>>]
  BY DEF PrefixFolds
<1>5. g = Def(g)
  <2>1. ASSUME NEW k \in 1 .. MaskBits PROVE g[k] = AfterBit(g[k - 1], k - 1, mask, 4)
    <3>1. k - 1 \in 0 .. MaskBits
      BY <1>0
    <3> QED BY <1>2, <1>4, <3>1
  <2>2. \A k \in 0 .. MaskBits : k # 0 => k \in 1 .. MaskBits
    BY <1>0
  <2> QED BY <1>1, <1>4, <2>1, <2>2
<1>6. PICK h : h = Def(h) /\ names = h[MaskBits]
  <2>1. Capabilities(mask, 4) = (CHOOSE f : f = Def(f))[MaskBits]
    BY Zenon DEF Capabilities
  <2> HIDE DEF Def
  <2> QED BY <1>5, <2>1, Zenon
<1>7. h[0] = <<>> /\ \A k \in 1 .. MaskBits : h[k] = AfterBit(h[k - 1], k - 1, mask, 4)
  <2>1. h[0] = <<>>
    BY <1>0, <1>6
  <2>2. ASSUME NEW k \in 1 .. MaskBits PROVE h[k] = AfterBit(h[k - 1], k - 1, mask, 4)
    <3>1. k \in 0 .. MaskBits /\ k # 0
      BY <1>0
    <3>2. Def(h)[k] = AfterBit(h[k - 1], k - 1, mask, 4)
      BY <3>1
    <3> HIDE DEF Def
    <3> QED BY <1>6, <3>2
  <2> QED BY <2>1, <2>2
<1>8. \A k \in Nat : k \in {j \in Nat : j <= MaskBits => NamesBelow(h[j], j, mask)}
  <2> DEFINE S == {j \in Nat : j <= MaskBits => NamesBelow(h[j], j, mask)}
  <2>1. NamesBelow(<<>>, 0, mask)
    <3>1. Len(<<>>) = 0 /\ <<>> \in Seq(DOMAIN CapMap)
      OBVIOUS
    <3>2. \A c \in DOMAIN CapMap : ~(CapMap[c] < 0)
      BY CapFacts
    <3>3. NamedBelow(0) = 0
      BY DEF NamedBelow
    <3> QED BY <3>1, <3>2, <3>3 DEF NamesBelow
  <2>2. 0 \in S
    BY <1>7, <2>1
  <2>3. ASSUME NEW k \in Nat, k \in S PROVE k + 1 \in S
    <3> SUFFICES ASSUME k + 1 <= MaskBits PROVE NamesBelow(h[k + 1], k + 1, mask)
      OBVIOUS
    <3>1. k + 1 \in 1 .. MaskBits /\ (k + 1) - 1 = k /\ NamesBelow(h[k], k, mask)
      BY <1>0, <2>3
    <3>2. h[k + 1] = AfterBit(h[k], k, mask, 4)
      BY <1>7, <3>1
    <3> QED BY <3>1, <3>2, NamesAfterBit
  <2> HIDE DEF S
  <2>4. \A k \in Nat : k \in S
    BY <2>2, <2>3, SetInduction
  <2> QED BY <2>4 DEF S
<1>9. NamesBelow(h[MaskBits], MaskBits, mask)
  <2>1. MaskBits \in {j \in Nat : j <= MaskBits => NamesBelow(h[j], j, mask)}
    BY <1>0, <1>8, Zenon
  <2> QED BY <1>0, <2>1
<1> QED
  BY <1>6, <1>9

-----------------------------------------------------------------------------
(* What the kernel's line says.                                            *)

\* The mask, if it was set, is this one.
MaskIs(next, value) == "CapAmb" \in DOMAIN next => next["CapAmb"] = Integer(value)

\* The line of the ambient set, if its number is published.
LEMMA AmbientLine ==
    ASSUME NEW line \in STRING \X Seq(0 .. 15), line[1] = "CapAmb",
           NEW value, value = Evaluated(16, line[2]),
           NEW told, told = StatusLine(line)
    PROVE  /\ DOMAIN told \subseteq {"CapAmb"}
           /\ MaskIs(told, value)
<1>1. PICK digits \in Seq(0 .. 15) : line[2] = digits
  OBVIOUS
<1>2. Base("CapAmb", digits) = 16
  BY DEF Base, Bitmaps
<1>3. Accepted(16, digits) = digits
  <2>1. ASSUME NEW i \in DOMAIN digits PROVE ~(digits[i] >= 16)
    <3>1. digits[i] \in 0 .. 15
      OBVIOUS
    <3> QED BY <3>1
  <2>2. {i \in DOMAIN digits : digits[i] >= 16} = {}
    BY <2>1, Zenon
  <2> QED BY <2>2 DEF Accepted
<1>4. told = Nothing \/ told = One("CapAmb", Integer(value))
  BY <1>1, <1>2, <1>3 DEF StatusLine
<1>5. DOMAIN Nothing = {}
  BY DEF Nothing, Named
<1>6. /\ DOMAIN One("CapAmb", Integer(value)) = {"CapAmb"}
      /\ One("CapAmb", Integer(value))["CapAmb"] = Integer(value)
  BY DEF One, Named
<1> QED
  BY <1>4, <1>5, <1>6 DEF MaskIs

\* Another line tells nothing of it.
LEMMA OtherLine ==
    ASSUME NEW line \in STRING \X Seq(0 .. 15), line[1] # "CapAmb"
    PROVE  "CapAmb" \notin DOMAIN StatusLine(line)
<1>1. DOMAIN Nothing = {}
  BY DEF Nothing, Named
<1>2. ASSUME NEW n PROVE DOMAIN One(line[1], Integer(n)) = {line[1]}
  BY DEF One, Named
<1>3. StatusLine(line) = Nothing \/ \E n : StatusLine(line) = One(line[1], Integer(n))
  BY Zenon DEF StatusLine
<1> QED
  BY <1>1, <1>2, <1>3

\* The lines of the file: a key and the digits of a number.
StatusLines == Seq(STRING \X Seq(0 .. 15))

\* Of the lines, the one with the mask's key tells it.
LEMMA MaskOfLines ==
    ASSUME NEW lines \in StatusLines,
           \A i, j \in DOMAIN lines : lines[i][1] = lines[j][1] => i = j,
           NEW next, next = OverLines(StatusLine, lines),
           NEW at \in DOMAIN lines, lines[at][1] = "CapAmb", "CapAmb" \in DOMAIN next
    PROVE  next["CapAmb"] = Integer(Evaluated(16, lines[at][2]))
<1>1. PICK n, maps : /\ n = Len(lines) /\ maps = [i \in DOMAIN lines |-> StatusLine(lines[i])]
                     /\ next = OverAll(maps)
  BY DEF OverLines
<1>2. n \in Nat /\ DOMAIN lines = 1 .. n /\ DOMAIN maps = 1 .. n
      /\ \A i \in 1 .. n : lines[i] \in STRING \X Seq(0 .. 15) /\ maps[i] = StatusLine(lines[i])
  BY <1>1 DEF StatusLines
<1>3. PICK i \in 1 .. n : "CapAmb" \in DOMAIN maps[i] /\ next["CapAmb"] = maps[i]["CapAmb"]
  <2>1. n \in Nat /\ DOMAIN maps = 1 .. n
    BY <1>2
  <2>2. \A x \in DOMAIN OverAll(maps) : \E i \in 1 .. n :
            /\ x \in DOMAIN maps[i] /\ OverAll(maps)[x] = maps[i][x]
            /\ \A j \in i + 1 .. n : x \notin DOMAIN maps[j]
    BY <2>1, LastIsOver, Zenon
  <2>3. next = OverAll(maps)
    BY <1>1
  <2> QED BY <2>2, <2>3
<1>4. lines[i][1] = "CapAmb"
  BY <1>2, <1>3, OtherLine
<1>5. i = at
  BY <1>2, <1>4
<1>6. PICK line, value, told : /\ line = lines[at] /\ value = Evaluated(16, line[2])
                               /\ told = StatusLine(line)
  OBVIOUS
<1>7. line \in STRING \X Seq(0 .. 15) /\ line[1] = "CapAmb" /\ told = maps[at]
  BY <1>2, <1>6
<1>8. "CapAmb" \in DOMAIN told => told["CapAmb"] = Integer(value)
  <2>1. MaskIs(told, value)
    BY <1>6, <1>7, AmbientLine
  <2> QED BY <2>1 DEF MaskIs
<1> QED
  <2>1. "CapAmb" \in DOMAIN told /\ next["CapAmb"] = told["CapAmb"]
    BY <1>3, <1>5, <1>7, Zenon
  <2> QED BY <1>6, <1>8, <2>1, Zenon

\* The names of a mask are those of its digits, in the order of their bits.
LEMMA NamesOfDigits ==
    ASSUME NEW digits \in Seq(0 .. 15), NEW names,
           names = Capabilities(Evaluated(16, digits), 4)
    PROVE  /\ Range(names) = AmbientSet(digits)
           /\ InBitOrder(names)
<1>1. PICK v : v = Evaluated(16, digits)
  OBVIOUS
<1>2. /\ names \in Seq(DOMAIN CapMap)
      /\ \A c \in DOMAIN CapMap :
             (\E i \in 1 .. Len(names) : names[i] = c)
                 <=> CapMap[c] < MaskBits /\ HasBit(v, CapMap[c])
      /\ \A i, j \in 1 .. Len(names) : i < j => CapMap[names[i]] < CapMap[names[j]]
  BY <1>1, NamesOfMask DEF NamesBelow
<1>3. ASSUME NEW c \in DOMAIN CapMap
      PROVE  (\E i \in 1 .. Len(names) : names[i] = c) <=> c \in AmbientSet(digits)
  <2>1. CapMap[c] < MaskBits
    BY CapFacts, MaskAssumption
  <2>2. \A b \in {12, 14, 21, 23} :
            HasBit(v, b) <=> b < 4 * Len(digits) /\ DigitBit(digits, b)
    BY <1>1, BitsOfDigits
  <2>3. PICK b \in {12, 14, 21, 23} : b = CapMap[c]
    BY CapFacts
  <2>4. HasBit(v, b) <=> b < 4 * Len(digits) /\ DigitBit(digits, b)
    BY <2>2
  <2> QED BY <1>2, <2>1, <2>3, <2>4 DEF AmbientSet
<1>4. Range(names) = AmbientSet(digits)
  <2>1. Range(names) = {names[i] : i \in 1 .. Len(names)}
    BY <1>2 DEF Range
  <2>2. \A i \in 1 .. Len(names) : names[i] \in DOMAIN CapMap
    BY <1>2
  <2>3. \A c \in AmbientSet(digits) : c \in DOMAIN CapMap
    BY DEF AmbientSet
  <2>4. \A c \in Range(names) : c \in AmbientSet(digits)
    BY <1>3, <2>1, <2>2
  <2>5. \A c \in AmbientSet(digits) : c \in Range(names)
    BY <1>3, <2>1, <2>3
  <2> QED BY <2>4, <2>5
<1>5. InBitOrder(names)
  BY <1>2 DEF InBitOrder
<1> QED
  BY <1>4, <1>5

\* Whatever the kernel's mask is, of whatever length: the record shows the names
\* of its bits that are known, in the order of the bits, and no other name.
THEOREM CapsAreNamed == Spec => []CapsNamed
<1>1. Told => CapsNamed
  <2> SUFFICES ASSUME Told, Fresh("procStatus"),
                      NEW at \in DOMAIN source.lines,
                      source.lines[at][1] = "CapAmb", Published("CapAmb"),
                      NEW names, names = Capabilities(Value("CapAmb"), 4)
               PROVE  /\ Range(names) = AmbientSet(source.lines[at][2])
                      /\ InBitOrder(names)
    BY Zenon DEF CapsNamed
  <2>1. /\ source.lines \in StatusLines /\ source # NoFile
        /\ \A i, j \in DOMAIN source.lines : source.lines[i][1] = source.lines[j][1] => i = j
        /\ current = ProcStatus(source).next
    BY LastRead DEF Fresh, FromSource, Memoryless, Tells, Readable, StatusLines
  <2>2. PICK lines : lines = source.lines
    OBVIOUS
  <2>3. current = OverLines(StatusLine, lines)
    BY <2>1, <2>2, Zenon DEF ProcStatus, Returns
  <2>4. PICK digits : digits = lines[at][2] /\ digits \in Seq(0 .. 15)
    BY <2>1, <2>2 DEF StatusLines
  <2>5. current["CapAmb"] = Integer(Evaluated(16, digits))
    BY <2>1, <2>2, <2>3, <2>4, MaskOfLines DEF Published
  <2>6. Value("CapAmb") = Evaluated(16, digits)
    BY <2>5 DEF Value, Integer
  <2>7. names = Capabilities(Evaluated(16, digits), 4)
    BY <2>6
  <2>8. /\ Range(names) = AmbientSet(digits)
        /\ InBitOrder(names)
    BY <2>4, <2>7, NamesOfDigits, Zenon
  <2> QED BY <2>2, <2>4, <2>8
<1> QED
  BY ToldInit, ToldStep, <1>1, PTL DEF Spec
=============================================================================
