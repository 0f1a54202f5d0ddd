------------------------------ MODULE FoldLemmas ------------------------------
(***************************************************************************)
(* What the folds of the tables return: FoldLeft of the community modules  *)
(* is a recursive function over the sets of indices, taken apart at their  *)
(* greatest; OverAll and Sum are told here from one line, or column, to    *)
(* the next.                                                               *)
(***************************************************************************)
EXTENDS HostTables, FiniteSetTheorems, WellFoundedInduction, TLAPS

\* A non-empty set of naturals has a least element.
LEMMA LeastNatural ==
    ASSUME NEW T, T \subseteq Nat, T # {}
    PROVE  \E m \in T : \A k \in T : m <= k
<1> DEFINE R == OpToRel(<, Nat)
<1>1. R = {ss \in Nat \X Nat : ss[1] < ss[2]}
  BY DEF OpToRel
<1>2. IsWellFoundedOn(R, Nat)
  BY NatLessThanWellFounded
<1> HIDE DEF R
<1>3. PICK m \in T : \A k \in T : ~ (<<k, m>> \in R)
  BY <1>2, WFMin, Zenon
<1>4. ASSUME NEW k \in T PROVE m <= k
  <2>1. <<k, m>> \notin R /\ k \in Nat /\ m \in Nat
    BY <1>3
  <2>2. ~ (k < m)
    BY <2>1, <1>1
  <2> QED BY <2>1, <2>2
<1> QED
  BY <1>4

\* Induction over the naturals, by the least number that is not in a set: the
\* library's induction takes an operator, which the provers cannot instantiate.
LEMMA SetInduction ==
    ASSUME NEW S, 0 \in S, \A n \in Nat : n \in S => n + 1 \in S
    PROVE  \A n \in Nat : n \in S
<1> SUFFICES ASSUME NEW n \in Nat, n \notin S PROVE FALSE
  OBVIOUS
<1> DEFINE T == {k \in Nat : k \notin S}
<1>1. T \subseteq Nat /\ T # {}
  OBVIOUS
<1>2. PICK m \in T : \A k \in T : m <= k
  <2> HIDE DEF T
  <2> QED BY <1>1, LeastNatural
<1>3. m \in Nat /\ m # 0 /\ m \notin S
  OBVIOUS
<1>4. m - 1 \in Nat /\ m - 1 \in S
  BY <1>2, <1>3
<1> QED
  BY <1>3, <1>4

-----------------------------------------------------------------------------
\* Max(T) is the greatest of a bounded set of naturals.
LEMMA GreatestOf ==
    ASSUME NEW T, T \subseteq Nat, T # {}, NEW n \in Nat, \A k \in T : k <= n
    PROVE  Max(T) \in T /\ \A k \in T : k <= Max(T)
<1> DEFINE U == {n - k : k \in T}
<1>1. U \subseteq Nat /\ U # {}
  <2>1. \A k \in T : n - k \in Nat
    OBVIOUS
  <2> QED BY <2>1
<1>2. PICK m \in U : \A k \in U : m <= k
  <2> HIDE DEF U
  <2> QED BY <1>1, LeastNatural
<1>3. PICK x \in T : m = n - x
  BY <1>2
<1>4. \A k \in T : x >= k
  BY <1>2, <1>3
<1> QED
  BY <1>3, <1>4 DEF Max

\* Min(T) is the least of any set of naturals.
LEMMA LeastOf ==
    ASSUME NEW T, T \subseteq Nat, T # {}
    PROVE  Min(T) \in T /\ \A k \in T : Min(T) <= k
  BY LeastNatural DEF Min

\* A set of indices has a greatest one.
LEMMA GreatestOfPrefix ==
    ASSUME NEW n \in Nat, NEW t \in SUBSET (1 .. n), t # {}
    PROVE  Max(t) \in t /\ \A k \in t : k <= Max(t)
<1>1. t \subseteq Nat /\ \A k \in t : k <= n
  OBVIOUS
<1> QED BY <1>1, GreatestOf, Zenon

\* Of 1 .. n it is n, and the others are 1 .. n - 1.
LEMMA GreatestOfInterval ==
    ASSUME NEW n \in Nat \ {0}
    PROVE  Max(1 .. n) = n /\ (1 .. n) \ {Max(1 .. n)} = 1 .. n - 1
<1>1. n \in 1 .. n
  OBVIOUS
<1>2. Max(1 .. n) \in 1 .. n /\ n <= Max(1 .. n)
  BY <1>1, GreatestOfPrefix
<1> QED
  BY <1>2

\* The functions that fold the subsets of 1 .. n, taking the greatest last; and
\* those that fold the prefixes.
SetFolds(n, V, base, step) ==
    {g \in [SUBSET (1 .. n) -> V] : \A t \in SUBSET (1 .. n) :
        g[t] = IF t = {} THEN base ELSE step[<<Max(t), g[t \ {Max(t)}]>>]}
PrefixFolds(n, V, base, step) ==
    {h \in [0 .. n -> V] : h[0] = base /\ \A k \in 1 .. n : h[k] = step[<<k, h[k - 1]>>]}

\* The function of MapThenFoldSet, told from its step.
Iterates(iter, n, V, base, step) ==
    /\ iter[{}] = base
    /\ \A t \in SUBSET (1 .. n) : t # {} /\ iter[t \ {Max(t)}] \in V =>
           iter[t] = step[<<Max(t), iter[t \ {Max(t)}]>>]

OfPrefixes(iter, n) == [k \in 0 .. n |-> iter[1 .. k]]

\* There is such a function, whatever is folded.
LEMMA FoldExists ==
    ASSUME NEW n \in Nat, NEW V, NEW base \in V, NEW step \in [(1 .. n) \X V -> V]
    PROVE  SetFolds(n, V, base, step) # {}
<1> DEFINE Folding(m) == {g \in [SUBSET (1 .. m) -> V] : \A t \in SUBSET (1 .. m) :
               g[t] = IF t = {} THEN base ELSE step[<<Max(t), g[t \ {Max(t)}]>>]}
           S == {m \in Nat : m <= n => Folding(m) # {}}
<1>0. \A m \in Nat : m \in S <=> (m <= n => Folding(m) # {})
  <2> HIDE DEF Folding
  <2> QED OBVIOUS
<1> HIDE DEF S
<1>1. 0 \in S
  <2> DEFINE g == [t \in SUBSET (1 .. 0) |-> base]
  <2>1. SUBSET (1 .. 0) = {{}}
    OBVIOUS
  <2>2. g \in [SUBSET (1 .. 0) -> V] /\ g[{}] = base
    BY <2>1
  <2>3. g \in Folding(0)
    BY <2>1, <2>2
  <2> HIDE DEF Folding
  <2> QED BY <1>0, <2>3
<1>2. ASSUME NEW m \in Nat, m \in S PROVE m + 1 \in S
  <2> SUFFICES ASSUME m + 1 <= n PROVE Folding(m + 1) # {}
    <3> HIDE DEF Folding
    <3> QED BY <1>0
  <2>1. PICK f : f \in Folding(m)
    <3> HIDE DEF Folding
    <3>1. m <= n
      OBVIOUS
    <3> QED BY <1>0, <1>2, <3>1
  <2>2. /\ f \in [SUBSET (1 .. m) -> V]
        /\ \A t \in SUBSET (1 .. m) :
               f[t] = IF t = {} THEN base ELSE step[<<Max(t), f[t \ {Max(t)}]>>]
    BY <2>1
  <2> DEFINE g == [t \in SUBSET (1 .. m + 1) |->
                       IF m + 1 \in t THEN step[<<m + 1, f[t \ {m + 1}]>>] ELSE f[t]]
  <2>3. ASSUME NEW t \in SUBSET (1 .. m + 1), m + 1 \in t
        PROVE  /\ Max(t) = m + 1 /\ t \ {m + 1} \in SUBSET (1 .. m)
               /\ m + 1 \notin t \ {m + 1} /\ t \ {m + 1} \in SUBSET (1 .. m + 1)
    <3>1. Max(t) \in t /\ m + 1 <= Max(t)
      <4>1. m + 1 \in Nat /\ t # {}
        BY <2>3
      <4> HIDE DEF Folding
      <4> QED BY <2>3, <4>1, GreatestOfPrefix, Zenon
    <3>2. \A k \in 1 .. m + 1 : k >= m + 1 => k = m + 1
      OBVIOUS
    <3>3. \A k \in 1 .. m + 1 : k # m + 1 => k \in 1 .. m
      OBVIOUS
    <3> QED BY <3>1, <3>2, <3>3
  <2>4. ASSUME NEW t \in SUBSET (1 .. m + 1), m + 1 \notin t
        PROVE  t \in SUBSET (1 .. m)
    <3>1. \A k \in 1 .. m + 1 : k # m + 1 => k \in 1 .. m
      OBVIOUS
    <3> QED BY <2>4, <3>1
  <2>5. g \in [SUBSET (1 .. m + 1) -> V]
    <3>1. ASSUME NEW t \in SUBSET (1 .. m + 1)
          PROVE (IF m + 1 \in t THEN step[<<m + 1, f[t \ {m + 1}]>>] ELSE f[t]) \in V
      <4>1. CASE m + 1 \in t
        <5>1. f[t \ {m + 1}] \in V
          BY <2>2, <2>3, <4>1
        <5>2. m + 1 \in 1 .. n
          BY <1>2
        <5> QED BY <4>1, <5>1, <5>2
      <4>2. CASE m + 1 \notin t
        BY <2>2, <2>4, <4>2
      <4> QED BY <4>1, <4>2
    <3> QED BY <3>1
  <2>6. ASSUME NEW t \in SUBSET (1 .. m + 1)
        PROVE  g[t] = IF t = {} THEN base ELSE step[<<Max(t), g[t \ {Max(t)}]>>]
    <3>1. CASE m + 1 \in t
      <4>1. g[t] = step[<<m + 1, f[t \ {m + 1}]>>]
        BY <3>1
      <4>2. g[t \ {m + 1}] = f[t \ {m + 1}]
        BY <3>1, <2>3
      <4> HIDE DEF g
      <4> QED BY <3>1, <4>1, <4>2, <2>3
    <3>2. CASE m + 1 \notin t
      <4>1. t \in SUBSET (1 .. m)
        BY <3>2, <2>4
      <4>2. g[t] = f[t]
        BY <3>2
      <4>3. g[t \ {Max(t)}] = f[t \ {Max(t)}]
        BY <3>2, <4>1
      <4> HIDE DEF g
      <4> QED BY <4>1, <4>2, <4>3, <2>2
    <3> QED BY <3>1, <3>2
  <2>7. g \in Folding(m + 1)
    <3> HIDE DEF g
    <3> QED BY <2>5, <2>6
  <2> HIDE DEF Folding
  <2> QED BY <2>7
<1>3. n \in S
  BY <1>1, <1>2, SetInduction
<1>4. PICK g : g \in Folding(n)
  <2> HIDE DEF Folding
  <2> QED BY <1>0, <1>3
<1> QED
  BY <1>4 DEF SetFolds

\* What it computes, from prefix to prefix.
LEMMA FoldByPrefix ==
    ASSUME NEW n \in Nat, NEW V, NEW base \in V, NEW step \in [(1 .. n) \X V -> V],
           NEW iter, Iterates(iter, n, V, base, step)
    PROVE  OfPrefixes(iter, n) \in PrefixFolds(n, V, base, step)
<1> DEFINE h == [k \in 0 .. n |-> iter[1 .. k]]
           S == {k \in Nat : k <= n => iter[1 .. k] \in V}
<1> USE DEF Iterates
<1>0. 1 .. 0 = {}
  OBVIOUS
<1>1. 0 \in S
  BY <1>0
<1>2. ASSUME NEW k \in 1 .. n, iter[1 .. k - 1] \in V
      PROVE  iter[1 .. k] = step[<<k, iter[1 .. k - 1]>>] /\ iter[1 .. k] \in V
  <2>1. Max(1 .. k) = k /\ (1 .. k) \ {Max(1 .. k)} = 1 .. k - 1
    BY GreatestOfInterval
  <2>2. 1 .. k \in SUBSET (1 .. n) /\ 1 .. k # {}
    OBVIOUS
  <2>3. iter[1 .. k] = step[<<k, iter[1 .. k - 1]>>]
    BY <1>2, <2>1, <2>2
  <2> QED BY <1>2, <2>3
<1>3. ASSUME NEW k \in Nat, k \in S PROVE k + 1 \in S
  <2> SUFFICES ASSUME k + 1 <= n PROVE iter[1 .. k + 1] \in V
    OBVIOUS
  <2>1. k + 1 \in 1 .. n /\ (k + 1) - 1 = k /\ iter[1 .. k] \in V
    BY <1>3
  <2> QED BY <1>2, <2>1
<1>4. \A k \in 0 .. n : iter[1 .. k] \in V
  <2> HIDE DEF S
  <2>1. \A k \in Nat : k \in S
    BY <1>1, <1>3, SetInduction
  <2> QED BY <2>1 DEF S
<1>5. h \in [0 .. n -> V] /\ h[0] = base /\ iter[1 .. n] = h[n]
  BY <1>0, <1>4
<1>6. \A k \in 1 .. n : h[k] = step[<<k, h[k - 1]>>]
  <2> SUFFICES ASSUME NEW k \in 1 .. n PROVE h[k] = step[<<k, h[k - 1]>>]
    OBVIOUS
  <2>1. k - 1 \in 0 .. n /\ k \in 0 .. n
    OBVIOUS
  <2> QED BY <1>2, <1>4, <2>1
<1>7. OfPrefixes(iter, n) = h
  BY DEF OfPrefixes
<1> HIDE DEF h
<1> QED
  BY <1>5, <1>6, <1>7 DEF PrefixFolds

\* A function that is defined from prefix to prefix exists.
LEMMA PrefixExists ==
    ASSUME NEW n \in Nat, NEW V, NEW base \in V, NEW step \in [(1 .. n) \X V -> V]
    PROVE  PrefixFolds(n, V, base, step) # {}
<1>1. PICK g \in SetFolds(n, V, base, step) : TRUE
  BY FoldExists
<1>2. g[{}] = base /\ \A t \in SUBSET (1 .. n) : t # {} => g[t] = step[<<Max(t), g[t \ {Max(t)}]>>]
  BY DEF SetFolds
<1>3. Iterates(g, n, V, base, step)
  BY <1>2 DEF Iterates
<1> QED
  BY <1>3, FoldByPrefix

-----------------------------------------------------------------------------
\* Sum(s), a fold, is made number by number.
LEMMA SumByPrefix ==
    ASSUME NEW n \in Nat, NEW s \in [1 .. n -> Int]
    PROVE  \E h \in [0 .. n -> Int] : /\ h[0] = 0
                                      /\ \A k \in 1 .. n : h[k] = h[k - 1] + s[k]
                                      /\ Sum(s) = h[n]
<1> DEFINE Def(g) == [t \in SUBSET DOMAIN s |->
                          IF t = {} THEN 0 ELSE g[t \ {Max(t)}] + s[Max(t)]]
<1>1. PICK V, base : V = Int /\ base = 0
  OBVIOUS
<1>2. PICK step \in [(1 .. n) \X V -> V] : \A i \in 1 .. n, v \in Int : step[<<i, v>>] = v + s[i]
  <2> DEFINE step == [p \in (1 .. n) \X V |-> p[2] + s[p[1]]]
  <2>1. step \in [(1 .. n) \X V -> V]
    BY <1>1
  <2>2. \A i \in 1 .. n, v \in Int : step[<<i, v>>] = v + s[i]
    BY <1>1
  <2> HIDE DEF step
  <2> QED BY <2>1, <2>2
<1>3. base \in V
  BY <1>1
<1>4. PICK g \in SetFolds(n, V, base, step) : TRUE
  BY <1>3, FoldExists
<1>5. g = Def(g)
  <2>1. /\ g \in [SUBSET (1 .. n) -> V]
        /\ \A t \in SUBSET (1 .. n) :
               g[t] = IF t = {} THEN base ELSE step[<<Max(t), g[t \ {Max(t)}]>>]
    BY DEF SetFolds
  <2>2. ASSUME NEW t \in SUBSET (1 .. n)
        PROVE  g[t] = IF t = {} THEN 0 ELSE g[t \ {Max(t)}] + s[Max(t)]
    <3>1. CASE t = {}
      BY <1>1, <2>1, <3>1
    <3>2. CASE t # {}
      <4>1. Max(t) \in 1 .. n /\ t \ {Max(t)} \in SUBSET (1 .. n)
        BY <3>2, GreatestOfPrefix
      <4> QED BY <1>1, <1>2, <2>1, <3>2, <4>1
    <3> QED BY <3>1, <3>2
  <2> QED BY <2>1, <2>2
<1>6. PICK iter : iter = Def(iter) /\ Sum(s) = iter[1 .. n]
  <2>1. Sum(s) = (CHOOSE f : f = Def(f))[1 .. n]
    <3>1. DOMAIN s = 1 .. n
      OBVIOUS
    <3> QED BY <3>1, Zenon DEF Sum, FoldLeft, MapThenFoldSet
  <2> HIDE DEF Def
  <2> QED BY <1>5, <2>1, Zenon
<1>7. Iterates(iter, n, V, base, step)
  <2>1. iter[{}] = base
    BY <1>1, <1>6
  <2>2. ASSUME NEW t \in SUBSET (1 .. n), t # {}, iter[t \ {Max(t)}] \in V
        PROVE  iter[t] = step[<<Max(t), iter[t \ {Max(t)}]>>]
    <3>1. Max(t) \in 1 .. n
      BY <2>2, GreatestOfPrefix
    <3>2. iter[t] = iter[t \ {Max(t)}] + s[Max(t)]
      BY <1>6, <2>2
    <3> QED BY <1>1, <1>2, <2>2, <3>1, <3>2
  <2> QED BY <2>1, <2>2 DEF Iterates
<1>8. PICK h \in PrefixFolds(n, V, base, step) : iter[1 .. n] = h[n]
  <2>1. OfPrefixes(iter, n) \in PrefixFolds(n, V, base, step)
    BY <1>3, <1>7, FoldByPrefix
  <2>2. OfPrefixes(iter, n)[n] = iter[1 .. n]
    BY DEF OfPrefixes
  <2> QED BY <2>1, <2>2
<1>9. /\ h \in [0 .. n -> Int] /\ h[0] = 0
      /\ \A k \in 1 .. n : h[k] = step[<<k, h[k - 1]>>]
  BY <1>1 DEF PrefixFolds
<1>10. ASSUME NEW k \in 1 .. n PROVE h[k] = h[k - 1] + s[k]
  <2>1. h[k - 1] \in Int
    BY <1>9
  <2> QED BY <1>2, <1>9, <2>1
<1> QED
  BY <1>6, <1>8, <1>9, <1>10

-----------------------------------------------------------------------------
\* V is closed under what the maps are laid over.
OverStays(maps, n, V) == Nothing \in V /\ \A i \in 1 .. n, v \in V : Over(maps[i], v) \in V

\* What the first so many of the maps give, up to n of them.
OverPrefixes(maps, n, V) == {h \in [0 .. n -> V] :
    h[0] = Nothing /\ \A k \in 1 .. n : h[k] = Over(maps[k], h[k - 1])}

\* OverAll(maps), a fold, is made map by map.
LEMMA OverByPrefix ==
    ASSUME NEW n \in Nat, NEW maps, DOMAIN maps = 1 .. n, NEW V, OverStays(maps, n, V)
    PROVE  \E h \in OverPrefixes(maps, n, V) : OverAll(maps) = h[n]
<1> DEFINE Def(g) == [t \in SUBSET DOMAIN maps |->
                          IF t = {} THEN Nothing ELSE Over(maps[Max(t)], g[t \ {Max(t)}])]
<1>1. PICK base : base = Nothing
  OBVIOUS
<1>2. PICK step \in [(1 .. n) \X V -> V] : \A i \in 1 .. n, v \in V : step[<<i, v>>] = Over(maps[i], v)
  <2> DEFINE step == [p \in (1 .. n) \X V |-> Over(maps[p[1]], p[2])]
  <2>1. step \in [(1 .. n) \X V -> V] /\ \A i \in 1 .. n, v \in V : step[<<i, v>>] = Over(maps[i], v)
    BY DEF OverStays
  <2> HIDE DEF step
  <2> QED BY <2>1
<1>3. base \in V
  BY <1>1 DEF OverStays
<1>4. PICK g \in SetFolds(n, V, base, step) : TRUE
  BY <1>3, FoldExists
<1>5. g = Def(g)
  <2>1. /\ g \in [SUBSET (1 .. n) -> V]
        /\ \A t \in SUBSET (1 .. n) :
               g[t] = IF t = {} THEN base ELSE step[<<Max(t), g[t \ {Max(t)}]>>]
    BY DEF SetFolds
  <2>2. ASSUME NEW t \in SUBSET (1 .. n)
        PROVE  g[t] = IF t = {} THEN Nothing ELSE Over(maps[Max(t)], g[t \ {Max(t)}])
    <3>1. CASE t = {}
      BY <1>1, <2>1, <3>1
    <3>2. CASE t # {}
      <4>1. Max(t) \in 1 .. n /\ t \ {Max(t)} \in SUBSET (1 .. n)
        BY <3>2, GreatestOfPrefix
      <4> QED BY <1>1, <1>2, <2>1, <3>2, <4>1
    <3> QED BY <3>1, <3>2
  <2> QED BY <2>1, <2>2
<1>6. PICK iter : iter = Def(iter) /\ OverAll(maps) = iter[1 .. n]
  <2>1. OverAll(maps) = (CHOOSE f : f = Def(f))[1 .. n]
    BY Zenon DEF OverAll, FoldLeft, MapThenFoldSet
  <2> HIDE DEF Def
  <2> QED BY <1>5, <2>1, Zenon
<1>7. Iterates(iter, n, V, base, step)
  <2>1. iter[{}] = base
    BY <1>1, <1>6
  <2>2. ASSUME NEW t \in SUBSET (1 .. n), t # {}, iter[t \ {Max(t)}] \in V
        PROVE  iter[t] = step[<<Max(t), iter[t \ {Max(t)}]>>]
    <3>1. Max(t) \in 1 .. n
      BY <2>2, GreatestOfPrefix
    <3>2. iter[t] = Over(maps[Max(t)], iter[t \ {Max(t)}])
      BY <1>6, <2>2
    <3> QED BY <1>1, <1>2, <2>2, <3>1, <3>2
  <2> QED BY <2>1, <2>2 DEF Iterates
<1>8. PICK h \in PrefixFolds(n, V, base, step) : iter[1 .. n] = h[n]
  <2>1. OfPrefixes(iter, n) \in PrefixFolds(n, V, base, step)
    BY <1>3, <1>7, FoldByPrefix
  <2>2. OfPrefixes(iter, n)[n] = iter[1 .. n]
    BY DEF OfPrefixes
  <2> QED BY <2>1, <2>2
<1>9. /\ h \in [0 .. n -> V] /\ h[0] = Nothing
      /\ \A k \in 1 .. n : h[k] = step[<<k, h[k - 1]>>]
  BY <1>1 DEF PrefixFolds
<1>10. ASSUME NEW k \in 1 .. n PROVE h[k] = Over(maps[k], h[k - 1])
  <2>1. h[k - 1] \in V
    BY <1>9
  <2> QED BY <1>2, <1>9, <2>1
<1>11. h \in OverPrefixes(maps, n, V)
  BY <1>9, <1>10 DEF OverPrefixes
<1> QED
  BY <1>6, <1>8, <1>11

\* Nothing has no name.
LEMMA NothingIsEmpty == DOMAIN Nothing = {} /\ \A R : Nothing \in [{} -> R]
<1>1. {p[1] : p \in {}} = {}
  OBVIOUS
<1> QED
  BY <1>1 DEF Nothing, Named

\* What is laid over one another has every name of each, and the value of the
\* last that has the name.
LEMMA LastIsOver ==
    ASSUME NEW n \in Nat, NEW maps, DOMAIN maps = 1 .. n
    PROVE  /\ \A x : x \in DOMAIN OverAll(maps) <=> \E i \in 1 .. n : x \in DOMAIN maps[i]
           /\ \A x \in DOMAIN OverAll(maps) : \E i \in 1 .. n :
                  /\ x \in DOMAIN maps[i] /\ OverAll(maps)[x] = maps[i][x]
                  /\ \A j \in i + 1 .. n : x \notin DOMAIN maps[j]
<1> DEFINE X == UNION {DOMAIN maps[i] : i \in 1 .. n}
           R == UNION {{maps[i][x] : x \in DOMAIN maps[i]} : i \in 1 .. n}
           V == UNION {[D -> R] : D \in SUBSET X}
<1>1. Nothing \in V
  BY NothingIsEmpty
<1>2. ASSUME NEW i \in 1 .. n, NEW v \in V PROVE Over(maps[i], v) \in V
  <2>1. PICK D \in SUBSET X : v \in [D -> R]
    OBVIOUS
  <2>2. DOMAIN maps[i] \cup D \in SUBSET X
    OBVIOUS
  <2>3. \A x \in DOMAIN maps[i] \cup D : (IF x \in DOMAIN maps[i] THEN maps[i][x] ELSE v[x]) \in R
    BY <2>1
  <2>4. DOMAIN v = D
    BY <2>1
  <2> HIDE DEF R, X
  <2>5. Over(maps[i], v) \in [DOMAIN maps[i] \cup D -> R]
    BY <2>3, <2>4 DEF Over
  <2> QED BY <2>2, <2>5
<1> HIDE DEF V
<1>3. PICK h \in [0 .. n -> V] : /\ h[0] = Nothing
                                 /\ \A k \in 1 .. n : h[k] = Over(maps[k], h[k - 1])
                                 /\ OverAll(maps) = h[n]
  <2>1. OverStays(maps, n, V)
    BY <1>1, <1>2 DEF OverStays
  <2>2. PICK h \in OverPrefixes(maps, n, V) : OverAll(maps) = h[n]
    BY <2>1, OverByPrefix
  <2> QED BY <2>2 DEF OverPrefixes
<1> DEFINE Covers(k) ==
               /\ \A x : x \in DOMAIN h[k] <=> \E i \in 1 .. k : x \in DOMAIN maps[i]
               /\ \A x \in DOMAIN h[k] : \E i \in 1 .. k :
                      /\ x \in DOMAIN maps[i] /\ h[k][x] = maps[i][x]
                      /\ \A j \in i + 1 .. k : x \notin DOMAIN maps[j]
           S == {k \in Nat : k <= n => Covers(k)}
<1>4. Covers(0)
  BY <1>3, NothingIsEmpty
<1>5. ASSUME NEW k \in Nat, k + 1 <= n, Covers(k) PROVE Covers(k + 1)
  <2>1. h[k + 1] = Over(maps[k + 1], h[k])
    BY <1>3, <1>5
  <2>2. \A x : x \in DOMAIN h[k + 1] <=> x \in DOMAIN maps[k + 1] \/ x \in DOMAIN h[k]
    BY <2>1 DEF Over
  <2>3. \A x \in DOMAIN h[k + 1] :
            h[k + 1][x] = IF x \in DOMAIN maps[k + 1] THEN maps[k + 1][x] ELSE h[k][x]
    BY <2>1 DEF Over
  <2>4. \A i : i \in 1 .. k + 1 <=> i \in 1 .. k \/ i = k + 1
    OBVIOUS
  <2>5. ASSUME NEW x PROVE x \in DOMAIN h[k + 1] <=> \E i \in 1 .. k + 1 : x \in DOMAIN maps[i]
    BY <1>5, <2>2, <2>4
  <2>6. ASSUME NEW x \in DOMAIN h[k + 1]
        PROVE  \E i \in 1 .. k + 1 : /\ x \in DOMAIN maps[i] /\ h[k + 1][x] = maps[i][x]
                                     /\ \A j \in i + 1 .. k + 1 : x \notin DOMAIN maps[j]
    <3>1. CASE x \in DOMAIN maps[k + 1]
      <4>1. k + 1 \in 1 .. k + 1 /\ (k + 1) + 1 .. k + 1 = {}
        OBVIOUS
      <4> QED BY <2>3, <3>1, <4>1
    <3>2. CASE x \notin DOMAIN maps[k + 1]
      <4>1. x \in DOMAIN h[k] /\ h[k + 1][x] = h[k][x]
        BY <2>2, <2>3, <3>2
      <4>2. PICK i \in 1 .. k : /\ x \in DOMAIN maps[i] /\ h[k][x] = maps[i][x]
                                /\ \A j \in i + 1 .. k : x \notin DOMAIN maps[j]
        BY <1>5, <4>1
      <4>3. i \in 1 .. k + 1 /\ \A j \in i + 1 .. k + 1 : j \in i + 1 .. k \/ j = k + 1
        OBVIOUS
      <4> QED BY <3>2, <4>1, <4>2, <4>3
    <3> QED BY <3>1, <3>2
  <2> QED BY <2>5, <2>6
<1> HIDE DEF Covers
<1>6. 0 \in S /\ \A k \in Nat : k \in S => k + 1 \in S
  BY <1>4, <1>5
<1>7. n \in S
  <2> HIDE DEF S
  <2> QED BY <1>6, SetInduction
<1>8. Covers(n)
  BY <1>7
<1> QED
  BY <1>3, <1>8 DEF Covers

-----------------------------------------------------------------------------
(* Columns under their numbers                                             *)

NumbersApart(prefix) ==
    \A i, j \in Nat : ColumnName(prefix, i) = ColumnName(prefix, j) => i = j

\* The columns first, first + 1, ... of a line, those that are numbers.
HasColumns(next, prefix, first, tokens, n) ==
    /\ \A x \in DOMAIN next : \E i \in 1 .. n : x = ColumnName(prefix, first + i - 1)
    /\ \A i \in 1 .. n :
           IF tokens[i] = Bad THEN ColumnName(prefix, first + i - 1) \notin DOMAIN next
           ELSE /\ ColumnName(prefix, first + i - 1) \in DOMAIN next
                /\ next[ColumnName(prefix, first + i - 1)] = Integer(tokens[i])

ColumnByColumn(h, prefix, tokens, n) ==
    \A k \in 1 .. n : h[k] = WithColumn(prefix, h[k - 1], tokens[k])

\* Numbered() goes from column to column.
LEMMA NumberedByPrefix ==
    ASSUME NEW n \in Nat, NEW tokens, DOMAIN tokens = 1 .. n, NEW prefix,
           NEW first, NEW start, start = [column |-> first, next |-> Nothing],
           NEW V, start \in V,
           \A i \in 1 .. n, v \in V : WithColumn(prefix, v, tokens[i]) \in V
    PROVE  \E h \in [0 .. n -> V] : /\ h[0] = start
                                    /\ ColumnByColumn(h, prefix, tokens, n)
                                    /\ Numbered(prefix, first, tokens) = h[n].next
<1> DEFINE Def(g) == [t \in SUBSET DOMAIN tokens |->
                          IF t = {} THEN start
                          ELSE WithColumn(prefix, g[t \ {Max(t)}], tokens[Max(t)])]
           Whole == FoldLeft(LAMBDA at, m : WithColumn(prefix, at, m), start, tokens)
<1>1. PICK step \in [(1 .. n) \X V -> V] :
          \A i \in 1 .. n, v \in V : step[<<i, v>>] = WithColumn(prefix, v, tokens[i])
  <2> DEFINE step == [p \in (1 .. n) \X V |-> WithColumn(prefix, p[2], tokens[p[1]])]
  <2>1. /\ step \in [(1 .. n) \X V -> V]
        /\ \A i \in 1 .. n, v \in V : step[<<i, v>>] = WithColumn(prefix, v, tokens[i])
    OBVIOUS
  <2> HIDE DEF step
  <2> QED BY <2>1
<1>2. PICK g \in SetFolds(n, V, start, step) : TRUE
  BY FoldExists
<1>3. g = Def(g)
  <2>1. /\ g \in [SUBSET (1 .. n) -> V]
        /\ \A t \in SUBSET (1 .. n) :
               g[t] = IF t = {} THEN start ELSE step[<<Max(t), g[t \ {Max(t)}]>>]
    BY DEF SetFolds
  <2>2. ASSUME NEW t \in SUBSET (1 .. n), t # {}
        PROVE  g[t] = WithColumn(prefix, g[t \ {Max(t)}], tokens[Max(t)])
    <3>1. Max(t) \in 1 .. n /\ t \ {Max(t)} \in SUBSET (1 .. n)
      BY <2>2, GreatestOfPrefix
    <3> QED BY <1>1, <2>1, <2>2, <3>1
  <2> QED BY <2>1, <2>2
<1>4. PICK iter : iter = Def(iter) /\ Whole = iter[1 .. n]
  <2>1. Whole = (CHOOSE f : f = Def(f))[1 .. n]
    BY Zenon DEF FoldLeft, MapThenFoldSet
  <2> HIDE DEF Def, Whole
  <2> QED BY <1>3, <2>1, Zenon
<1> HIDE DEF Whole
<1>5. Iterates(iter, n, V, start, step)
  <2>1. iter[{}] = start
    BY <1>4
  <2>2. ASSUME NEW t \in SUBSET (1 .. n), t # {}, iter[t \ {Max(t)}] \in V
        PROVE  iter[t] = step[<<Max(t), iter[t \ {Max(t)}]>>]
    <3>1. Max(t) \in 1 .. n
      BY <2>2, GreatestOfPrefix
    <3>2. iter[t] = WithColumn(prefix, iter[t \ {Max(t)}], tokens[Max(t)])
      BY <1>4, <2>2
    <3> QED BY <1>1, <2>2, <3>1, <3>2
  <2> QED BY <2>1, <2>2 DEF Iterates
<1>6. PICK h \in PrefixFolds(n, V, start, step) : iter[1 .. n] = h[n]
  <2>1. OfPrefixes(iter, n) \in PrefixFolds(n, V, start, step)
    BY <1>5, FoldByPrefix
  <2>2. OfPrefixes(iter, n)[n] = iter[1 .. n]
    BY DEF OfPrefixes
  <2> QED BY <2>1, <2>2
<1>7. /\ h \in [0 .. n -> V] /\ h[0] = start
      /\ \A k \in 1 .. n : h[k] = step[<<k, h[k - 1]>>]
  BY DEF PrefixFolds
<1>8. ASSUME NEW k \in 1 .. n PROVE h[k] = WithColumn(prefix, h[k - 1], tokens[k])
  <2>1. h[k - 1] \in V
    BY <1>7
  <2> QED BY <1>1, <1>7, <2>1
<1>9. Numbered(prefix, first, tokens) = h[n].next
  <2>1. Numbered(prefix, first, tokens) = Whole.next
    BY Zenon DEF Numbered, Whole
  <2> QED BY <1>4, <1>6, <2>1
<1>10. ColumnByColumn(h, prefix, tokens, n)
  BY <1>8 DEF ColumnByColumn
<1> QED
  BY <1>7, <1>9, <1>10
===============================================================================
