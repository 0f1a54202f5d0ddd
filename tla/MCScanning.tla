------------------------------ MODULE MCScanning ------------------------------
(* Small instances of Scanning for TLC. *)
EXTENDS Scanning, TLC

CONSTANTS s1, s2, c1, c2, c3, t1, t2, t3, l1, l2, p1, p2, x

TwoThreads == {p1, p2}
Symmetry == Permutations(TwoThreads)
ThreeTables == {t1, t2, t3}
TwoTables == {t1, t2}
OnlyT2 == {t2}
OnlyT3 == {t3}
OneParam == {x}
OneScan == {s1}
TwoScans == {s1, s2}
ThreeChains == {c1, c2, c3}
TwoChains == {c1, c2}
TwoLocks == {l1, l2}

\* A table per SCAN record, each read by a chain that shares its lock set with
\* the SCAN record of the other table; a table that publishes from replies, read
\* in one of these lock sets too.
CrossTable == s1 :> t1 @@ s2 :> t2 @@ c1 :> t1 @@ c2 :> t2 @@ c3 :> t3
CrossLock == s1 :> l1 @@ s2 :> l2 @@ c1 :> l2 @@ c2 :> l1 @@ c3 :> l1
CrossReads == c1 :> <<x, x>> @@ c2 :> <<x>> @@ c3 :> <<x>>

\* One SCAN record, its table's chain, and in its lock set the chain of a table
\* that publishes from replies.
OneTable == s1 :> t1 @@ c1 :> t1 @@ c2 :> t2
OneLock == s1 :> l1 @@ c1 :> l2 @@ c2 :> l1
OneReads == c1 :> <<x>> @@ c2 :> <<x>>
=============================================================================
