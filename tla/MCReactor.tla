------------------------------ MODULE MCReactor ------------------------------
(* Small instances of Reactor for TLC. *)
EXTENDS ReactorInv, TLC

CONSTANTS main, c1, c2, worker, j1, j2, j3, o1, o2, none

ThreeClients == {main, c1, c2}
TwoClients == {main, c1}
OneClient == {main}
ThreeJobs == {j1, j2, j3}
TwoJobs == {j1, j2}
OneJob == {j1}
NoJobs == {}
TwoOps == {o1, o2}
OneOp == {o1}
NoOps == {}
NoClients == {}
Symmetry == Permutations({j1, j2, j3}) \cup Permutations({o1, o2})
            \cup Permutations({c1, c2})
=============================================================================
