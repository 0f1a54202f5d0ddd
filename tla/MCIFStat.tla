------------------------------- MODULE MCIFStat -------------------------------
(* A small instance of IFStat for TLC: the outstanding query, an abandoned one *)
(* before it, and room for the answers of both.                              *)
EXTENDS IFStat

CONSTANTS q1, q2, none, others

TwoQueries == {q1, q2}
=============================================================================
