---------------------------- MODULE MCPullProtocol ----------------------------
(***************************************************************************)
(* Instances of PullProtocol for TLC.                                      *)
(***************************************************************************)
EXTENDS PullProtocol, TLC

\* The contents the WHERE admits are interchangeable (safety runs only).
ContentSymmetry == Permutations(Matching)
=============================================================================
