---------------------------- MODULE MCPulseStream ----------------------------
(***************************************************************************)
(* Instances of PulseStream for TLC.                                       *)
(***************************************************************************)
EXTENDS PulseStream, TLC

\* The tables are interchangeable (safety runs only).
TableSymmetry == Permutations(Tables)
=============================================================================
