--------------------------- MODULE MCWindowedQuery ---------------------------
(***************************************************************************)
(* Instances of WindowedQuery for TLC.                                     *)
(***************************************************************************)
EXTENDS WindowedQuery, TLC

CONSTANTS Loaded, Row

\* The table before the first commit: the keys of Loaded, all with one content.
MCInitial == [k \in Keys |-> IF k \in Loaded THEN Row ELSE NoRow]
=============================================================================
