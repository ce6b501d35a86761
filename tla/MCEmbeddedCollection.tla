------------------------- MODULE MCEmbeddedCollection -------------------------
(***************************************************************************)
(* Instances of EmbeddedCollection for TLC.                                *)
(***************************************************************************)
EXTENDS EmbeddedCollection, TLC

\* The contents the WHERE admits are interchangeable (safety runs only).
ContentSymmetry == Permutations(Matching)
=============================================================================
