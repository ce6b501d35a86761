-------------------------- MODULE MCRuntimeLifecycle --------------------------
(***************************************************************************)
(* Instances of RuntimeLifecycle for TLC: a running version of the         *)
(* application, and the next one, with one table less and a new shape.     *)
(***************************************************************************)
EXTENDS RuntimeLifecycle, TLC

CONSTANTS Old, New, Orders, Drivers

MCRegistered == Old :> {Orders, Drivers} @@ New :> {Orders}

MCShape ==
  Old :> [t \in Tables |-> "v1"] @@ New :> [t \in Tables |-> "v2"]
=============================================================================
