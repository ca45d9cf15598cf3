----------------------------- MODULE MCFlakyVenue -----------------------------
(* Instances of FlakyVenue for TLC. *)
EXTENDS FlakyVenue

CONSTANT c1

(* Every task calls for one module. *)
SameCaller == [t \in Tasks |-> c1]
=============================================================================
