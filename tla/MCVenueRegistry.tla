--------------------------- MODULE MCVenueRegistry ---------------------------
(* Instances of VenueRegistry for TLC. *)
EXTENDS VenueRegistry, TLC

CONSTANTS t1, t2, t3, c1, c2

(* Two tasks call for the same module. *)
SameCaller == [t \in Tasks |-> c1]

(* t3 calls for another module than t1 and t2. *)
TwoCallers == [t \in Tasks |-> IF t = t3 THEN c2 ELSE c1]

(* Receipts are interchangeable. *)
SameReceipts == Permutations(Receipts)
=============================================================================
