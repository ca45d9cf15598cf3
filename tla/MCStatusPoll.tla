----------------------------- MODULE MCStatusPoll -----------------------------
(* Instances of StatusPoll for TLC. *)
EXTENDS StatusPoll, TLC

CONSTANT c1

(* Every task calls for one module. *)
SameCaller == [t \in Tasks |-> c1]

(* The history of failed polls is kept for every receipt. *)
EveryReceipt == Venues \X Receipts

(* Receipts are interchangeable. *)
SameReceipts == Permutations(Receipts)
=============================================================================
