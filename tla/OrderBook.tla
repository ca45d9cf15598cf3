------------------------------ MODULE OrderBook ------------------------------
(***************************************************************************)
(* What a keeper promises of the bodies it submits: an order exists only    *)
(* for a body its book has reserved, the book says "committed" only of an   *)
(* order that exists, gives a reservation up only when there is none or the *)
(* last it heard left that open, and a commitment is the end.  Runs, ticks, *)
(* budgets, faults and crashes are not part of the promise.                 *)
(***************************************************************************)
CONSTANT Bodies (* encoded intent bodies                                     *)

VARIABLES
  book,   (* per body: "none", "reserved" or "committed"                    *)
  orders, (* the bodies the venue holds an order for                        *)
  doubt   (* the bodies of which the last answer left that open             *)

bookVars == <<book, orders, doubt>>

BookInit == book = [b \in Bodies |-> "none"] /\ orders = {} /\ doubt = {}

SetBook(b, m) == book' = [book EXCEPT ![b] = m]

(* The body is about to be placed: it is new, or its order was lost sight of. *)
Reserve(b) ==
  /\ book[b] = "none" /\ (b \in orders => b \in doubt)
  /\ SetBook(b, "reserved")
  /\ UNCHANGED <<orders, doubt>>

(* The venue takes the order. *)
Place(b) ==
  /\ book[b] = "reserved" \/ b \in doubt
  /\ orders' = orders \cup {b}
  /\ UNCHANGED <<book, doubt>>

(* An answer comes, and tells what became of the order or leaves it open. *)
Hear(b) ==
  /\ book[b] = "reserved"
  /\ doubt' \in {doubt \cup {b}, doubt \ {b}}
  /\ UNCHANGED <<book, orders>>

(* The keeper learns of the order, ... *)
Confirm(b) ==
  /\ book[b] = "reserved" /\ b \in orders
  /\ SetBook(b, "committed")
  /\ UNCHANGED <<orders, doubt>>

(* ... or that there is none, as far as the answer tells. *)
GiveUp(b) ==
  /\ book[b] = "reserved" /\ (b \in orders => b \in doubt)
  /\ SetBook(b, "none")
  /\ UNCHANGED <<orders, doubt>>

BookNext == \E b \in Bodies : Reserve(b) \/ Place(b) \/ Hear(b) \/ Confirm(b) \/ GiveUp(b)

BookSpec == BookInit /\ [][BookNext]_bookVars

=============================================================================
