------------------------------ MODULE StatusFeed ------------------------------
(***************************************************************************)
(* What the status poll promises the engine: one feed of the changes of     *)
(* every watched receipt.  A change is a later stage of its receipt's life  *)
(* than the one before it in the same watch, the change that settles a      *)
(* receipt ends its watch, and what is put on the feed comes off it in that *)
(* order and once, unless the feed is lossy.  Sweeps, snapshots, slots,     *)
(* calls, venues and the two queues are not part of the promise.            *)
(***************************************************************************)
EXTENDS Integers, Sequences

CONSTANTS
  Topics, (* the receipts that can be watched                              *)
  States, (* what can be said of one                                       *)
  Final,  (* the states that settle a receipt                              *)
  Rank,   (* per state: its stage of a receipt's life                      *)
  Lossy   (* a change may fail on its way                                  *)

VARIABLES
  known,  (* per topic: "unwatched", "none" (nothing told yet) or the last *)
          (* state told                                                    *)
  feed,   (* changes told and not yet heard                                *)
  open    (* somebody listens                                              *)

feedVars == <<known, feed, open>>

FeedInit ==
  /\ known = [k \in Topics |-> "unwatched"]
  /\ feed = <<>>
  /\ open = TRUE

(* Watches end without a word and others begin, never over a live one. *)
Rewatch(gone, fresh) ==
  /\ \A k \in fresh : k \in gone \/ known[k] = "unwatched"
  /\ known' = [k \in Topics |-> IF k \in fresh THEN "none"
                                ELSE IF k \in gone THEN "unwatched" ELSE known[k]]
  /\ UNCHANGED <<feed, open>>

(* A later state of a watched topic is told, once. *)
Tell(k, st) ==
  /\ known[k] # "unwatched"
  /\ known[k] # "none" => Rank[known[k]] < Rank[st]
  /\ known' = [known EXCEPT ![k] = IF st \in Final THEN "unwatched" ELSE st]
  /\ feed' = IF open THEN Append(feed, <<k, st>>) ELSE feed
  /\ UNCHANGED open

Hear == open /\ feed # <<>> /\ feed' = Tail(feed) /\ UNCHANGED <<known, open>>

(* One change, wherever it is on the feed, is lost; the others keep order.  *)
Lose(i) ==
  /\ Lossy
  /\ feed' = [j \in 1 .. Len(feed) - 1 |-> IF j < i THEN feed[j] ELSE feed[j + 1]]
  /\ UNCHANGED <<known, open>>

Close == open /\ open' = FALSE /\ feed' = <<>> /\ UNCHANGED known

FeedNext ==
  \/ \E gone, fresh \in SUBSET Topics : Rewatch(gone, fresh)
  \/ \E k \in Topics, st \in States : Tell(k, st)
  \/ Hear
  \/ \E i \in 1 .. Len(feed) : Lose(i)
  \/ Close

FeedSpec == FeedInit /\ [][FeedNext]_feedVars

=============================================================================
