---------------------------- MODULE VenueRegistry ----------------------------
(***************************************************************************)
(* The host's venue registry (videre-host, registry.rs): calls of keeper    *)
(* modules resolve a venue id, pass a per-caller quota, wait for the        *)
(* venue's adapter slot and are served by the adapter; an accepted receipt  *)
(* goes under status watch.                                                 *)
(*                                                                          *)
(* One action is one critical section of the code: what runs between two    *)
(* awaits, or under one synchronous mutex.  Bodies, headers, quotations and *)
(* error texts are abstracted; the outcome of every adapter call is chosen  *)
(* freely.                                                                  *)
(***************************************************************************)
EXTENDS Integers, Sequences, FiniteSets

CONSTANTS
  Venues,      (* venue ids                                                *)
  MaxGen,      (* bound: adapters registered under one id, over time       *)
  Callers,     (* calling modules                                          *)
  Tasks,       (* host tasks, each driving one call at a time              *)
  CallerOf,    (* the module each task calls for                           *)
  Ops,         (* the operations the tasks use                             *)
  Receipts,    (* receipts a venue may answer                              *)
  MaxCharges,  (* configured SubmitQuota::max_charges                      *)
  Window,      (* SubmitQuota::window                                      *)
  MaxEntries,  (* configured WatchLimit::max_entries                       *)
  Grace,       (* WatchLimit::grace                                        *)
  MaxNow,      (* bound: the last instant of the clock                     *)
  Responsive,  (* venues whose adapter answers every call (fairness only)  *)
  Poller,      (* the status poll task, a slot holder (see StatusPoll)     *)
  None         (* no slot, no receipt, no holder                           *)

ASSUME RegistryConstants ==
  /\ IsFiniteSet(Tasks)
  /\ CallerOf \in [Tasks -> Callers]
  /\ Ops \subseteq {"submit", "quote", "observe", "status", "cancel"}
  /\ {MaxGen, MaxCharges, Window, MaxEntries, Grace, MaxNow} \subseteq Nat
  /\ Responsive \subseteq Venues
  /\ Poller \notin Tasks /\ None \notin Tasks /\ None # Poller
  /\ None \notin Receipts

VARIABLES
  gen,      (* per venue: the generation installed under its id, 0 for none *)
  alive,    (* per venue: the incumbent's Liveness                          *)
  owner,    (* per slot: who holds its async mutex                          *)
  ledger,   (* per caller: the instants of its charges, oldest first        *)
  watched,  (* the receipts under status watch                              *)
  now,      (* the monotonic clock                                          *)
  calls     (* per task: its call, in flight or last finished               *)

vars == <<gen, alive, owner, ledger, watched, now, calls>>

-----------------------------------------------------------------------------
(* A slot is one adapter behind its own async mutex. *)
Slots == Venues \X (1 .. MaxGen)

(* A call waits for no lock in "gate", "charge" and "observe", for the slot *)
(* in "lock", and is served inside the slot in the steps of Inside.         *)
Inside == {"derive", "post", "posted", "serve"}
Steps  == {"idle", "gate", "charge", "observe", "lock"} \cup Inside

Results == {"none", "unknown_venue", "dead", "rate_limited", "invalid_body",
            "derive_failed", "accepted", "signing", "failed", "served",
            "watch_full", "watching", "dropped"}

(* `charges` counts what the call cost its caller; it is not in the code. *)
Call == [pc : Steps, op : Ops \cup {"none"}, venue : Venues \cup {None},
         slot : Slots \cup {None}, receipt : Receipts \cup {None},
         charges : Nat, result : Results]

(* A call that has not started. *)
NoCall == [pc |-> "idle", op |-> "none", venue |-> None, slot |-> None,
           receipt |-> None, charges |-> 0, result |-> "none"]

(* The states IntentStatus knows; an entry that was never reported has none. *)
Lifecycle == {"pending", "open", "fulfilled", "cancelled", "expired"}

Watch == [venue : Venues, receipt : Receipts, last : Lifecycle \cup {"none"},
          expires : Nat]

(* VenueRegistryBuilder::build saturates both limits up to one. *)
AtLeastOne(n) == IF n = 0 THEN 1 ELSE n
ChargeCap == AtLeastOne(MaxCharges)
WatchCap  == AtLeastOne(MaxEntries)

TypeOK ==
  /\ gen \in [Venues -> 0 .. MaxGen]
  /\ alive \in [Venues -> BOOLEAN]
  /\ owner \in [Slots -> Tasks \cup {Poller, None}]
  /\ ledger \in [Callers -> Seq(Nat)]
  /\ watched \subseteq Watch
  /\ now \in Nat
  /\ calls \in [Tasks -> Call]

Init ==
  /\ gen = [v \in Venues |-> 0]
  /\ alive = [v \in Venues |-> FALSE]
  /\ owner = [s \in Slots |-> None]
  /\ ledger = [c \in Callers |-> <<>>]
  /\ watched = {}
  /\ now = 0
  /\ calls = [t \in Tasks |-> NoCall]

-----------------------------------------------------------------------------
(* Quota: a charge is an instant, and ages out of the window. *)

Aged(at) == now - at > Window

(* Variant: pops one aged charge, not every one (if for while). *)
PruneOnce(h) == IF h # <<>> /\ Aged(Head(h)) THEN Tail(h) ELSE h

(* Variant: a charge exactly as old as the window is dropped too. *)
PruneAtWindow(h) ==
  LET agedFront == {i \in DOMAIN h : \A j \in 1 .. i : now - h[j] >= Window}
  IN  SubSeq(h, Cardinality(agedFront) + 1, Len(h))

(* Drop the charges at the front of a history that have aged out. *)
Prune(h) ==
  LET agedFront == {i \in DOMAIN h : \A j \in 1 .. i : Aged(h[j])}
  IN  SubSeq(h, Cardinality(agedFront) + 1, Len(h))

(* Variant: admits one charge too many. *)
BudgetOffByOne(c) == Len(Prune(ledger[c])) <= ChargeCap

HasBudget(c) == Len(Prune(ledger[c])) < ChargeCap

(* Record one charge of caller c. *)
Charge(c) == ledger' = [ledger EXCEPT ![c] = Append(Prune(@), now)]

-----------------------------------------------------------------------------
(* Watch list: entries are unique per (venue, receipt) and expire. *)

Unexpired == {w \in watched : now < w.expires}

Watching(ws, v, r) == \E w \in ws : w.venue = v /\ w.receipt = r

(* Variant: expired entries still count against the cap. *)
AdmitsAmongExpired(v, r) ==
  Watching(Unexpired, v, r) \/ Cardinality(watched) < WatchCap

WatchAdmits(v, r) ==
  Watching(Unexpired, v, r) \/ Cardinality(Unexpired) < WatchCap

NewWatch(v, r) ==
  [venue |-> v, receipt |-> r, last |-> "none", expires |-> now + Grace]

(* Variant: no look for an entry of the same receipt. *)
PutWatchAgain(v, r) ==
  watched' = IF Cardinality(Unexpired) < WatchCap
             THEN Unexpired \cup {NewWatch(v, r)}
             ELSE Unexpired

(* Variant: at the cap an entry makes room for the new one. *)
PutWatchDisplacing(v, r) ==
  IF WatchAdmits(v, r) \/ Unexpired = {}
  THEN watched' = Unexpired \cup {NewWatch(v, r)}
  ELSE \E w \in Unexpired : watched' = (Unexpired \ {w}) \cup {NewWatch(v, r)}

(* Expired entries go first; a new entry at the cap is refused. *)
PutWatch(v, r) ==
  watched' = IF ~WatchAdmits(v, r) \/ Watching(Unexpired, v, r)
             THEN Unexpired
             ELSE Unexpired \cup {NewWatch(v, r)}

-----------------------------------------------------------------------------
(* Calls *)

Routable(v) == gen[v] > 0 /\ alive[v]

Caller(t) == CallerOf[t]

(* The call's end: what remains is its cost and its result. *)
Ended(c, result) ==
  [c EXCEPT !.pc = "idle", !.venue = None, !.slot = None, !.receipt = None,
            !.result = result]

Paid(c) == [c EXCEPT !.charges = @ + 1]

Finish(t, result) == calls' = [calls EXCEPT ![t] = Ended(@, result)]

FinishPaid(t, result) == calls' = [calls EXCEPT ![t] = Ended(Paid(@), result)]

Goto(t, step) == calls' = [calls EXCEPT ![t].pc = step]

(* The end of the guard's scope: the slot's mutex is unlocked. *)
Unlock(t) == owner' = [owner EXCEPT ![calls[t].slot] = None]

(* submit and quote pass the quota gate; observe only watches; status and   *)
(* cancel go straight to the slot.                                          *)
FirstStep(op) ==
  CASE op \in {"submit", "quote"} -> "gate"
    [] op = "observe"             -> "observe"
    [] OTHER                      -> "lock"

(* resolve: the call keeps the slot of the incumbent of this moment. *)
Resolve(t, op, v) ==
  /\ calls[t].pc = "idle"
  /\ Routable(v)
  /\ calls' = [calls EXCEPT ![t] =
                [NoCall EXCEPT !.pc = FirstStep(op), !.op = op, !.venue = v,
                               !.slot = <<v, gen[v]>>]]
  /\ UNCHANGED <<gen, alive, owner, ledger, watched, now>>

ResolveFails(t, op, v) ==
  /\ calls[t].pc = "idle"
  /\ ~Routable(v)
  /\ calls' = [calls EXCEPT ![t] =
                [NoCall EXCEPT !.op = op,
                               !.result = IF gen[v] = 0 THEN "unknown_venue"
                                                        ELSE "dead"]]
  /\ UNCHANGED <<gen, alive, owner, ledger, watched, now>>

(* quota_admits: a submit is charged later, a quote by its next step. *)
Gate(t) ==
  /\ calls[t].pc = "gate"
  /\ ledger' = [ledger EXCEPT ![Caller(t)] = Prune(@)]
  /\ IF HasBudget(Caller(t))
     THEN Goto(t, IF calls[t].op = "submit" THEN "lock" ELSE "charge")
     ELSE Finish(t, "rate_limited")
  /\ UNCHANGED <<gen, alive, owner, watched, now>>

ChargeQuote(t) ==
  /\ calls[t].pc = "charge"
  /\ Charge(Caller(t))
  /\ calls' = [calls EXCEPT ![t] = [Paid(@) EXCEPT !.pc = "lock"]]
  /\ UNCHANGED <<gen, alive, owner, watched, now>>

(* Variant: the slot does not exclude. *)
AcquireShared(t) ==
  /\ calls[t].pc = "lock"
  /\ owner' = [owner EXCEPT ![calls[t].slot] = t]
  /\ Goto(t, IF calls[t].op = "submit" THEN "derive" ELSE "serve")
  /\ UNCHANGED <<gen, alive, ledger, watched, now>>

(* Variant: one lock for the whole registry. *)
AcquireGlobal(t) ==
  /\ calls[t].pc = "lock"
  /\ \A s \in Slots : owner[s] = None
  /\ owner' = [owner EXCEPT ![calls[t].slot] = t]
  /\ Goto(t, IF calls[t].op = "submit" THEN "derive" ELSE "serve")
  /\ UNCHANGED <<gen, alive, ledger, watched, now>>

(* slot.lock().await returns. *)
Acquire(t) ==
  /\ calls[t].pc = "lock"
  /\ owner[calls[t].slot] = None
  /\ owner' = [owner EXCEPT ![calls[t].slot] = t]
  /\ Goto(t, IF calls[t].op = "submit" THEN "derive" ELSE "serve")
  /\ UNCHANGED <<gen, alive, ledger, watched, now>>

(* derive_header answers a header: charge, then the advisory guard, which   *)
(* never stops the call.                                                    *)
DeriveHeader(t) ==
  /\ calls[t].pc = "derive"
  /\ Charge(Caller(t))
  /\ calls' = [calls EXCEPT ![t] = [Paid(@) EXCEPT !.pc = "post"]]
  /\ UNCHANGED <<gen, alive, owner, watched, now>>

(* A body that does not decode is charged to the caller. *)
DeriveInvalid(t) ==
  /\ calls[t].pc = "derive"
  /\ Charge(Caller(t))
  /\ FinishPaid(t, "invalid_body")
  /\ Unlock(t)
  /\ UNCHANGED <<gen, alive, watched, now>>

(* Variant: every error of the derive stage is charged. *)
DeriveFailsPaid(t) ==
  /\ calls[t].pc = "derive"
  /\ Charge(Caller(t))
  /\ FinishPaid(t, "derive_failed")
  /\ Unlock(t)
  /\ UNCHANGED <<gen, alive, watched, now>>

(* Any other error of the derive stage is free. *)
DeriveFails(t) ==
  /\ calls[t].pc = "derive"
  /\ Finish(t, "derive_failed")
  /\ Unlock(t)
  /\ UNCHANGED <<gen, alive, ledger, watched, now>>

(* The venue takes the body; the adapter has not answered yet. *)
VenueTakes(t, r) ==
  /\ calls[t].pc = "post"
  /\ calls' = [calls EXCEPT ![t].pc = "posted", ![t].receipt = r]
  /\ UNCHANGED <<gen, alive, owner, ledger, watched, now>>

(* The adapter answers the receipt; it goes under watch before the slot is  *)
(* unlocked, and the caller is not told when the watch is refused.          *)
SubmitAccepted(t) ==
  /\ calls[t].pc = "posted"
  /\ PutWatch(calls[t].venue, calls[t].receipt)
  /\ Finish(t, "accepted")
  /\ Unlock(t)
  /\ UNCHANGED <<gen, alive, ledger, now>>

(* The adapter answers requires-signing, or an error (with the body taken   *)
(* or not).                                                                 *)
SubmitNotAccepted(t) ==
  /\ \/ calls[t].pc = "post" /\ Finish(t, "signing")
     \/ calls[t].pc \in {"post", "posted"} /\ Finish(t, "failed")
  /\ Unlock(t)
  /\ UNCHANGED <<gen, alive, ledger, watched, now>>

(* quote, status or cancel is answered. *)
Served(t) ==
  /\ calls[t].pc = "serve"
  /\ \/ Finish(t, "served")
     \/ Finish(t, "failed")
  /\ Unlock(t)
  /\ UNCHANGED <<gen, alive, ledger, watched, now>>

Observe(t, r) ==
  /\ calls[t].pc = "observe"
  /\ PutWatch(calls[t].venue, r)
  /\ Finish(t, IF WatchAdmits(calls[t].venue, r) THEN "watching" ELSE "watch_full")
  /\ UNCHANGED <<gen, alive, owner, ledger, now>>

(* The call's future is dropped at an await; its slot guard unlocks. *)
Drop(t) ==
  /\ calls[t].pc \in {"lock"} \cup Inside
  /\ Finish(t, "dropped")
  /\ IF calls[t].pc \in Inside THEN Unlock(t) ELSE UNCHANGED owner
  /\ UNCHANGED <<gen, alive, ledger, watched, now>>

-----------------------------------------------------------------------------
(* Venues and time *)

(* register refuses a duplicate of a live incumbent and replaces a dead one *)
(* by a new slot with a live flag.                                          *)
Register(v) ==
  /\ gen[v] < MaxGen
  /\ ~Routable(v)
  /\ gen' = [gen EXCEPT ![v] = @ + 1]
  /\ alive' = [alive EXCEPT ![v] = TRUE]
  /\ UNCHANGED <<owner, ledger, watched, now, calls>>

(* The holder of the incumbent's Liveness marks it dead or, recovered,      *)
(* alive; calls in flight are not told.                                     *)
MarkDead(v) ==
  /\ Routable(v)
  /\ alive' = [alive EXCEPT ![v] = FALSE]
  /\ UNCHANGED <<gen, owner, ledger, watched, now, calls>>

MarkAlive(v) ==
  /\ gen[v] > 0 /\ ~alive[v]
  /\ alive' = [alive EXCEPT ![v] = TRUE]
  /\ UNCHANGED <<gen, owner, ledger, watched, now, calls>>

Tick ==
  /\ now < MaxNow
  /\ now' = now + 1
  /\ UNCHANGED <<gen, alive, owner, ledger, watched, calls>>

-----------------------------------------------------------------------------
AdapterAnswers(t) ==
  \/ DeriveHeader(t)
  \/ DeriveInvalid(t)
  \/ DeriveFails(t)
  \/ \E r \in Receipts : VenueTakes(t, r)
  \/ SubmitAccepted(t)
  \/ SubmitNotAccepted(t)
  \/ Served(t)

RegistryStep(t) ==
  \/ Gate(t)
  \/ ChargeQuote(t)
  \/ \E r \in Receipts : Observe(t, r)

TaskStep(t) ==
  \/ \E op \in Ops, v \in Venues : Resolve(t, op, v) \/ ResolveFails(t, op, v)
  \/ RegistryStep(t)
  \/ Acquire(t)
  \/ AdapterAnswers(t)
  \/ Drop(t)

VenueStep(v) == Register(v) \/ MarkDead(v) \/ MarkAlive(v)

Next ==
  \/ \E t \in Tasks : TaskStep(t)
  \/ \E v \in Venues : VenueStep(v)
  \/ Tick

Spec == Init /\ [][Next]_vars

(* The runtime polls every task, tokio's mutex is first come first served,  *)
(* and a responsive venue's adapter answers.                                *)
Fairness ==
  \A t \in Tasks :
    /\ WF_vars(RegistryStep(t))
    /\ SF_vars(Acquire(t))
    /\ WF_vars(calls[t].venue \in Responsive /\ AdapterAnswers(t))

FairSpec == Spec /\ Fairness

-----------------------------------------------------------------------------
(* Properties *)

TasksOf(c) == {t \in Tasks : CallerOf[t] = c}

(* The charges of caller c that are still inside the window. *)
Recent(c) == Cardinality({i \in DOMAIN ledger[c] : ~Aged(ledger[c][i])})

(* The calls of caller c that passed the quota gate and are not yet charged. *)
Admitted(c) ==
  {t \in TasksOf(c) : \/ calls[t].pc = "charge"
                      \/ calls[t].op = "submit" /\ calls[t].pc \in {"lock", "derive"}}

(* registry.rs:315, 367: a call is inside an adapter exactly while it holds *)
(* the slot's mutex, so calls to one adapter serialise, and no way out of a *)
(* call (error, trap, dropped future) leaves the slot locked behind it.     *)
SlotGuarded ==
  /\ \A t \in Tasks : calls[t].pc \in Inside => owner[calls[t].slot] = t
  /\ \A s \in Slots : owner[s] \in Tasks =>
       calls[owner[s]].pc \in Inside /\ calls[owner[s]].slot = s

(* registry.rs:280-293, 310, 333: the gate and the charge are two critical  *)
(* sections with awaits between them, so a caller can overrun its budget,   *)
(* but never by more than its other concurrent calls: a caller with one     *)
(* call at a time keeps to it.                                              *)
QuotaBound ==
  \A c \in Callers :
    Len(ledger[c]) + Cardinality(Admitted(c)) <= ChargeCap - 1 + Cardinality(TasksOf(c))

(* policy.rs:46 says a caller accrues at most max_charges within a window.  *)
ChargesWithinBudget == \A c \in Callers : Recent(c) <= ChargeCap

(* registry.rs:295-299, 352-353: a call costs one charge when its header    *)
(* derived, its body did not decode, or it is a quote; it is paid before    *)
(* the adapter's submit or quote runs, never twice; every refusal and venue *)
(* fault before that, and status, cancel and observe, are free.             *)
ChargePolicy ==
  \A t \in Tasks : LET c == calls[t] IN
    /\ c.charges <= 1
    /\ \/ c.result \in {"accepted", "signing", "invalid_body"}
       \/ c.pc \in {"post", "posted"}
       \/ c.op = "quote" /\ c.pc \in {"lock", "serve"}
       \/ c.op \in {"submit", "quote"} /\ c.result \in {"failed", "served"}
       => c.charges = 1
    /\ \/ c.op \in {"status", "cancel", "observe"}
       \/ c.result \in {"unknown_venue", "dead", "rate_limited", "derive_failed"}
       => c.charges = 0

(* registry.rs:280-285, 575-584: pruning only the front of the history is   *)
(* enough. The gate opens exactly when fewer than max_charges charges are   *)
(* inside the window, so an exhausted caller recovers as the window slides. *)
GateCountsWindow == \A c \in Callers : HasBudget(c) <=> Recent(c) < ChargeCap

(* registry.rs:575-584: whatever touches the ledger, a charge is forgotten  *)
(* only once it has aged out, and charges stay in order.                    *)
LedgerForgetsOnlyAged ==
  [][\A c \in Callers : \E k \in 0 .. Len(ledger[c]) :
       /\ \A i \in 1 .. k : Aged(ledger[c][i])
       /\ Len(ledger[c]) - k <= Len(ledger'[c])
       /\ \A i \in 1 .. Len(ledger[c]) - k : ledger'[c][i] = ledger[c][i + k]]_vars

(* registry.rs:386-417: the watch list stays within its cap and holds one   *)
(* entry per (venue, receipt), whichever calls put receipts under watch.    *)
WatchBounded ==
  /\ Cardinality(watched) <= WatchCap
  /\ \A w, x \in watched : w.venue = x.venue /\ w.receipt = x.receipt => w = x

(* registry.rs:383-385: a watch is not dropped, nor its deadline moved, to  *)
(* make room for another.                                                   *)
WatchOutlivesOverflow == [][\A w \in watched \ watched' : w.expires <= now]_vars

(* registry.rs:343-347: an accepted receipt goes under watch unless the     *)
(* list is full of entries that have not expired.                           *)
AcceptedIsWatched ==
  [][\A t \in Tasks :
       calls[t].pc = "posted" /\ calls'[t].result = "accepted" =>
         \/ Watching(watched', calls[t].venue, calls[t].receipt)
         \/ Cardinality(watched') = WatchCap /\ \A w \in watched' : now < w.expires]_vars

(* registry.rs:6-7: calls to different venues run in parallel. A call to a  *)
(* venue that answers returns, even when another venue never answers and    *)
(* the calls to it wait forever.                                            *)
CallsReturn ==
  \A t \in Tasks :
    (calls[t].pc # "idle" /\ calls[t].venue \in Responsive) ~> (calls[t].pc = "idle")

=============================================================================
