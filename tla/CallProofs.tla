----------------------------- MODULE CallProofs -----------------------------
(***************************************************************************)
(* Theorems about what a call of VenueRegistry costs, about the watch list  *)
(* it leaves behind and about the quota ledger it is charged to, for every  *)
(* set of venues, callers, tasks and receipts and every limit.              *)
(***************************************************************************)
EXTENDS VenueRegistryProofs

(* What ChargePolicy says of one call. *)
Priced(c) ==
  /\ c.charges <= 1
  /\ \/ c.result \in {"accepted", "signing", "invalid_body"}
     \/ c.pc \in {"post", "posted"}
     \/ c.op = "quote" /\ c.pc \in {"lock", "serve"}
     \/ c.op \in {"submit", "quote"} /\ c.result \in {"failed", "served"}
     => c.charges = 1
  /\ \/ c.op \in {"status", "cancel", "observe"}
     \/ c.result \in {"unknown_venue", "dead", "rate_limited", "derive_failed"}
     => c.charges = 0

(* The charge a call in flight has paid by its step. *)
Due(c) == IF c.pc \in {"post", "posted"} \/ (c.op = "quote" /\ c.pc \in {"lock", "serve"})
          THEN 1 ELSE 0

(* A call in flight has no result, is at a step of its operation, and has   *)
(* paid exactly what that step takes.                                       *)
InOrder(c) ==
  c.pc # "idle" =>
    /\ c.result = "none"
    /\ c.charges = Due(c)
    /\ c.pc = "gate" => c.op \in {"submit", "quote"}
    /\ c.pc = "charge" => c.op = "quote"
    /\ c.pc = "observe" => c.op = "observe"
    /\ c.pc = "lock" => c.op \in {"submit", "quote", "status", "cancel"}
    /\ c.pc = "serve" => c.op \in {"quote", "status", "cancel"}
    /\ c.pc \in {"derive", "post", "posted"} => c.op = "submit"

Billed(c) == Priced(c) /\ InOrder(c)

AllBilled == \A t \in Tasks : Billed(calls[t])

(* The parts of a call that its bill depends on. *)
LEMMA BillParts ==
  ASSUME NEW c, NEW d, c.pc = d.pc, c.op = d.op, c.result = d.result, c.charges = d.charges
  PROVE  Billed(c) <=> Billed(d)
BY DEF Billed, Priced, InOrder, Due

(* A step of one task changes that task's call only. *)
LEMMA OneBill ==
  ASSUME RegistryInv, AllBilled, NEW t \in Tasks, NEW c,
         Billed(c), calls' = [calls EXCEPT ![t] = c]
  PROVE  AllBilled'
<1>1. \A u \in Tasks : calls'[u] = IF u = t THEN c ELSE calls[u]
  BY DEF RegistryInv, TypeOK
<1>2. \A u \in Tasks : Billed(calls'[u])
  BY <1>1 DEF AllBilled
<1> QED  BY <1>2 DEF AllBilled, Billed, Priced, InOrder, Due

(* What a call looks like after it ended, and after it moved on. *)
LEMMA EndParts ==
  ASSUME NEW c \in Call, NEW result
  PROVE  /\ Ended(c, result).pc = "idle" /\ Ended(c, result).op = c.op
         /\ Ended(c, result).result = result /\ Ended(c, result).charges = c.charges
         /\ Ended(Paid(c), result).pc = "idle" /\ Ended(Paid(c), result).op = c.op
         /\ Ended(Paid(c), result).result = result
         /\ Ended(Paid(c), result).charges = c.charges + 1
<1>1. ASSUME NEW d \in Call
      PROVE  /\ Ended(d, result).pc = "idle" /\ Ended(d, result).op = d.op
             /\ Ended(d, result).result = result /\ Ended(d, result).charges = d.charges
  BY <1>1 DEF Ended, Call
<1>2. Paid(c) \in Call /\ Paid(c).op = c.op /\ Paid(c).charges = c.charges + 1
  BY DEF Paid, Call
<1> QED  BY <1>1, <1>2

LEMMA MoveParts ==
  ASSUME NEW c \in Call, NEW step
  PROVE  /\ [c EXCEPT !.pc = step].pc = step /\ [c EXCEPT !.pc = step].op = c.op
         /\ [c EXCEPT !.pc = step].result = c.result
         /\ [c EXCEPT !.pc = step].charges = c.charges
         /\ [Paid(c) EXCEPT !.pc = step].pc = step /\ [Paid(c) EXCEPT !.pc = step].op = c.op
         /\ [Paid(c) EXCEPT !.pc = step].result = c.result
         /\ [Paid(c) EXCEPT !.pc = step].charges = c.charges + 1
BY DEF Paid, Call

-----------------------------------------------------------------------------
(* Every action leaves the bills in order: a call pays as it enters the     *)
(* step that its charge belongs to, or as it ends on an invalid body.       *)
LEMMA BilledStep ==
  ASSUME RegistryInv, AllBilled, [Next]_vars
  PROVE  AllBilled'
<1>types. \A t \in Tasks : calls[t] \in Call /\ Billed(calls[t])
  BY DEF RegistryInv, TypeOK, AllBilled
<1>funs. calls \in [Tasks -> Call]
  BY DEF RegistryInv, TypeOK
<1>ended. ASSUME NEW t \in Tasks, NEW r, Finish(t, r),
                 \A c : /\ c.pc = "idle" /\ c.op = calls[t].op /\ c.result = r
                        /\ c.charges = calls[t].charges
                        => Priced(c)
          PROVE  AllBilled'
  <2> DEFINE c == Ended(calls[t], r)
  <2>1. Priced(c) /\ c.pc = "idle"
    BY <1>ended, <1>types, EndParts
  <2>2. Billed(c)
    BY <2>1 DEF Billed, InOrder
  <2>3. calls' = [calls EXCEPT ![t] = c]
    BY <1>ended DEF Finish
  <2> HIDE DEF c
  <2> QED  BY <2>2, <2>3, OneBill
<1>moved. ASSUME NEW t \in Tasks, NEW step, Goto(t, step), calls[t].pc # "idle",
                 \A c : /\ c.pc = step /\ c.op = calls[t].op /\ c.result = "none"
                        /\ c.charges = calls[t].charges
                        => Billed(c)
          PROVE  AllBilled'
  <2> DEFINE c == [calls[t] EXCEPT !.pc = step]
  <2>1. c.pc = step /\ c.op = calls[t].op /\ c.result = "none" /\ c.charges = calls[t].charges
    BY <1>moved, <1>types, MoveParts DEF Billed, InOrder
  <2>2. calls' = [calls EXCEPT ![t] = c]
    BY <1>moved, <1>funs DEF Goto
  <2> HIDE DEF c
  <2>3. Billed(c)
    BY <2>1, <1>moved
  <2> QED  BY <2>2, <2>3, OneBill
<1>paid. ASSUME NEW t \in Tasks, NEW step, calls[t].pc # "idle",
                calls' = [calls EXCEPT ![t] = [Paid(@) EXCEPT !.pc = step]],
                \A c : /\ c.pc = step /\ c.op = calls[t].op /\ c.result = "none"
                       /\ c.charges = calls[t].charges + 1
                       => Billed(c)
         PROVE  AllBilled'
  <2> DEFINE c == [Paid(calls[t]) EXCEPT !.pc = step]
  <2>1. /\ c.pc = step /\ c.op = calls[t].op /\ c.result = "none"
        /\ c.charges = calls[t].charges + 1
    BY <1>paid, <1>types, MoveParts DEF Billed, InOrder
  <2>2. calls' = [calls EXCEPT ![t] = c]
    BY <1>paid
  <2> HIDE DEF c
  <2>3. Billed(c)
    BY <2>1, <1>paid
  <2> QED  BY <2>2, <2>3, OneBill
<1>a. ASSUME NEW t \in Tasks, NEW op \in Ops, NEW v \in Venues, Resolve(t, op, v)
      PROVE  AllBilled'
  <2> DEFINE c == [NoCall EXCEPT !.pc = FirstStep(op), !.op = op, !.venue = v,
                                 !.slot = <<v, gen[v]>>]
  <2>1. c.pc = FirstStep(op) /\ c.op = op /\ c.result = "none" /\ c.charges = 0
    BY DEF NoCall
  <2>2. calls' = [calls EXCEPT ![t] = c]
    BY <1>a DEF Resolve
  <2> HIDE DEF c
  <2>3. op \in {"submit", "quote", "observe", "status", "cancel"}
    BY RegistryConstants
  <2>4. Billed(c)
    BY <2>1, <2>3 DEF Billed, Priced, InOrder, Due, FirstStep
  <2> QED  BY <2>2, <2>4, OneBill
<1>b. ASSUME NEW t \in Tasks, NEW op \in Ops, NEW v \in Venues, ResolveFails(t, op, v)
      PROVE  AllBilled'
  <2> DEFINE r == IF gen[v] = 0 THEN "unknown_venue" ELSE "dead"
             c == [NoCall EXCEPT !.op = op, !.result = r]
  <2>1. c.pc = "idle" /\ c.op = op /\ c.result = r /\ c.charges = 0
    BY DEF NoCall
  <2>2. calls' = [calls EXCEPT ![t] = c]
    BY <1>b DEF ResolveFails
  <2>3. r \in {"unknown_venue", "dead"}
    OBVIOUS
  <2> HIDE DEF c, r
  <2>4. Billed(c)
    BY <2>1, <2>3 DEF Billed, Priced, InOrder
  <2> QED  BY <2>2, <2>4, OneBill
<1>c. ASSUME NEW t \in Tasks, Gate(t)
      PROVE  AllBilled'
  <2>1. /\ calls[t].pc = "gate" /\ calls[t].op \in {"submit", "quote"} /\ calls[t].charges = 0
    BY <1>c, <1>types DEF Gate, Billed, InOrder, Due
  <2>2. CASE Finish(t, "rate_limited")
    BY <2>1, <2>2, <1>ended DEF Priced
  <2>3. CASE Goto(t, IF calls[t].op = "submit" THEN "lock" ELSE "charge")
    BY <2>1, <2>3, <1>moved DEF Billed, Priced, InOrder, Due
  <2> QED  BY <1>c, <2>2, <2>3 DEF Gate
<1>d. ASSUME NEW t \in Tasks, ChargeQuote(t)
      PROVE  AllBilled'
  <2>1. calls[t].pc = "charge" /\ calls[t].op = "quote" /\ calls[t].charges = 0
    BY <1>d, <1>types DEF ChargeQuote, Billed, InOrder, Due
  <2>2. calls' = [calls EXCEPT ![t] = [Paid(@) EXCEPT !.pc = "lock"]]
    BY <1>d DEF ChargeQuote
  <2>3. \A c : /\ c.pc = "lock" /\ c.op = calls[t].op /\ c.result = "none"
              /\ c.charges = calls[t].charges + 1
              => Billed(c)
    BY <2>1 DEF Billed, Priced, InOrder, Due
  <2>4. calls[t].pc # "idle"
    BY <2>1
  <2> QED  BY <2>2, <2>3, <2>4, <1>paid
<1>e. ASSUME NEW t \in Tasks, NEW r \in Receipts, Observe(t, r)
      PROVE  AllBilled'
  <2>1. calls[t].pc = "observe" /\ calls[t].op = "observe" /\ calls[t].charges = 0
    BY <1>e, <1>types DEF Observe, Billed, InOrder, Due
  <2>2. PICK result \in {"watching", "watch_full"} : Finish(t, result)
    BY <1>e DEF Observe
  <2> QED  BY <2>1, <2>2, <1>ended DEF Priced
<1>f. ASSUME NEW t \in Tasks, Acquire(t)
      PROVE  AllBilled'
  <2>1. /\ calls[t].pc = "lock" /\ calls[t].op \in {"submit", "quote", "status", "cancel"}
        /\ calls[t].charges = IF calls[t].op = "quote" THEN 1 ELSE 0
    BY <1>f, <1>types DEF Acquire, Billed, InOrder, Due
  <2>2. Goto(t, IF calls[t].op = "submit" THEN "derive" ELSE "serve")
    BY <1>f DEF Acquire
  <2> QED  BY <2>1, <2>2, <1>moved DEF Billed, Priced, InOrder, Due
<1>g. ASSUME NEW t \in Tasks, DeriveHeader(t)
      PROVE  AllBilled'
  <2>1. calls[t].pc = "derive" /\ calls[t].op = "submit" /\ calls[t].charges = 0
    BY <1>g, <1>types DEF DeriveHeader, Billed, InOrder, Due
  <2>2. calls' = [calls EXCEPT ![t] = [Paid(@) EXCEPT !.pc = "post"]]
    BY <1>g DEF DeriveHeader
  <2>3. \A c : /\ c.pc = "post" /\ c.op = calls[t].op /\ c.result = "none"
              /\ c.charges = calls[t].charges + 1
              => Billed(c)
    BY <2>1 DEF Billed, Priced, InOrder, Due
  <2>4. calls[t].pc # "idle"
    BY <2>1
  <2> QED  BY <2>2, <2>3, <2>4, <1>paid
<1>h. ASSUME NEW t \in Tasks, DeriveInvalid(t)
      PROVE  AllBilled'
  <2> DEFINE c == Ended(Paid(calls[t]), "invalid_body")
  <2>1. calls[t].op = "submit" /\ calls[t].charges = 0
    BY <1>h, <1>types DEF DeriveInvalid, Billed, InOrder, Due
  <2>2. c.pc = "idle" /\ c.op = "submit" /\ c.result = "invalid_body" /\ c.charges = 1
    BY <1>types, <2>1, EndParts
  <2>3. calls' = [calls EXCEPT ![t] = c]
    BY <1>h DEF DeriveInvalid, FinishPaid
  <2> HIDE DEF c
  <2>4. Billed(c)
    BY <2>2 DEF Billed, Priced, InOrder
  <2> QED  BY <2>3, <2>4, OneBill
<1>i. ASSUME NEW t \in Tasks, DeriveFails(t)
      PROVE  AllBilled'
  <2>1. /\ calls[t].op = "submit" /\ calls[t].charges = 0 /\ Finish(t, "derive_failed")
    BY <1>i, <1>types DEF DeriveFails, Billed, InOrder, Due
  <2> QED  BY <2>1, <1>ended DEF Priced
<1>j. ASSUME NEW t \in Tasks, NEW r \in Receipts, VenueTakes(t, r)
      PROVE  AllBilled'
  <2> DEFINE c == [calls[t] EXCEPT !.pc = "posted", !.receipt = r]
  <2>1. /\ calls[t].op = "submit" /\ calls[t].charges = 1 /\ calls[t].result = "none"
    BY <1>j, <1>types DEF VenueTakes, Billed, InOrder, Due
  <2>2. c.pc = "posted" /\ c.op = "submit" /\ c.result = "none" /\ c.charges = 1
    BY <2>1, <1>types DEF Call
  <2>3. calls' = [calls EXCEPT ![t] = c]
    BY <1>j, <1>funs DEF VenueTakes
  <2> HIDE DEF c
  <2>4. Billed(c)
    BY <2>2 DEF Billed, Priced, InOrder, Due
  <2> QED  BY <2>3, <2>4, OneBill
<1>k. ASSUME NEW t \in Tasks, SubmitAccepted(t) \/ SubmitNotAccepted(t)
      PROVE  AllBilled'
  <2>1. calls[t].op = "submit" /\ calls[t].charges = 1
    BY <1>k, <1>types DEF SubmitAccepted, SubmitNotAccepted, Billed, InOrder, Due
  <2>2. PICK r \in {"accepted", "signing", "failed"} : Finish(t, r)
    BY <1>k DEF SubmitAccepted, SubmitNotAccepted
  <2> QED  BY <2>1, <2>2, <1>ended DEF Priced
<1>l. ASSUME NEW t \in Tasks, Served(t)
      PROVE  AllBilled'
  <2>1. /\ calls[t].op \in {"quote", "status", "cancel"}
        /\ calls[t].charges = IF calls[t].op = "quote" THEN 1 ELSE 0
    BY <1>l, <1>types DEF Served, Billed, InOrder, Due
  <2>2. PICK r \in {"served", "failed"} : Finish(t, r)
    BY <1>l DEF Served
  <2> QED  BY <2>1, <2>2, <1>ended DEF Priced
<1>m. ASSUME NEW t \in Tasks, Drop(t)
      PROVE  AllBilled'
  <2>1. /\ calls[t].charges \in {0, 1}
        /\ calls[t].op \in {"status", "cancel", "observe"} => calls[t].charges = 0
    BY <1>m, <1>types DEF Drop, Inside, Billed, Priced, InOrder, Due
  <2>2. Finish(t, "dropped")
    BY <1>m DEF Drop
  <2> QED  BY <2>1, <2>2, <1>ended DEF Priced
<1>n. ASSUME (\E v \in Venues : VenueStep(v)) \/ Tick \/ UNCHANGED vars
      PROVE  AllBilled'
  <2>1. UNCHANGED calls
    BY <1>n DEF VenueStep, Register, MarkDead, MarkAlive, Tick, vars
  <2> QED  BY <2>1 DEF AllBilled, Billed, Priced, InOrder, Due
<1> QED
  BY <1>a, <1>b, <1>c, <1>d, <1>e, <1>f, <1>g, <1>h, <1>i, <1>j, <1>k, <1>l, <1>m, <1>n
  DEF Next, TaskStep, RegistryStep, AdapterAnswers

LEMMA BilledInit == Init => AllBilled
BY DEF Init, AllBilled, Billed, Priced, InOrder, NoCall

LEMMA BilledInvariant == Spec => []AllBilled
<1>1. RegistryInv /\ AllBilled /\ [Next]_vars => AllBilled'
  BY BilledStep
<1> QED  BY TypeCorrect, BilledInit, <1>1, PTL DEF Spec, RegistryInv

LEMMA BilledIsPriced == AllBilled => ChargePolicy
BY DEF AllBilled, Billed, Priced, ChargePolicy

(* registry.rs:295-299, 352-353: whatever fails on the way, a call costs    *)
(* what the policy says and pays it at the step the policy names.           *)
THEOREM CallsCostWhatTheyShould == Spec => []ChargePolicy
<1> QED  BY BilledInvariant, BilledIsPriced, PTL

-----------------------------------------------------------------------------
(* The watch list.  It is touched in one way only. *)
LEMMA WatchMoves ==
  ASSUME RegistryInv, [Next]_vars
  PROVE  UNCHANGED watched \/ \E v \in Venues, r \in Receipts : PutWatch(v, r)
<1>1. ASSUME NEW t \in Tasks, SubmitAccepted(t)
      PROVE  \E v \in Venues, r \in Receipts : PutWatch(v, r)
  <2>1. calls[t].venue \in Venues /\ calls[t].receipt \in Receipts
    BY <1>1 DEF SubmitAccepted, RegistryInv, Placed, CallPlaced
  <2> QED  BY <1>1, <2>1 DEF SubmitAccepted
<1>2. ASSUME NEW t \in Tasks, NEW r \in Receipts, Observe(t, r)
      PROVE  \E v \in Venues, x \in Receipts : PutWatch(v, x)
  <2>1. calls[t].venue \in Venues
    BY <1>2 DEF Observe, RegistryInv, Placed, CallPlaced
  <2> QED  BY <1>2, <2>1 DEF Observe
<1> QED
  BY <1>1, <1>2
  DEF Next, TaskStep, RegistryStep, AdapterAnswers, VenueStep, vars, Resolve, ResolveFails,
      Gate, ChargeQuote, Acquire, DeriveHeader, DeriveInvalid, DeriveFails, VenueTakes,
      SubmitNotAccepted, Served, Drop, Register, MarkDead, MarkAlive, Tick

WatchInv == IsFiniteSet(watched) /\ WatchBounded

LEMMA UnexpiredFits ==
  ASSUME WatchInv
  PROVE  /\ IsFiniteSet(Unexpired) /\ Cardinality(Unexpired) \in Nat
         /\ Cardinality(Unexpired) <= Cardinality(watched) /\ Unexpired \subseteq watched
<1>1. Unexpired \subseteq watched
  BY DEF Unexpired
<1> HIDE DEF Unexpired
<1> QED  BY <1>1, FS_Subset, FS_CardinalityType DEF WatchInv

LEMMA WatchInvStep ==
  ASSUME RegistryInv, WatchInv, [Next]_vars
  PROVE  WatchInv'
<1>1. CASE UNCHANGED watched
  BY <1>1 DEF WatchInv, WatchBounded
<1>2. ASSUME NEW v \in Venues, NEW r \in Receipts, PutWatch(v, r)
      PROVE  WatchInv'
  <2>1. /\ IsFiniteSet(Unexpired) /\ Cardinality(Unexpired) \in Nat
        /\ Unexpired \subseteq watched /\ Cardinality(Unexpired) <= Cardinality(watched)
        /\ Cardinality(watched) \in Nat
    BY UnexpiredFits, FS_CardinalityType DEF WatchInv
  <2>2. WatchCap \in Nat
    BY RegistryConstants DEF WatchCap, AtLeastOne
  <2>3. CASE watched' = Unexpired
    <3>1. IsFiniteSet(watched')
      BY <2>1, <2>3
    <3>2. Cardinality(watched') <= WatchCap
      BY <2>1, <2>2, <2>3 DEF WatchInv, WatchBounded
    <3> QED  BY <2>1, <2>3, <3>1, <3>2 DEF WatchInv, WatchBounded
  <2>4. CASE /\ WatchAdmits(v, r) /\ ~Watching(Unexpired, v, r)
             /\ watched' = Unexpired \cup {NewWatch(v, r)}
    <3>1. Cardinality(Unexpired) < WatchCap
      BY <2>4 DEF WatchAdmits
    <3>2. IsFiniteSet(watched') /\ Cardinality(watched') <= Cardinality(Unexpired) + 1
      <4> DEFINE U == Unexpired
                 e == NewWatch(v, r)
      <4>1. watched' = U \cup {e} /\ IsFiniteSet(U) /\ Cardinality(U) \in Nat
        BY <2>1, <2>4
      <4> HIDE DEF U, e
      <4>2. IsFiniteSet(U \cup {e}) /\ Cardinality(U \cup {e}) <= Cardinality(U) + 1
        BY <4>1, FS_AddElement
      <4> QED  BY <4>1, <4>2 DEF U
    <3>3. Cardinality(watched') <= WatchCap
      <4>1. Cardinality(watched') \in Nat
        BY <3>2, FS_CardinalityType
      <4> QED  BY <4>1, <2>1, <2>2, <3>1, <3>2
    <3>4. NewWatch(v, r).venue = v /\ NewWatch(v, r).receipt = r
      BY DEF NewWatch
    <3>5. \A w, x \in watched' : w.venue = x.venue /\ w.receipt = x.receipt => w = x
      BY <2>1, <2>4, <3>4 DEF Watching, WatchInv, WatchBounded
    <3> QED  BY <3>2, <3>3, <3>5 DEF WatchInv, WatchBounded
  <2> QED  BY <1>2, <2>3, <2>4 DEF PutWatch
<1> QED  BY <1>1, <1>2, WatchMoves

LEMMA WatchInvariant == Spec => []WatchInv
<1>1. Init => WatchInv
  <2> SUFFICES ASSUME Init PROVE WatchInv
    OBVIOUS
  <2>1. WatchCap \in Nat
    BY RegistryConstants DEF WatchCap, AtLeastOne
  <2> QED  BY <2>1, FS_EmptySet DEF Init, WatchInv, WatchBounded
<1>2. RegistryInv /\ WatchInv /\ [Next]_vars => WatchInv'
  BY WatchInvStep
<1> QED  BY TypeCorrect, <1>1, <1>2, PTL DEF Spec, RegistryInv

(* registry.rs:386-417: the list keeps its cap and has one entry per        *)
(* receipt, however many calls put receipts under watch.                    *)
THEOREM WatchListIsBounded == Spec => []WatchBounded
<1>1. WatchInv => WatchBounded
  BY DEF WatchInv
<1> QED  BY WatchInvariant, <1>1, PTL

(* registry.rs:383-385: only the deadline ends a watch in the registry.     *)
THEOREM WatchesOutlive == Spec => WatchOutlivesOverflow
<1>1. ASSUME RegistryInv, [Next]_vars
      PROVE  [\A w \in watched \ watched' : w.expires <= now]_vars
  <2>1. ASSUME NEW w \in watched \ watched'
        PROVE  w.expires <= now
    <3>1. PICK v \in Venues, r \in Receipts : PutWatch(v, r)
      BY <1>1, <2>1, WatchMoves
    <3>2. w \notin Unexpired
      BY <2>1, <3>1 DEF PutWatch
    <3>3. w.expires \in Nat /\ now \in Nat
      BY <1>1, <2>1 DEF RegistryInv, TypeOK, Watch
    <3> QED  BY <2>1, <3>2, <3>3 DEF Unexpired
  <2> QED  BY <2>1
<1> QED  BY TypeCorrect, <1>1, PTL DEF Spec, RegistryInv, WatchOutlivesOverflow

(* What a step that accepts a submit leaves of the watch list. *)
LEMMA AcceptedStep ==
  ASSUME RegistryInv, AllBilled, WatchInv, [Next]_vars,
         NEW t \in Tasks, calls[t].pc = "posted", calls'[t].result = "accepted"
  PROVE  \/ Watching(watched', calls[t].venue, calls[t].receipt)
         \/ Cardinality(watched') = WatchCap /\ \A w \in watched' : now < w.expires
<1>types. calls \in [Tasks -> Call] /\ calls[t].result = "none"
  BY DEF RegistryInv, TypeOK, AllBilled, Billed, InOrder
<1>1. SubmitAccepted(t)
  <2>1. calls'[t] # calls[t]
    BY <1>types
  <2>2. \A u \in Tasks : TaskStep(u) => u = t
    BY <2>1, <1>types
    DEF TaskStep, RegistryStep, AdapterAnswers, Resolve, ResolveFails, Gate, ChargeQuote,
        Observe, Acquire, DeriveHeader, DeriveInvalid, DeriveFails, VenueTakes,
        SubmitAccepted, SubmitNotAccepted, Served, Drop, Finish, FinishPaid, Goto
  <2>3. TaskStep(t)
    BY <2>1, <2>2
    DEF Next, vars, VenueStep, Register, MarkDead, MarkAlive, Tick
  <2>4. SubmitAccepted(t) \/ SubmitNotAccepted(t) \/ Drop(t)
    BY <2>3
    DEF TaskStep, RegistryStep, AdapterAnswers, Resolve, ResolveFails, Gate, ChargeQuote,
        Observe, Acquire, DeriveHeader, DeriveInvalid, DeriveFails, VenueTakes, Served
  <2>5. ASSUME NEW r, Finish(t, r)
        PROVE  calls'[t].result = r
    BY <2>5, <1>types, EndParts DEF Finish
  <2> QED  BY <2>4, <2>5 DEF SubmitNotAccepted, Drop
<1> DEFINE v == calls[t].venue  r == calls[t].receipt
<1>2. PutWatch(v, r)
  BY <1>1 DEF SubmitAccepted
<1> SUFFICES \/ Watching(watched', v, r)
             \/ Cardinality(watched') = WatchCap /\ \A w \in watched' : now < w.expires
  OBVIOUS
<1> HIDE DEF v, r
<1>3. CASE Watching(Unexpired, v, r)
  BY <1>2, <1>3 DEF PutWatch
<1>4. CASE WatchAdmits(v, r) /\ ~Watching(Unexpired, v, r)
  <2>1. NewWatch(v, r) \in watched'
    BY <1>2, <1>4 DEF PutWatch
  <2>2. NewWatch(v, r).venue = v /\ NewWatch(v, r).receipt = r
    BY DEF NewWatch
  <2> QED  BY <2>1, <2>2 DEF Watching
<1>5. CASE ~WatchAdmits(v, r)
  <2>1. watched' = Unexpired
    BY <1>2, <1>5 DEF PutWatch
  <2>2. Cardinality(Unexpired) = WatchCap
    <3>1. /\ Cardinality(Unexpired) \in Nat
          /\ Cardinality(Unexpired) <= Cardinality(watched)
          /\ Cardinality(watched) \in Nat /\ WatchCap \in Nat
      BY UnexpiredFits, FS_CardinalityType, RegistryConstants
      DEF WatchInv, WatchCap, AtLeastOne
    <3>2. ~(Cardinality(Unexpired) < WatchCap) /\ Cardinality(watched) <= WatchCap
      BY <1>5 DEF WatchAdmits, WatchInv, WatchBounded
    <3> QED  BY <3>1, <3>2
  <2> QED  BY <2>1, <2>2 DEF Unexpired
<1> QED  BY <1>3, <1>4, <1>5

(* registry.rs:343-347: an accepted receipt is under watch, or the list is  *)
(* full of live entries.                                                    *)
THEOREM AcceptedGoesUnderWatch == Spec => AcceptedIsWatched
<1> DEFINE A == \A t \in Tasks :
                  calls[t].pc = "posted" /\ calls'[t].result = "accepted" =>
                    \/ Watching(watched', calls[t].venue, calls[t].receipt)
                    \/ Cardinality(watched') = WatchCap /\ \A w \in watched' : now < w.expires
<1>1. ASSUME RegistryInv, AllBilled, WatchInv, [Next]_vars
      PROVE  [A]_vars
  BY <1>1, AcceptedStep
<1>2. AcceptedIsWatched <=> [][A]_vars
  BY DEF AcceptedIsWatched
<1> HIDE DEF A
<1> QED  BY TypeCorrect, BilledInvariant, WatchInvariant, <1>1, <1>2, PTL
         DEF Spec, RegistryInv

-----------------------------------------------------------------------------
(* The ledger: pruning the front of a history forgets charges that have aged *)
(* and no other, and, because the histories are in order, leaves exactly     *)
(* those inside the window.                                                  *)

AgedFront(h) == {i \in DOMAIN h : \A j \in 1 .. i : Aged(h[j])}

(* The aged charges at the front of a history are its first k, and pruning  *)
(* drops these.                                                             *)
LEMMA PruneDropsFront ==
  ASSUME NEW h \in Seq(Nat)
  PROVE  \E k \in 0 .. Len(h) :
           /\ AgedFront(h) = 1 .. k
           /\ Prune(h) \in Seq(Nat) /\ Len(Prune(h)) = Len(h) - k
           /\ \A i \in 1 .. Len(h) - k : Prune(h)[i] = h[i + k]
<1> DEFINE S == AgedFront(h)
           k == Cardinality(S)
<1>1. S \subseteq 1 .. Len(h) /\ Len(h) \in Nat
  BY DEF AgedFront
<1>2. \A i \in S : 1 .. i \subseteq S
  BY DEF AgedFront
<1>p. Prune(h) = SubSeq(h, k + 1, Len(h))
  BY DEF Prune, AgedFront
<1> HIDE DEF S
<1>3. IsFiniteSet(1 .. Len(h)) /\ Cardinality(1 .. Len(h)) = Len(h)
  <2>1. 1 \in Int /\ Len(h) \in Int /\ Len(h) >= 0
    BY <1>1
  <2>2. /\ IsFiniteSet(1 .. Len(h))
        /\ Cardinality(1 .. Len(h)) = IF 1 > Len(h) THEN 0 ELSE Len(h) - 1 + 1
    BY <2>1, FS_Interval
  <2> QED  BY <2>1, <2>2
<1>4. IsFiniteSet(S) /\ k \in Nat /\ k <= Len(h)
  BY <1>1, <1>3, FS_Subset, FS_CardinalityType
<1>5. ASSUME NEW i \in S
      PROVE  i \in 1 .. k
  <2>1. i \in Nat /\ 1 <= i
    BY <1>1
  <2>2. Cardinality(1 .. i) = i
    BY <2>1, FS_Interval
  <2>3. Cardinality(1 .. i) <= k
    BY <1>2, <1>4, FS_Subset
  <2> QED  BY <1>4, <2>1, <2>2, <2>3
<1>6. S = 1 .. k
  <2> HIDE DEF k
  <2>1. IsFiniteSet(1 .. k) /\ Cardinality(1 .. k) = k
    BY <1>4, FS_Interval
  <2>2. S \subseteq 1 .. k
    BY <1>5
  <2> QED  BY <2>1, <2>2, FS_Subset DEF k
<1> HIDE DEF k
<1>7. \A i \in k + 1 .. Len(h) : h[i] \in Nat
  BY <1>1, <1>4
<1>8. /\ SubSeq(h, k + 1, Len(h)) \in Seq(Nat)
      /\ Len(SubSeq(h, k + 1, Len(h))) = IF k + 1 <= Len(h) THEN Len(h) - (k + 1) + 1 ELSE 0
      /\ \A i \in 1 .. Len(h) - (k + 1) + 1 : SubSeq(h, k + 1, Len(h))[i] = h[k + 1 + i - 1]
  BY <1>1, <1>4, <1>7, SubSeqProperties
<1>9. /\ Prune(h) \in Seq(Nat) /\ Len(Prune(h)) = Len(h) - k
      /\ \A i \in 1 .. Len(h) - k : Prune(h)[i] = h[i + k]
  <2> HIDE DEF Prune
  <2>1. Len(h) - (k + 1) + 1 = Len(h) - k /\ \A i \in 1 .. Len(h) - k : k + 1 + i - 1 = i + k
    BY <1>1, <1>4
  <2>2. Len(Prune(h)) = Len(h) - k
    BY <1>1, <1>4, <1>8, <1>p
  <2> QED  BY <1>8, <1>p, <2>1, <2>2
<1>10. k \in 0 .. Len(h) /\ AgedFront(h) = 1 .. k
  BY <1>1, <1>4, <1>6 DEF S
<1> QED  BY <1>9, <1>10

(* A step leaves a caller's history, prunes it, or prunes it and charges.   *)
LEMMA LedgerMoves ==
  ASSUME RegistryInv, [Next]_vars, NEW c \in Callers
  PROVE  \/ ledger'[c] = ledger[c]
         \/ ledger'[c] = Prune(ledger[c])
         \/ ledger'[c] = Append(Prune(ledger[c]), now)
<1>types. ledger \in [Callers -> Seq(Nat)]
  BY DEF RegistryInv, TypeOK
<1>1. ASSUME NEW t \in Tasks, Gate(t)
      PROVE  ledger'[c] = ledger[c] \/ ledger'[c] = Prune(ledger[c])
  <2>1. ledger' = [ledger EXCEPT ![Caller(t)] = Prune(@)]
    BY <1>1 DEF Gate
  <2> QED  BY <1>types, <2>1
<1>2. ASSUME NEW t \in Tasks, Charge(Caller(t))
      PROVE  ledger'[c] = ledger[c] \/ ledger'[c] = Append(Prune(ledger[c]), now)
  <2>1. ledger' = [ledger EXCEPT ![Caller(t)] = Append(Prune(@), now)]
    BY <1>2 DEF Charge
  <2> QED  BY <1>types, <2>1
<1>3. \/ UNCHANGED ledger
      \/ \E t \in Tasks : Gate(t) \/ Charge(Caller(t))
  BY DEF Next, TaskStep, RegistryStep, AdapterAnswers, VenueStep, vars, Resolve, ResolveFails,
         ChargeQuote, Observe, Acquire, DeriveHeader, DeriveInvalid, DeriveFails, VenueTakes,
         SubmitAccepted, SubmitNotAccepted, Served, Drop, Register, MarkDead, MarkAlive, Tick
<1> QED  BY <1>1, <1>2, <1>3

-----------------------------------------------------------------------------
(* What such a step forgets. *)
LEMMA LedgerForgets ==
  ASSUME RegistryInv, NEW c \in Callers,
         \/ ledger'[c] = ledger[c]
         \/ ledger'[c] = Prune(ledger[c])
         \/ ledger'[c] = Append(Prune(ledger[c]), now)
  PROVE  \E k \in 0 .. Len(ledger[c]) :
           /\ \A i \in 1 .. k : Aged(ledger[c][i])
           /\ Len(ledger[c]) - k <= Len(ledger'[c])
           /\ \A i \in 1 .. Len(ledger[c]) - k : ledger'[c][i] = ledger[c][i + k]
<1> DEFINE h == ledger[c]
<1>1. h \in Seq(Nat) /\ Len(h) \in Nat /\ now \in Nat
  BY DEF RegistryInv, TypeOK
<1>2. PICK k \in 0 .. Len(h) :
        /\ AgedFront(h) = 1 .. k
        /\ Prune(h) \in Seq(Nat) /\ Len(Prune(h)) = Len(h) - k
        /\ \A i \in 1 .. Len(h) - k : Prune(h)[i] = h[i + k]
  BY <1>1, PruneDropsFront
<1>3. \A i \in 1 .. k : Aged(h[i])
  <2>1. ASSUME NEW i \in 1 .. k
        PROVE  i \in AgedFront(h) /\ i \in 1 .. i
    BY <1>2
  <2> QED  BY <2>1 DEF AgedFront
<1>4. CASE ledger'[c] = h
  <2>1. 0 \in 0 .. Len(h) /\ \A i \in 1 .. Len(h) - 0 : ledger'[c][i] = h[i + 0]
    BY <1>1, <1>4
  <2>2. \A i \in 1 .. 0 : Aged(h[i])
    OBVIOUS
  <2>3. Len(h) - 0 <= Len(ledger'[c])
    BY <1>1, <1>4
  <2> QED  BY <2>1, <2>2, <2>3
<1>5. CASE ledger'[c] = Prune(h)
  <2>1. Len(h) - k <= Len(ledger'[c])
    BY <1>1, <1>2, <1>5
  <2> QED  BY <1>2, <1>3, <1>5, <2>1
<1>6. CASE ledger'[c] = Append(Prune(h), now)
  <2> DEFINE p == Prune(h)
  <2>1. Len(Append(p, now)) = Len(p) + 1 /\ \A i \in 1 .. Len(p) : Append(p, now)[i] = p[i]
    <3>1. p \in Seq(Nat)
      BY <1>2
    <3> HIDE DEF p
    <3> QED  BY <1>1, <3>1, AppendProperties
  <2>2. Len(p) = Len(h) - k
    BY <1>2
  <2> HIDE DEF p
  <2>3. Len(h) - k <= Len(ledger'[c])
    BY <1>1, <1>6, <2>1, <2>2 DEF p
  <2>4. \A i \in 1 .. Len(h) - k : ledger'[c][i] = h[i + k]
    BY <1>2, <1>6, <2>1, <2>2 DEF p
  <2> QED  BY <1>3, <2>3, <2>4
<1> QED  BY <1>4, <1>5, <1>6

(* registry.rs:575-584: a charge is forgotten only once it has aged out,    *)
(* and what is kept keeps its order.                                        *)
THEOREM ChargesAgeOut == Spec => LedgerForgetsOnlyAged
<1>1. ASSUME RegistryInv, [Next]_vars
      PROVE  [\A c \in Callers : \E k \in 0 .. Len(ledger[c]) :
                /\ \A i \in 1 .. k : Aged(ledger[c][i])
                /\ Len(ledger[c]) - k <= Len(ledger'[c])
                /\ \A i \in 1 .. Len(ledger[c]) - k : ledger'[c][i] = ledger[c][i + k]]_vars
  BY <1>1, LedgerMoves, LedgerForgets
<1> QED  BY TypeCorrect, <1>1, PTL DEF Spec, RegistryInv, LedgerForgetsOnlyAged

-----------------------------------------------------------------------------
(* A history is in order, and nothing in it is yet to come. *)
InTime(h) ==
  /\ \A i, j \in 1 .. Len(h) : i <= j => h[i] <= h[j]
  /\ \A i \in 1 .. Len(h) : h[i] <= now

LedgerInv == \A c \in Callers : InTime(ledger[c])

LEMMA PrunedInTime ==
  ASSUME NEW h \in Seq(Nat), InTime(h)
  PROVE  InTime(Prune(h))
<1>1. PICK k \in 0 .. Len(h) :
        /\ Prune(h) \in Seq(Nat) /\ Len(Prune(h)) = Len(h) - k
        /\ \A i \in 1 .. Len(h) - k : Prune(h)[i] = h[i + k]
  BY PruneDropsFront
<1> HIDE DEF Prune
<1>2. Len(h) \in Nat
  OBVIOUS
<1>3. ASSUME NEW i \in 1 .. Len(Prune(h))
      PROVE  i + k \in 1 .. Len(h) /\ Prune(h)[i] = h[i + k]
  BY <1>1, <1>2
<1>4. ASSUME NEW i \in 1 .. Len(Prune(h)), NEW j \in 1 .. Len(Prune(h)), i <= j
      PROVE  Prune(h)[i] <= Prune(h)[j]
  <2>1. i + k <= j + k
    BY <1>1, <1>2, <1>4
  <2> QED  BY <1>3, <2>1 DEF InTime
<1>5. \A i \in 1 .. Len(Prune(h)) : Prune(h)[i] <= now
  BY <1>3 DEF InTime
<1> QED  BY <1>4, <1>5 DEF InTime

LEMMA ChargedInTime ==
  ASSUME NEW h \in Seq(Nat), InTime(h), now \in Nat
  PROVE  InTime(Append(h, now))
<1> DEFINE p == Append(h, now)
<1>1. /\ Len(h) \in Nat /\ Len(p) = Len(h) + 1 /\ p[Len(h) + 1] = now
      /\ \A i \in 1 .. Len(h) : p[i] = h[i]
  BY AppendProperties
<1> HIDE DEF p
<1>2. ASSUME NEW i \in 1 .. Len(p)
      PROVE  p[i] <= now
  BY <1>1 DEF InTime
<1>3. ASSUME NEW i \in 1 .. Len(p), NEW j \in 1 .. Len(p), i <= j
      PROVE  p[i] <= p[j]
  <2>1. CASE j = Len(h) + 1
    BY <1>1, <1>2, <2>1
  <2>2. CASE j \in 1 .. Len(h)
    <3>1. i \in 1 .. Len(h)
      BY <1>1, <1>3, <2>2
    <3> QED  BY <1>1, <1>3, <2>2, <3>1 DEF InTime
  <2> QED  BY <1>1, <2>1, <2>2
<1> QED  BY <1>2, <1>3 DEF InTime, p

LEMMA LedgerInvStep ==
  ASSUME RegistryInv, LedgerInv, [Next]_vars
  PROVE  LedgerInv'
<1>1. now \in Nat /\ now' \in Nat /\ now <= now'
  <2>1. now \in Nat
    BY DEF RegistryInv, TypeOK
  <2>2. now' = now \/ now' = now + 1
    BY DEF Next, TaskStep, RegistryStep, AdapterAnswers, VenueStep, vars, Resolve, ResolveFails,
           Gate, ChargeQuote, Observe, Acquire, DeriveHeader, DeriveInvalid, DeriveFails,
           VenueTakes, SubmitAccepted, SubmitNotAccepted, Served, Drop, Register, MarkDead,
           MarkAlive, Tick
  <2> QED  BY <2>1, <2>2
<1>2. ASSUME NEW c \in Callers
      PROVE  InTime(ledger[c])'
  <2>1. ledger[c] \in Seq(Nat) /\ InTime(ledger[c])
    BY DEF RegistryInv, TypeOK, LedgerInv
  <2>2. Prune(ledger[c]) \in Seq(Nat) /\ InTime(Prune(ledger[c]))
    BY <2>1, PruneShortens, PrunedInTime
  <2>3. InTime(Append(Prune(ledger[c]), now))
    <3> DEFINE p == Prune(ledger[c])
    <3>1. p \in Seq(Nat) /\ InTime(p)
      BY <2>2
    <3> HIDE DEF p
    <3>2. InTime(Append(p, now))
      BY <1>1, <3>1, ChargedInTime
    <3> QED  BY <3>2 DEF p
  <2>4. InTime(ledger'[c])
    <3> HIDE DEF Prune
    <3> QED  BY <2>1, <2>2, <2>3, LedgerMoves
  <2>5. ledger'[c] \in Seq(Nat)
    BY RegistryInvStep DEF RegistryInv, TypeOK
  <2>6. \A i \in 1 .. Len(ledger'[c]) : ledger'[c][i] \in Nat
    BY <2>5
  <2> QED  BY <1>1, <2>4, <2>6 DEF InTime
<1> QED  BY <1>2 DEF LedgerInv

LEMMA LedgerInvInit == Init => LedgerInv
BY DEF Init, LedgerInv, InTime

LEMMA LedgerInvariant == Spec => []LedgerInv
<1>1. RegistryInv /\ LedgerInv /\ [Next]_vars => LedgerInv'
  BY LedgerInvStep
<1> QED  BY TypeCorrect, LedgerInvInit, <1>1, PTL DEF Spec, RegistryInv

(* A history in order is pruned of exactly what has aged. *)
LEMMA GateExact ==
  ASSUME RegistryInv, LedgerInv
  PROVE  GateCountsWindow
<1> SUFFICES ASSUME NEW c \in Callers
             PROVE  HasBudget(c) <=> Recent(c) < ChargeCap
  BY DEF GateCountsWindow
<1> DEFINE h == ledger[c]
<1>1. h \in Seq(Nat) /\ Len(h) \in Nat /\ now \in Nat /\ InTime(h) /\ Window \in Nat
  BY RegistryConstants DEF RegistryInv, TypeOK, LedgerInv
<1>2. PICK k \in 0 .. Len(h) :
        AgedFront(h) = 1 .. k /\ Len(Prune(h)) = Len(h) - k
  BY <1>1, PruneDropsFront
<1>dom. DOMAIN h = 1 .. Len(h) /\ \A i \in 1 .. Len(h) : h[i] \in Nat
  BY <1>1
<1> DEFINE F == {i \in DOMAIN h : ~Aged(h[i])}
<1>r. Recent(c) = Cardinality(F)
  BY DEF Recent
<1> HIDE DEF h
<1>3. ASSUME NEW i \in 1 .. Len(h)
      PROVE  Aged(h[i]) <=> i \in 1 .. k
  <2>1. ASSUME i \in 1 .. k
        PROVE  Aged(h[i])
    <3>1. i \in AgedFront(h) /\ i \in 1 .. i
      BY <1>2, <2>1
    <3> QED  BY <3>1 DEF AgedFront
  <2>2. ASSUME Aged(h[i])
        PROVE  i \in AgedFront(h)
    <3>1. ASSUME NEW j \in 1 .. i
          PROVE  Aged(h[j])
      <4>1. j \in 1 .. Len(h) /\ j <= i
        OBVIOUS
      <4>2. h[j] <= h[i] /\ h[j] \in Nat /\ h[i] \in Nat
        BY <1>1, <1>dom, <4>1 DEF InTime
      <4> QED  BY <1>1, <2>2, <4>2 DEF Aged
    <3> QED  BY <1>dom, <3>1 DEF AgedFront
  <2> QED  BY <1>2, <2>1, <2>2
<1>4. F = k + 1 .. Len(h)
  BY <1>1, <1>2, <1>3, <1>dom
<1> HIDE DEF F
<1>5. Cardinality(F) = Len(h) - k
  <2>1. /\ k + 1 \in Int /\ Len(h) \in Int
        /\ k + 1 > Len(h) => Len(h) - k = 0
        /\ Len(h) - (k + 1) + 1 = Len(h) - k
    BY <1>1, <1>2
  <2>2. Cardinality(k + 1 .. Len(h)) =
          IF k + 1 > Len(h) THEN 0 ELSE Len(h) - (k + 1) + 1
    BY <2>1, FS_Interval
  <2> QED  BY <1>4, <2>1, <2>2
<1> HIDE DEF Prune
<1>6. HasBudget(c) <=> Len(h) - k < ChargeCap
  BY <1>2 DEF HasBudget, h
<1> QED  BY <1>r, <1>5, <1>6

(* registry.rs:280-285, 575-584: pruning only the front is enough. The gate *)
(* opens exactly when fewer than max_charges charges are inside the window. *)
THEOREM GateIsExact == Spec => []GateCountsWindow
<1> QED  BY TypeCorrect, LedgerInvariant, GateExact, PTL DEF RegistryInv
=============================================================================
