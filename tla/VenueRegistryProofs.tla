------------------------ MODULE VenueRegistryProofs ------------------------
(***************************************************************************)
(* Theorems about VenueRegistry, for every set of venues, callers and tasks *)
(* and every limit: the type invariant, the exclusion of the adapter slots  *)
(* and the bound on what a caller can accrue in spite of the gap between    *)
(* the quota gate and the charge.                                           *)
(***************************************************************************)
EXTENDS VenueRegistry, FiniteSetTheorems, SequenceTheorems, TLAPS

(* What a call's step says of its other fields; the type invariant leaves   *)
(* this out, and no action would preserve its types without it.             *)
CallPlaced(c) ==
  /\ c.pc # "idle" => c.op \in Ops /\ c.venue \in Venues /\ c.slot \in Slots
  /\ c.pc = "posted" => c.receipt \in Receipts
  /\ c.pc \in {"derive", "post", "posted"} => c.op = "submit"
  /\ c.pc = "charge" => c.op # "submit"

Placed == \A t \in Tasks : CallPlaced(calls[t])

RegistryInv == TypeOK /\ Placed

-----------------------------------------------------------------------------
(* Pruning leaves a history of instants that is no longer than before.      *)
LEMMA PruneShortens ==
  ASSUME NEW h \in Seq(Nat)
  PROVE  Prune(h) \in Seq(Nat) /\ Len(Prune(h)) <= Len(h)
<1> DEFINE agedFront == {i \in DOMAIN h : \A j \in 1 .. i : Aged(h[j])}
           k == Cardinality(agedFront)
<1>1. agedFront \subseteq 1 .. Len(h) /\ Len(h) \in Nat
  OBVIOUS
<1>2. k \in Nat
  <2>1. IsFiniteSet(1 .. Len(h))
    BY <1>1, FS_Interval
  <2>2. IsFiniteSet(agedFront)
    BY <1>1, <2>1, FS_Subset
  <2> QED  BY <2>2, FS_CardinalityType
<1>3. \A i \in k + 1 .. Len(h) : h[i] \in Nat
  BY <1>1, <1>2
<1>4. SubSeq(h, k + 1, Len(h)) \in Seq(Nat)
      /\ Len(SubSeq(h, k + 1, Len(h))) = IF k + 1 <= Len(h) THEN Len(h) - (k + 1) + 1 ELSE 0
  <2> HIDE DEF k
  <2> QED  BY <1>1, <1>2, <1>3, SubSeqProperties
<1>5. Prune(h) = SubSeq(h, k + 1, Len(h))
  BY DEF Prune
<1> HIDE DEF k
<1> QED  BY <1>1, <1>2, <1>4, <1>5

(* A charge makes a history longer by one instant at most. *)
LEMMA ChargeLengthens ==
  ASSUME TypeOK, NEW c \in Callers
  PROVE  /\ Append(Prune(ledger[c]), now) \in Seq(Nat)
         /\ Len(Append(Prune(ledger[c]), now)) <= Len(ledger[c]) + 1
<1>1. ledger[c] \in Seq(Nat) /\ now \in Nat
  BY DEF TypeOK
<1>2. Prune(ledger[c]) \in Seq(Nat) /\ Len(Prune(ledger[c])) <= Len(ledger[c])
  BY <1>1, PruneShortens
<1> HIDE DEF Prune
<1> QED  BY <1>1, <1>2

(* What the charge and the gate leave in the ledger is a ledger. *)
LEMMA ChargeType ==
  ASSUME TypeOK, NEW c \in Callers, Charge(c)
  PROVE  ledger' \in [Callers -> Seq(Nat)]
BY ChargeLengthens DEF Charge, TypeOK

LEMMA WatchType ==
  ASSUME TypeOK, NEW v \in Venues, NEW r \in Receipts, PutWatch(v, r)
  PROVE  watched' \subseteq Watch
<1>1. NewWatch(v, r) \in Watch
  <2>1. now + Grace \in Nat
    BY RegistryConstants DEF TypeOK
  <2> QED  BY <2>1 DEF NewWatch, Watch
<1>2. Unexpired \subseteq Watch
  BY DEF Unexpired, TypeOK
<1> QED  BY <1>1, <1>2 DEF PutWatch

(* However a call ends, it is a call, and nothing is left to be placed. *)
LEMMA EndedCall ==
  ASSUME NEW c \in Call, NEW result \in Results
  PROVE  /\ Ended(c, result) \in Call /\ CallPlaced(Ended(c, result))
         /\ Ended(c, result).pc = "idle"
         /\ Ended(Paid(c), result) \in Call /\ CallPlaced(Ended(Paid(c), result))
         /\ Ended(Paid(c), result).pc = "idle"
<1>1. ASSUME NEW d \in Call
      PROVE  /\ Ended(d, result) \in Call
             /\ Ended(d, result).pc = "idle"
             /\ CallPlaced(Ended(d, result))
  <2>1. Ended(d, result) \in Call
    BY <1>1 DEF Ended, Call, Steps
  <2>2. Ended(d, result).pc = "idle"
    BY <1>1 DEF Ended, Call
  <2> QED  BY <2>1, <2>2 DEF CallPlaced
<1>2. Paid(c) \in Call
  BY DEF Paid, Call
<1> QED  BY <1>1, <1>2

(* A call that moves to its next step stays placed, paid or not. *)
LEMMA MovedCall ==
  ASSUME NEW c \in Call, CallPlaced(c), c.pc # "idle",
         NEW step \in Steps \ {"posted", "charge"},
         step \in {"derive", "post"} => c.op = "submit"
  PROVE  /\ [c EXCEPT !.pc = step] \in Call /\ CallPlaced([c EXCEPT !.pc = step])
         /\ [Paid(c) EXCEPT !.pc = step] \in Call
         /\ CallPlaced([Paid(c) EXCEPT !.pc = step])
<1>1. ASSUME NEW d \in Call, CallPlaced(d), d.pc # "idle",
             step \in {"derive", "post"} => d.op = "submit"
      PROVE  /\ [d EXCEPT !.pc = step] \in Call
             /\ CallPlaced([d EXCEPT !.pc = step])
  <2>1. [d EXCEPT !.pc = step] \in Call
    BY <1>1 DEF Call
  <2>2. /\ [d EXCEPT !.pc = step].pc = step /\ [d EXCEPT !.pc = step].op = d.op
        /\ [d EXCEPT !.pc = step].venue = d.venue /\ [d EXCEPT !.pc = step].slot = d.slot
    BY <1>1 DEF Call
  <2> QED  BY <1>1, <2>1, <2>2 DEF CallPlaced
<1>2. Paid(c) \in Call /\ Paid(c).pc = c.pc /\ Paid(c).op = c.op
      /\ Paid(c).venue = c.venue /\ Paid(c).slot = c.slot /\ Paid(c).receipt = c.receipt
  BY DEF Paid, Call
<1>3. CallPlaced(Paid(c))
  BY <1>2 DEF CallPlaced
<1> QED  BY <1>1, <1>2, <1>3

(* A step of one task changes that task's call only. *)
LEMMA OneCall ==
  ASSUME RegistryInv, NEW t \in Tasks, NEW c,
         c \in Call, CallPlaced(c), calls' = [calls EXCEPT ![t] = c]
  PROVE  calls' \in [Tasks -> Call] /\ Placed'
BY DEF RegistryInv, TypeOK, Placed, CallPlaced

-----------------------------------------------------------------------------
(* The inductive step of the type invariant, one step per action. *)
LEMMA RegistryInvStep ==
  ASSUME RegistryInv, [Next]_vars
  PROVE  RegistryInv'
<1> USE DEF RegistryInv
<1>types. /\ gen \in [Venues -> 0 .. MaxGen] /\ alive \in [Venues -> BOOLEAN]
          /\ owner \in [Slots -> Tasks \cup {Poller, None}]
          /\ ledger \in [Callers -> Seq(Nat)]
          /\ watched \subseteq Watch /\ now \in Nat
          /\ calls \in [Tasks -> Call]
  BY DEF TypeOK
<1>unlock. ASSUME NEW t \in Tasks, Unlock(t)
           PROVE  owner' \in [Slots -> Tasks \cup {Poller, None}]
  BY <1>types, <1>unlock DEF Unlock
<1>finish. ASSUME NEW t \in Tasks, NEW r \in Results,
                  Finish(t, r) \/ FinishPaid(t, r)
           PROVE  calls' \in [Tasks -> Call] /\ Placed'
  BY <1>types, <1>finish, EndedCall, OneCall DEF Finish, FinishPaid
<1>goto. ASSUME NEW t \in Tasks, NEW c, calls' = [calls EXCEPT ![t] = c],
                c \in Call, CallPlaced(c)
         PROVE  calls' \in [Tasks -> Call] /\ Placed'
  BY <1>goto, OneCall
<1>charge. ASSUME NEW t \in Tasks, Charge(Caller(t))
           PROVE  ledger' \in [Callers -> Seq(Nat)]
  <2>1. Caller(t) \in Callers
    BY RegistryConstants DEF Caller
  <2> QED  BY <2>1, <1>charge, ChargeType
<1>a. ASSUME NEW t \in Tasks, NEW op \in Ops, NEW v \in Venues, Resolve(t, op, v)
      PROVE  RegistryInv'
  <2> DEFINE c == [NoCall EXCEPT !.pc = FirstStep(op), !.op = op, !.venue = v,
                                 !.slot = <<v, gen[v]>>]
  <2>1. <<v, gen[v]>> \in Slots
    BY <1>a, <1>types, RegistryConstants DEF Resolve, Routable, Slots
  <2>2. FirstStep(op) \in {"gate", "observe", "lock"}
    BY DEF FirstStep
  <2>3. c \in Call /\ CallPlaced(c)
    BY <2>1, <2>2 DEF NoCall, Call, CallPlaced, Steps, Results
  <2>4. calls' = [calls EXCEPT ![t] = c]
    BY <1>a DEF Resolve
  <2> HIDE DEF c
  <2>5. calls' \in [Tasks -> Call] /\ Placed'
    BY <2>3, <2>4, <1>goto
  <2> QED  BY <1>a, <1>types, <2>5 DEF Resolve, TypeOK
<1>b. ASSUME NEW t \in Tasks, NEW op \in Ops, NEW v \in Venues, ResolveFails(t, op, v)
      PROVE  RegistryInv'
  <2> DEFINE c == [NoCall EXCEPT !.op = op, !.result = IF gen[v] = 0 THEN "unknown_venue"
                                                                     ELSE "dead"]
  <2>1. c \in Call /\ CallPlaced(c)
    BY DEF NoCall, Call, CallPlaced, Steps, Results
  <2>2. calls' = [calls EXCEPT ![t] = c]
    BY <1>b DEF ResolveFails
  <2> HIDE DEF c
  <2>3. calls' \in [Tasks -> Call] /\ Placed'
    BY <2>1, <2>2, <1>goto
  <2> QED  BY <1>b, <1>types, <2>3 DEF ResolveFails, TypeOK
<1>c. ASSUME NEW t \in Tasks, Gate(t)
      PROVE  RegistryInv'
  <2>1. Caller(t) \in Callers /\ Prune(ledger[Caller(t)]) \in Seq(Nat)
    BY <1>types, RegistryConstants, PruneShortens DEF Caller
  <2>2. ledger' \in [Callers -> Seq(Nat)]
    <3> HIDE DEF Prune
    <3> QED  BY <1>c, <1>types, <2>1 DEF Gate
  <2>3. ASSUME Goto(t, IF calls[t].op = "submit" THEN "lock" ELSE "charge")
        PROVE  calls' \in [Tasks -> Call] /\ Placed'
    <3> DEFINE c == [calls[t] EXCEPT !.pc = IF calls[t].op = "submit" THEN "lock" ELSE "charge"]
    <3>1. c \in Call /\ CallPlaced(c)
      BY <1>c, <1>types DEF Gate, Placed, CallPlaced, Call, Steps
    <3>2. calls' = [calls EXCEPT ![t] = c]
      BY <2>3, <1>types DEF Goto
    <3> HIDE DEF c
    <3> QED  BY <3>1, <3>2, <1>goto
  <2>4. ASSUME Finish(t, "rate_limited")
        PROVE  calls' \in [Tasks -> Call] /\ Placed'
    BY <2>4, <1>finish DEF Results
  <2> QED  BY <1>c, <1>types, <2>2, <2>3, <2>4 DEF Gate, TypeOK
<1>d. ASSUME NEW t \in Tasks, ChargeQuote(t)
      PROVE  RegistryInv'
  <2> DEFINE c == [Paid(calls[t]) EXCEPT !.pc = "lock"]
  <2>1. c \in Call /\ CallPlaced(c)
    <3>1. calls[t] \in Call /\ CallPlaced(calls[t]) /\ calls[t].pc = "charge"
      BY <1>d, <1>types DEF ChargeQuote, Placed
    <3> QED  BY <3>1, MovedCall DEF Steps, Inside
  <2>2. calls' = [calls EXCEPT ![t] = c]
    BY <1>d DEF ChargeQuote
  <2> HIDE DEF c
  <2>3. calls' \in [Tasks -> Call] /\ Placed'
    BY <2>1, <2>2, <1>goto
  <2>4. ledger' \in [Callers -> Seq(Nat)]
    BY <1>d, <1>charge DEF ChargeQuote
  <2> QED  BY <1>d, <1>types, <2>3, <2>4 DEF ChargeQuote, TypeOK
<1>e. ASSUME NEW t \in Tasks, Acquire(t)
      PROVE  RegistryInv'
  <2> DEFINE c == [calls[t] EXCEPT !.pc = IF calls[t].op = "submit" THEN "derive" ELSE "serve"]
  <2>1. c \in Call /\ CallPlaced(c)
    <3>1. calls[t] \in Call /\ CallPlaced(calls[t]) /\ calls[t].pc = "lock"
      BY <1>e, <1>types DEF Acquire, Placed
    <3> QED  BY <3>1, MovedCall DEF Steps, Inside
  <2>2. calls' = [calls EXCEPT ![t] = c]
    BY <1>e, <1>types DEF Acquire, Goto
  <2> HIDE DEF c
  <2>3. calls' \in [Tasks -> Call] /\ Placed'
    BY <2>1, <2>2, <1>goto
  <2>4. owner' \in [Slots -> Tasks \cup {Poller, None}]
    BY <1>e, <1>types DEF Acquire
  <2> QED  BY <1>e, <1>types, <2>3, <2>4 DEF Acquire, TypeOK
<1>f. ASSUME NEW t \in Tasks, DeriveHeader(t)
      PROVE  RegistryInv'
  <2> DEFINE c == [Paid(calls[t]) EXCEPT !.pc = "post"]
  <2>1. c \in Call /\ CallPlaced(c)
    <3>1. calls[t] \in Call /\ CallPlaced(calls[t]) /\ calls[t].pc = "derive"
      BY <1>f, <1>types DEF DeriveHeader, Placed
    <3>2. calls[t].op = "submit"
      BY <3>1 DEF CallPlaced
    <3> QED  BY <3>1, <3>2, MovedCall DEF Steps, Inside
  <2>2. calls' = [calls EXCEPT ![t] = c]
    BY <1>f DEF DeriveHeader
  <2> HIDE DEF c
  <2>3. calls' \in [Tasks -> Call] /\ Placed'
    BY <2>1, <2>2, <1>goto
  <2>4. ledger' \in [Callers -> Seq(Nat)]
    BY <1>f, <1>charge DEF DeriveHeader
  <2> QED  BY <1>f, <1>types, <2>3, <2>4 DEF DeriveHeader, TypeOK
<1>g. ASSUME NEW t \in Tasks, DeriveInvalid(t) \/ DeriveFails(t)
      PROVE  RegistryInv'
  <2>1. calls' \in [Tasks -> Call] /\ Placed'
    BY <1>g, <1>finish DEF DeriveInvalid, DeriveFails, Results
  <2>2. ledger' \in [Callers -> Seq(Nat)]
    BY <1>g, <1>types, <1>charge DEF DeriveInvalid, DeriveFails
  <2>3. owner' \in [Slots -> Tasks \cup {Poller, None}]
    BY <1>g, <1>unlock DEF DeriveInvalid, DeriveFails
  <2> QED  BY <1>g, <1>types, <2>1, <2>2, <2>3 DEF DeriveInvalid, DeriveFails, TypeOK
<1>h. ASSUME NEW t \in Tasks, NEW r \in Receipts, VenueTakes(t, r)
      PROVE  RegistryInv'
  <2> DEFINE c == [calls[t] EXCEPT !.pc = "posted", !.receipt = r]
  <2>1. c \in Call /\ CallPlaced(c)
    BY <1>h, <1>types DEF VenueTakes, Placed, CallPlaced, Call, Steps, Inside
  <2>2. calls' = [calls EXCEPT ![t] = c]
    BY <1>h, <1>types DEF VenueTakes
  <2> HIDE DEF c
  <2>3. calls' \in [Tasks -> Call] /\ Placed'
    BY <2>1, <2>2, <1>goto
  <2> QED  BY <1>h, <1>types, <2>3 DEF VenueTakes, TypeOK
<1>i. ASSUME NEW t \in Tasks, SubmitAccepted(t)
      PROVE  RegistryInv'
  <2>1. calls[t].venue \in Venues /\ calls[t].receipt \in Receipts
    BY <1>i DEF SubmitAccepted, Placed, CallPlaced
  <2>2. watched' \subseteq Watch
    BY <1>i, <2>1, WatchType DEF SubmitAccepted
  <2>3. calls' \in [Tasks -> Call] /\ Placed'
    BY <1>i, <1>finish DEF SubmitAccepted, Results
  <2>4. owner' \in [Slots -> Tasks \cup {Poller, None}]
    BY <1>i, <1>unlock DEF SubmitAccepted
  <2> QED  BY <1>i, <1>types, <2>2, <2>3, <2>4 DEF SubmitAccepted, TypeOK
<1>j. ASSUME NEW t \in Tasks, SubmitNotAccepted(t) \/ Served(t)
      PROVE  RegistryInv'
  <2>1. calls' \in [Tasks -> Call] /\ Placed'
    BY <1>j, <1>finish DEF SubmitNotAccepted, Served, Results
  <2>2. owner' \in [Slots -> Tasks \cup {Poller, None}]
    BY <1>j, <1>unlock DEF SubmitNotAccepted, Served
  <2> QED  BY <1>j, <1>types, <2>1, <2>2 DEF SubmitNotAccepted, Served, TypeOK
<1>k. ASSUME NEW t \in Tasks, NEW r \in Receipts, Observe(t, r)
      PROVE  RegistryInv'
  <2>1. calls[t].venue \in Venues
    BY <1>k DEF Observe, Placed, CallPlaced
  <2>2. watched' \subseteq Watch
    BY <1>k, <2>1, WatchType DEF Observe
  <2>3. PICK result \in Results : Finish(t, result)
    BY <1>k DEF Observe, Results
  <2>4. calls' \in [Tasks -> Call] /\ Placed'
    BY <2>3, <1>finish
  <2> QED  BY <1>k, <1>types, <2>2, <2>4 DEF Observe, TypeOK
<1>l. ASSUME NEW t \in Tasks, Drop(t)
      PROVE  RegistryInv'
  <2>1. calls' \in [Tasks -> Call] /\ Placed'
    BY <1>l, <1>finish DEF Drop, Results
  <2>2. owner' \in [Slots -> Tasks \cup {Poller, None}]
    BY <1>l, <1>types, <1>unlock DEF Drop
  <2> QED  BY <1>l, <1>types, <2>1, <2>2 DEF Drop, TypeOK
<1>m. ASSUME NEW v \in Venues, VenueStep(v)
      PROVE  RegistryInv'
  <2>1. gen' \in [Venues -> 0 .. MaxGen]
    BY <1>m, <1>types, RegistryConstants DEF VenueStep, Register, MarkDead, MarkAlive
  <2>2. alive' \in [Venues -> BOOLEAN]
    BY <1>m, <1>types DEF VenueStep, Register, MarkDead, MarkAlive
  <2> QED  BY <1>m, <1>types, <2>1, <2>2
           DEF VenueStep, Register, MarkDead, MarkAlive, TypeOK, Placed
<1>n. ASSUME Tick \/ UNCHANGED vars
      PROVE  RegistryInv'
  BY <1>n, <1>types DEF Tick, vars, TypeOK, Placed
<1> QED
  BY <1>a, <1>b, <1>c, <1>d, <1>e, <1>f, <1>g, <1>h, <1>i, <1>j, <1>k, <1>l, <1>m, <1>n
  DEF Next, TaskStep, RegistryStep, AdapterAnswers

LEMMA RegistryInvInit == Init => RegistryInv
<1> SUFFICES ASSUME Init PROVE RegistryInv
  OBVIOUS
<1>1. NoCall \in Call /\ CallPlaced(NoCall)
  BY DEF NoCall, Call, CallPlaced, Steps, Results
<1>2. calls \in [Tasks -> Call] /\ Placed
  <2> HIDE DEF NoCall
  <2> QED  BY <1>1 DEF Init, Placed
<1>3. ledger \in [Callers -> Seq(Nat)]
  BY DEF Init
<1> QED  BY <1>2, <1>3, RegistryConstants DEF Init, RegistryInv, TypeOK

(* Every state the registry reaches is well typed, and every call in flight *)
(* is placed: this is what the other invariants rest on.                    *)
THEOREM TypeCorrect == Spec => [](TypeOK /\ Placed)
<1>1. RegistryInv /\ [Next]_vars => RegistryInv'
  BY RegistryInvStep
<1> QED  BY RegistryInvInit, <1>1, PTL DEF Spec, RegistryInv

-----------------------------------------------------------------------------
(* The slots.  A task that leaves a slot gives it back, and nobody enters a *)
(* slot that is taken.                                                      *)
LEMMA SlotGuardedStep ==
  ASSUME RegistryInv, SlotGuarded, [Next]_vars
  PROVE  SlotGuarded'
<1>types. /\ owner \in [Slots -> Tasks \cup {Poller, None}]
          /\ calls \in [Tasks -> Call]
          /\ \A t \in Tasks : calls[t].pc # "idle" => calls[t].slot \in Slots
  BY DEF RegistryInv, TypeOK, Placed, CallPlaced
<1>none. None \notin Tasks
  BY RegistryConstants
<1>keep. ASSUME NEW t \in Tasks, NEW c, UNCHANGED owner, calls' = [calls EXCEPT ![t] = c],
                c.slot = calls[t].slot \/ calls[t].pc \notin Inside,
                c.pc \in Inside <=> calls[t].pc \in Inside
         PROVE  SlotGuarded'
  BY <1>keep, <1>types DEF SlotGuarded
<1>leave. ASSUME NEW t \in Tasks, NEW c, calls[t].pc \in Inside, Unlock(t),
                 calls' = [calls EXCEPT ![t] = c], c.pc \notin Inside
          PROVE  SlotGuarded'
  <2>1. calls[t].slot \in Slots /\ owner[calls[t].slot] = t
    BY <1>leave, <1>types DEF SlotGuarded, Inside
  <2> QED  BY <1>leave, <1>types, <1>none, <2>1 DEF SlotGuarded, Unlock
<1>ended. \A c \in Call, r \in Results :
            /\ Ended(c, r).pc \notin Inside /\ Ended(Paid(c), r).pc \notin Inside
  BY EndedCall DEF Inside
<1>a. ASSUME NEW t \in Tasks, NEW op \in Ops, NEW v \in Venues,
             Resolve(t, op, v) \/ ResolveFails(t, op, v)
      PROVE  SlotGuarded'
  <2>1. FirstStep(op) \notin Inside
    BY DEF FirstStep, Inside
  <2>2. PICK c : calls' = [calls EXCEPT ![t] = c] /\ c.pc \notin Inside
    <3>1. CASE Resolve(t, op, v)
      <4> DEFINE c == [NoCall EXCEPT !.pc = FirstStep(op), !.op = op, !.venue = v,
                                     !.slot = <<v, gen[v]>>]
      <4>1. calls' = [calls EXCEPT ![t] = c]
        BY <3>1 DEF Resolve
      <4>2. c.pc \notin Inside
        BY <2>1 DEF NoCall
      <4> HIDE DEF c
      <4> QED  BY <4>1, <4>2
    <3>2. CASE ResolveFails(t, op, v)
      <4> DEFINE c == [NoCall EXCEPT !.op = op,
                                     !.result = IF gen[v] = 0 THEN "unknown_venue"
                                                              ELSE "dead"]
      <4>1. calls' = [calls EXCEPT ![t] = c]
        BY <3>2 DEF ResolveFails
      <4>2. c.pc \notin Inside
        BY DEF NoCall, Inside
      <4> HIDE DEF c
      <4> QED  BY <4>1, <4>2
    <3> QED  BY <1>a, <3>1, <3>2
  <2> QED  BY <1>a, <1>keep, <2>2 DEF Resolve, ResolveFails, Inside
<1>b. ASSUME NEW t \in Tasks, Gate(t) \/ ChargeQuote(t) \/ \E r \in Receipts : Observe(t, r)
      PROVE  SlotGuarded'
  <2>1. calls[t].pc \notin Inside /\ UNCHANGED owner /\ calls[t] \in Call
    BY <1>b, <1>types DEF Gate, ChargeQuote, Observe, Inside
  <2>2. PICK c : calls' = [calls EXCEPT ![t] = c] /\ c.pc \notin Inside
    <3>1. ASSUME NEW r \in Results, Finish(t, r)
          PROVE  \E c : calls' = [calls EXCEPT ![t] = c] /\ c.pc \notin Inside
      BY <3>1, <2>1, <1>ended DEF Finish
    <3>2. CASE Gate(t)
      <4>1. CASE Finish(t, "rate_limited")
        BY <4>1, <3>1 DEF Results
      <4>2. CASE Goto(t, IF calls[t].op = "submit" THEN "lock" ELSE "charge")
        <5> DEFINE c == [calls[t] EXCEPT !.pc = IF calls[t].op = "submit" THEN "lock" ELSE "charge"]
        <5>1. calls' = [calls EXCEPT ![t] = c]
          BY <4>2, <1>types DEF Goto
        <5>2. c.pc \notin Inside
          BY <2>1 DEF Call, Inside
        <5> HIDE DEF c
        <5> QED  BY <5>1, <5>2
      <4> QED  BY <3>2, <4>1, <4>2 DEF Gate
    <3>3. CASE ChargeQuote(t)
      <4> DEFINE c == [Paid(calls[t]) EXCEPT !.pc = "lock"]
      <4>1. calls' = [calls EXCEPT ![t] = c]
        BY <3>3 DEF ChargeQuote
      <4>2. c.pc \notin Inside
        BY <2>1 DEF Call, Paid, Inside
      <4> HIDE DEF c
      <4> QED  BY <4>1, <4>2
    <3>4. CASE \E r \in Receipts : Observe(t, r)
      <4>1. PICK r \in Results : Finish(t, r)
        BY <3>4 DEF Observe, Results
      <4> QED  BY <4>1, <3>1
    <3> QED  BY <1>b, <3>2, <3>3, <3>4
  <2> QED  BY <1>keep, <2>1, <2>2
<1>c. ASSUME NEW t \in Tasks, Acquire(t)
      PROVE  SlotGuarded'
  <2>1. calls[t].slot \in Slots /\ owner[calls[t].slot] = None
    BY <1>c, <1>types DEF Acquire
  <2>2. /\ calls'[t].pc \in Inside /\ calls'[t].slot = calls[t].slot
        /\ \A u \in Tasks : u # t => calls'[u] = calls[u]
    BY <1>c, <1>types DEF Acquire, Goto, Call, Inside
  <2>3. calls[t].pc \notin Inside
    BY <1>c DEF Acquire, Inside
  <2>4. /\ owner'[calls[t].slot] = t
        /\ \A s \in Slots : s # calls[t].slot => owner'[s] = owner[s]
    BY <1>c, <1>types, <2>1 DEF Acquire
  <2>5. ASSUME NEW u \in Tasks, calls'[u].pc \in Inside
        PROVE  owner'[calls'[u].slot] = u
    <3>1. CASE u = t
      BY <3>1, <2>2, <2>4
    <3>2. CASE u # t
      <4>1. calls[u].pc \in Inside /\ owner[calls[u].slot] = u /\ calls[u].slot \in Slots
        BY <3>2, <2>2, <2>5, <1>types DEF SlotGuarded, Inside
      <4> QED  BY <3>2, <4>1, <2>1, <2>2, <2>4, <1>none
    <3> QED  BY <3>1, <3>2
  <2>6. ASSUME NEW s \in Slots, owner'[s] \in Tasks
        PROVE  calls'[owner'[s]].pc \in Inside /\ calls'[owner'[s]].slot = s
    <3>1. CASE s = calls[t].slot
      BY <3>1, <2>2, <2>4
    <3>2. CASE s # calls[t].slot
      <4>1. calls[owner[s]].pc \in Inside /\ calls[owner[s]].slot = s /\ owner[s] # t
        BY <3>2, <2>3, <2>4, <2>6 DEF SlotGuarded
      <4> QED  BY <3>2, <4>1, <2>2, <2>4, <2>6
    <3> QED  BY <3>1, <3>2
  <2> QED  BY <2>5, <2>6 DEF SlotGuarded
<1>d. ASSUME NEW t \in Tasks, DeriveHeader(t) \/ \E r \in Receipts : VenueTakes(t, r)
      PROVE  SlotGuarded'
  <2>1. calls[t].pc \in Inside /\ calls[t] \in Call /\ UNCHANGED owner
    BY <1>d, <1>types DEF DeriveHeader, VenueTakes, Inside
  <2>2. /\ calls'[t].pc \in Inside /\ calls'[t].slot = calls[t].slot
        /\ \A u \in Tasks : u # t => calls'[u] = calls[u]
    BY <1>d, <1>types, <2>1 DEF DeriveHeader, VenueTakes, Paid, Call, Inside
  <2> QED  BY <2>1, <2>2 DEF SlotGuarded
<1>e. ASSUME NEW t \in Tasks,
             \/ DeriveInvalid(t) \/ DeriveFails(t) \/ SubmitAccepted(t)
             \/ SubmitNotAccepted(t) \/ Served(t)
      PROVE  SlotGuarded'
  <2>1. calls[t].pc \in Inside /\ Unlock(t) /\ calls[t] \in Call
    BY <1>e, <1>types
    DEF DeriveInvalid, DeriveFails, SubmitAccepted, SubmitNotAccepted, Served, Inside
  <2>2. PICK r \in Results : Finish(t, r) \/ FinishPaid(t, r)
    BY <1>e
    DEF DeriveInvalid, DeriveFails, SubmitAccepted, SubmitNotAccepted, Served, Results
  <2>3. PICK c : calls' = [calls EXCEPT ![t] = c] /\ c.pc \notin Inside
    BY <2>1, <2>2, <1>ended DEF Finish, FinishPaid
  <2> QED  BY <1>leave, <2>1, <2>3
<1>f. ASSUME NEW t \in Tasks, Drop(t)
      PROVE  SlotGuarded'
  <2>1. PICK c : calls' = [calls EXCEPT ![t] = c] /\ c.pc \notin Inside
    BY <1>f, <1>types, <1>ended DEF Drop, Finish, Results
  <2>2. CASE calls[t].pc \in Inside
    BY <1>f, <1>leave, <2>1, <2>2 DEF Drop
  <2>3. CASE calls[t].pc \notin Inside
    BY <1>f, <1>keep, <2>1, <2>3 DEF Drop
  <2> QED  BY <2>2, <2>3
<1>g. ASSUME \/ \E v \in Venues : VenueStep(v)
             \/ Tick
             \/ UNCHANGED vars
      PROVE  SlotGuarded'
  BY <1>g DEF VenueStep, Register, MarkDead, MarkAlive, Tick, vars, SlotGuarded
<1> QED
  BY <1>a, <1>b, <1>c, <1>d, <1>e, <1>f, <1>g
  DEF Next, TaskStep, RegistryStep, AdapterAnswers

(* registry.rs:315, 367: whatever the number of callers and venues and      *)
(* however calls fail or are dropped, a call is inside an adapter exactly   *)
(* while it owns the adapter's slot.                                        *)
THEOREM SlotsExclude == Spec => []SlotGuarded
<1>1. Init => SlotGuarded
  BY RegistryConstants DEF Init, SlotGuarded, NoCall, Inside
<1>2. RegistryInv /\ SlotGuarded /\ [Next]_vars => SlotGuarded'
  BY SlotGuardedStep
<1> QED  BY TypeCorrect, <1>1, <1>2, PTL DEF Spec, RegistryInv

-----------------------------------------------------------------------------
(* The quota.  A call is in the gap when it passed the gate and is not yet  *)
(* charged.  Every step leaves a caller in one of three ways: no more       *)
(* charges and no more calls in the gap; below the limit, as the gate saw   *)
(* it; or one more charge and one call less in the gap.                     *)
InGap(c) == \/ c.pc = "charge"
            \/ c.op = "submit" /\ c.pc \in {"lock", "derive"}

LEMMA AdmittedInGap ==
  ASSUME NEW c \in Callers
  PROVE  Admitted(c) = {t \in TasksOf(c) : InGap(calls[t])}
BY DEF Admitted, InGap

(* A step of task t takes its call out of the gap, or does not put it in. *)
LEMMA GapShrinks ==
  ASSUME RegistryInv, NEW c \in Callers, NEW t \in Tasks, NEW d,
         calls' = [calls EXCEPT ![t] = d]
  PROVE  /\ (InGap(d) => InGap(calls[t])) => Admitted(c)' \subseteq Admitted(c)
         /\ ~InGap(d) => Admitted(c)' \subseteq Admitted(c) \ {t}
<1>1. calls \in [Tasks -> Call]
  BY DEF RegistryInv, TypeOK
<1>2. Admitted(c)' = {u \in TasksOf(c) : InGap(calls'[u])}
  BY DEF Admitted, InGap, TasksOf
<1>3. TasksOf(c) \subseteq Tasks
  BY DEF TasksOf
<1>4. \A u \in Tasks : calls'[u] = IF u = t THEN d ELSE calls[u]
  BY <1>1
<1> HIDE DEF InGap
<1> QED  BY <1>2, <1>3, <1>4, AdmittedInGap

LEMMA QuotaMoves ==
  ASSUME RegistryInv, [Next]_vars, NEW c \in Callers
  PROVE  \/ Len(ledger'[c]) <= Len(ledger[c]) /\ Admitted(c)' \subseteq Admitted(c)
         \/ Len(ledger'[c]) <= ChargeCap - 1
         \/ /\ Len(ledger'[c]) <= Len(ledger[c]) + 1
            /\ \E t \in Admitted(c) : Admitted(c)' \subseteq Admitted(c) \ {t}
<1> DEFINE Goal == \/ Len(ledger'[c]) <= Len(ledger[c]) /\ Admitted(c)' \subseteq Admitted(c)
                   \/ Len(ledger'[c]) <= ChargeCap - 1
                   \/ /\ Len(ledger'[c]) <= Len(ledger[c]) + 1
                      /\ \E t \in Admitted(c) : Admitted(c)' \subseteq Admitted(c) \ {t}
<1>types. /\ ledger \in [Callers -> Seq(Nat)] /\ calls \in [Tasks -> Call] /\ now \in Nat
          /\ CallerOf \in [Tasks -> Callers] /\ ChargeCap \in Nat
  BY RegistryConstants DEF RegistryInv, TypeOK, ChargeCap, AtLeastOne
<1>ended. \A d \in Call, r \in Results :
            ~InGap(Ended(d, r)) /\ ~InGap(Ended(Paid(d), r))
  <2>1. \A d \in Call, r \in Results : Ended(d, r).pc = "idle" /\ Ended(Paid(d), r).pc = "idle"
    BY EndedCall
  <2> QED  BY <2>1 DEF InGap
(* A call that ends, or moves on outside the gap, without a charge. *)
<1>free. ASSUME NEW t \in Tasks, NEW d, calls' = [calls EXCEPT ![t] = d],
                InGap(d) => InGap(calls[t]), UNCHANGED ledger
         PROVE  Goal
  <2>1. Admitted(c)' \subseteq Admitted(c)
    BY <1>free, GapShrinks
  <2> QED  BY <1>free, <1>types, <2>1
<1>finish. ASSUME NEW t \in Tasks, NEW r \in Results, Finish(t, r), UNCHANGED ledger
           PROVE  Goal
  <2>1. calls' = [calls EXCEPT ![t] = Ended(calls[t], r)]
    BY <1>finish DEF Finish
  <2> QED  BY <1>free, <1>finish, <1>types, <1>ended, <2>1
(* A call in the gap that is charged and leaves the gap. *)
<1>paid. ASSUME NEW t \in Tasks, NEW d, calls' = [calls EXCEPT ![t] = d],
                ~InGap(d), InGap(calls[t]), Charge(Caller(t))
         PROVE  Goal
  <2>1. CASE CallerOf[t] = c
    <3>1. t \in Admitted(c)
      BY <1>paid, <2>1, AdmittedInGap DEF TasksOf
    <3>2. Len(ledger'[c]) <= Len(ledger[c]) + 1
      <4>1. Len(Append(Prune(ledger[c]), now)) <= Len(ledger[c]) + 1
        BY ChargeLengthens DEF RegistryInv
      <4> HIDE DEF Prune
      <4> QED  BY <1>paid, <2>1, <4>1, <1>types DEF Charge, Caller
    <3> QED  BY <1>paid, <3>1, <3>2, GapShrinks
  <2>2. CASE CallerOf[t] # c
    <3>1. ledger'[c] = ledger[c]
      BY <1>paid, <2>2, <1>types DEF Charge, Caller
    <3>2. Len(ledger'[c]) <= Len(ledger[c])
      BY <3>1, <1>types
    <3> QED  BY <1>paid, <3>2, GapShrinks
  <2> QED  BY <2>1, <2>2
<1>a. ASSUME NEW t \in Tasks, NEW op \in Ops, NEW v \in Venues, Resolve(t, op, v)
      PROVE  Goal
  <2> DEFINE d == [NoCall EXCEPT !.pc = FirstStep(op), !.op = op, !.venue = v,
                                 !.slot = <<v, gen[v]>>]
  <2>1. d.pc = FirstStep(op) /\ d.op = op
    BY DEF NoCall
  <2>2. op = "submit" => FirstStep(op) = "gate"
    BY DEF FirstStep
  <2>3. FirstStep(op) # "charge"
    BY DEF FirstStep
  <2>4. calls' = [calls EXCEPT ![t] = d] /\ UNCHANGED ledger
    BY <1>a DEF Resolve
  <2> HIDE DEF d
  <2>5. ~InGap(d)
    BY <2>1, <2>2, <2>3 DEF InGap
  <2> QED  BY <1>free, <2>4, <2>5
<1>b. ASSUME NEW t \in Tasks, NEW op \in Ops, NEW v \in Venues, ResolveFails(t, op, v)
      PROVE  Goal
  <2> DEFINE d == [NoCall EXCEPT !.op = op, !.result = IF gen[v] = 0 THEN "unknown_venue"
                                                                     ELSE "dead"]
  <2>1. d.pc = "idle"
    BY DEF NoCall
  <2>2. calls' = [calls EXCEPT ![t] = d] /\ UNCHANGED ledger
    BY <1>b DEF ResolveFails
  <2> HIDE DEF d
  <2>3. ~InGap(d)
    BY <2>1 DEF InGap
  <2> QED  BY <1>free, <2>2, <2>3
<1>c. ASSUME NEW t \in Tasks, Gate(t)
      PROVE  Goal
  <2>1. CASE CallerOf[t] # c
    <3>1. ledger'[c] = ledger[c]
      BY <1>c, <2>1, <1>types DEF Gate, Caller
    <3>2. \A u \in TasksOf(c) : calls'[u] = calls[u]
      BY <1>c, <2>1, <1>types DEF Gate, Goto, Finish, TasksOf
    <3>3. Admitted(c)' \subseteq Admitted(c)
      <4>1. Admitted(c)' = {u \in TasksOf(c) : InGap(calls'[u])}
        BY DEF Admitted, InGap, TasksOf
      <4> HIDE DEF InGap
      <4> QED  BY <3>2, <4>1, AdmittedInGap
    <3> QED  BY <3>1, <3>3, <1>types
  <2>2. CASE CallerOf[t] = c /\ HasBudget(c)
    <3>1. Prune(ledger[c]) \in Seq(Nat) /\ ledger'[c] = Prune(ledger[c])
      <4>1. Prune(ledger[c]) \in Seq(Nat)
        BY <1>types, PruneShortens
      <4> HIDE DEF Prune
      <4> QED  BY <1>c, <2>2, <4>1, <1>types DEF Gate, Caller
    <3>2. Len(Prune(ledger[c])) < ChargeCap
      BY <2>2 DEF HasBudget
    <3> HIDE DEF Prune, ChargeCap
    <3> QED  BY <3>1, <3>2, <1>types
  <2>3. CASE CallerOf[t] = c /\ ~HasBudget(c)
    <3>1. Len(ledger'[c]) <= Len(ledger[c])
      <4>1. Len(Prune(ledger[c])) <= Len(ledger[c])
        BY <1>types, PruneShortens
      <4>2. ledger'[c] = Prune(ledger[c])
        <5> HIDE DEF Prune
        <5> QED  BY <1>c, <2>3, <1>types DEF Gate, Caller
      <4> QED  BY <4>1, <4>2
    <3>2. calls' = [calls EXCEPT ![t] = Ended(calls[t], "rate_limited")]
      BY <1>c, <2>3 DEF Gate, Finish, Caller
    <3>3. ~InGap(Ended(calls[t], "rate_limited"))
      BY <1>types, <1>ended DEF Results
    <3>4. Admitted(c)' \subseteq Admitted(c)
      BY <3>2, <3>3, GapShrinks
    <3> QED  BY <3>1, <3>4
  <2> QED  BY <2>1, <2>2, <2>3
<1>d. ASSUME NEW t \in Tasks, ChargeQuote(t)
      PROVE  Goal
  <2> DEFINE d == [Paid(calls[t]) EXCEPT !.pc = "lock"]
  <2>1. calls[t] \in Call /\ calls[t].op # "submit" /\ calls[t].pc = "charge"
    BY <1>d, <1>types DEF ChargeQuote, RegistryInv, Placed, CallPlaced
  <2>2. d.pc = "lock" /\ d.op = calls[t].op
    BY <2>1 DEF Paid, Call
  <2>3. calls' = [calls EXCEPT ![t] = d] /\ Charge(Caller(t))
    BY <1>d DEF ChargeQuote
  <2> HIDE DEF d
  <2>4. ~InGap(d) /\ InGap(calls[t])
    BY <2>1, <2>2 DEF InGap
  <2> QED  BY <1>paid, <2>3, <2>4
<1>e. ASSUME NEW t \in Tasks, Acquire(t)
      PROVE  Goal
  <2> DEFINE d == [calls[t] EXCEPT !.pc = IF calls[t].op = "submit" THEN "derive" ELSE "serve"]
  <2>1. calls[t] \in Call /\ calls[t].pc = "lock"
    BY <1>e, <1>types DEF Acquire
  <2>2. d.op = calls[t].op /\ d.pc = IF calls[t].op = "submit" THEN "derive" ELSE "serve"
    BY <2>1 DEF Call
  <2>3. calls' = [calls EXCEPT ![t] = d] /\ UNCHANGED ledger
    BY <1>e, <1>types DEF Acquire, Goto
  <2> HIDE DEF d
  <2>4. InGap(d) => InGap(calls[t])
    BY <2>1, <2>2 DEF InGap
  <2> QED  BY <1>free, <2>3, <2>4
<1>f. ASSUME NEW t \in Tasks, DeriveHeader(t)
      PROVE  Goal
  <2> DEFINE d == [Paid(calls[t]) EXCEPT !.pc = "post"]
  <2>1. calls[t] \in Call /\ calls[t].op = "submit" /\ calls[t].pc = "derive"
    BY <1>f, <1>types DEF DeriveHeader, RegistryInv, Placed, CallPlaced
  <2>2. d.pc = "post"
    BY <2>1 DEF Paid, Call
  <2>3. calls' = [calls EXCEPT ![t] = d] /\ Charge(Caller(t))
    BY <1>f DEF DeriveHeader
  <2> HIDE DEF d
  <2>4. ~InGap(d) /\ InGap(calls[t])
    BY <2>1, <2>2 DEF InGap
  <2> QED  BY <1>paid, <2>3, <2>4
<1>g. ASSUME NEW t \in Tasks, DeriveInvalid(t)
      PROVE  Goal
  <2>1. calls[t] \in Call /\ calls[t].op = "submit" /\ calls[t].pc = "derive"
    BY <1>g, <1>types DEF DeriveInvalid, RegistryInv, Placed, CallPlaced
  <2>2. /\ calls' = [calls EXCEPT ![t] = Ended(Paid(calls[t]), "invalid_body")]
        /\ Charge(Caller(t))
    BY <1>g DEF DeriveInvalid, FinishPaid
  <2>3. ~InGap(Ended(Paid(calls[t]), "invalid_body"))
    BY <2>1, <1>ended DEF Results
  <2>4. InGap(calls[t])
    BY <2>1 DEF InGap
  <2> QED  BY <1>paid, <2>2, <2>3, <2>4
<1>h. ASSUME NEW t \in Tasks, NEW r \in Receipts, VenueTakes(t, r)
      PROVE  Goal
  <2> DEFINE d == [calls[t] EXCEPT !.pc = "posted", !.receipt = r]
  <2>1. d.pc = "posted"
    BY <1>types DEF Call
  <2>2. calls' = [calls EXCEPT ![t] = d] /\ UNCHANGED ledger
    BY <1>h, <1>types DEF VenueTakes
  <2> HIDE DEF d
  <2>3. ~InGap(d)
    BY <2>1 DEF InGap
  <2> QED  BY <1>free, <2>2, <2>3
<1>i. ASSUME NEW t \in Tasks,
             \/ DeriveFails(t) \/ SubmitAccepted(t) \/ SubmitNotAccepted(t)
             \/ Served(t) \/ Drop(t) \/ \E r \in Receipts : Observe(t, r)
      PROVE  Goal
  <2>1. PICK r \in Results : Finish(t, r)
    BY <1>i
    DEF DeriveFails, SubmitAccepted, SubmitNotAccepted, Served, Drop, Observe, Results
  <2>2. UNCHANGED ledger
    BY <1>i DEF DeriveFails, SubmitAccepted, SubmitNotAccepted, Served, Drop, Observe
  <2> QED  BY <1>finish, <2>1, <2>2
<1>j. ASSUME (\E v \in Venues : VenueStep(v)) \/ Tick \/ UNCHANGED vars
      PROVE  Goal
  <2>1. UNCHANGED <<ledger, calls>>
    BY <1>j DEF VenueStep, Register, MarkDead, MarkAlive, Tick, vars
  <2>2. Admitted(c)' = Admitted(c)
    BY <2>1 DEF Admitted, TasksOf
  <2> QED  BY <1>types, <2>1, <2>2
<1> HIDE DEF Goal
<1>k. Goal
  BY <1>a, <1>b, <1>c, <1>d, <1>e, <1>f, <1>g, <1>h, <1>i, <1>j
  DEF Next, TaskStep, RegistryStep, AdapterAnswers
<1> QED  BY <1>k DEF Goal

(* Cardinalities of the calls in the gap. *)
LEMMA GapSize ==
  ASSUME NEW c \in Callers
  PROVE  /\ IsFiniteSet(TasksOf(c)) /\ Cardinality(TasksOf(c)) \in Nat
         /\ Admitted(c) \subseteq TasksOf(c)
         /\ \A S \in SUBSET TasksOf(c) :
              /\ IsFiniteSet(S) /\ Cardinality(S) \in Nat
              /\ Cardinality(S) <= Cardinality(TasksOf(c))
<1>1. TasksOf(c) \subseteq Tasks /\ IsFiniteSet(Tasks)
  BY RegistryConstants DEF TasksOf
<1>2. IsFiniteSet(TasksOf(c))
  BY <1>1, FS_Subset
<1>3. Admitted(c) \subseteq TasksOf(c)
  BY DEF Admitted
<1>4. ASSUME NEW S \in SUBSET TasksOf(c)
      PROVE  /\ IsFiniteSet(S) /\ Cardinality(S) \in Nat
             /\ Cardinality(S) <= Cardinality(TasksOf(c))
  <2>1. IsFiniteSet(S) /\ Cardinality(S) <= Cardinality(TasksOf(c))
    BY <1>2, FS_Subset
  <2> QED  BY <2>1, FS_CardinalityType
<1> QED  BY <1>2, <1>3, <1>4, FS_CardinalityType

(* The inductive step of the quota: each of the three ways keeps the sum of *)
(* charges and calls in the gap within what it was, or within the limit.    *)
LEMMA QuotaBoundStep ==
  ASSUME RegistryInv, QuotaBound, [Next]_vars
  PROVE  QuotaBound'
<1> SUFFICES ASSUME NEW c \in Callers
             PROVE  Len(ledger'[c]) + Cardinality(Admitted(c)')
                      <= ChargeCap - 1 + Cardinality(TasksOf(c))
  BY DEF QuotaBound, TasksOf
<1> DEFINE A == Admitted(c)
           B == Admitted(c)'
           T == TasksOf(c)
<1>1. Len(ledger[c]) + Cardinality(A) <= ChargeCap - 1 + Cardinality(T)
  BY DEF QuotaBound
<1>2. /\ Len(ledger[c]) \in Nat /\ Len(ledger'[c]) \in Nat /\ ChargeCap \in Nat
  <2>1. RegistryInv'
    BY RegistryInvStep
  <2> QED  BY <2>1, RegistryConstants DEF RegistryInv, TypeOK, ChargeCap, AtLeastOne
<1>3. /\ IsFiniteSet(T) /\ Cardinality(T) \in Nat /\ A \subseteq T
      /\ \A S \in SUBSET T : /\ IsFiniteSet(S) /\ Cardinality(S) \in Nat
                             /\ Cardinality(S) <= Cardinality(T)
  BY GapSize
<1>4. B \subseteq T
  BY DEF Admitted, TasksOf
<1>5. \/ Len(ledger'[c]) <= Len(ledger[c]) /\ B \subseteq A
      \/ Len(ledger'[c]) <= ChargeCap - 1
      \/ Len(ledger'[c]) <= Len(ledger[c]) + 1 /\ \E t \in A : B \subseteq A \ {t}
  BY QuotaMoves
<1> HIDE DEF A, B, T
<1>6. /\ IsFiniteSet(A) /\ Cardinality(A) \in Nat /\ Cardinality(B) \in Nat
      /\ Cardinality(B) <= Cardinality(T)
  BY <1>3, <1>4
<1>7. CASE Len(ledger'[c]) <= Len(ledger[c]) /\ B \subseteq A
  <2>1. Cardinality(B) <= Cardinality(A)
    BY <1>6, <1>7, FS_Subset
  <2> QED  BY <1>1, <1>2, <1>3, <1>6, <1>7, <2>1 DEF B, T
<1>8. CASE Len(ledger'[c]) <= ChargeCap - 1
  BY <1>2, <1>3, <1>6, <1>8 DEF B, T
<1>9. CASE Len(ledger'[c]) <= Len(ledger[c]) + 1 /\ \E t \in A : B \subseteq A \ {t}
  <2>1. PICK t \in A : B \subseteq A \ {t}
    BY <1>9
  <2>2. IsFiniteSet(A \ {t}) /\ Cardinality(A \ {t}) = Cardinality(A) - 1
    BY <1>6, FS_RemoveElement
  <2>3. Cardinality(B) <= Cardinality(A) - 1
    BY <2>1, <2>2, FS_Subset
  <2> QED  BY <1>1, <1>2, <1>3, <1>6, <1>9, <2>3 DEF B, T
<1> QED  BY <1>5, <1>7, <1>8, <1>9

LEMMA QuotaBoundInit == Init => QuotaBound
<1> SUFFICES ASSUME Init, NEW c \in Callers
             PROVE  Len(ledger[c]) + Cardinality(Admitted(c))
                      <= ChargeCap - 1 + Cardinality(TasksOf(c))
  BY DEF QuotaBound
<1>1. ledger[c] = <<>>
  BY DEF Init
<1>2. Admitted(c) = {}
  BY DEF Init, Admitted, TasksOf, NoCall
<1>3. Cardinality(Admitted(c)) = 0
  BY <1>2, FS_EmptySet
<1>4. ChargeCap \in Nat /\ ChargeCap >= 1
  BY RegistryConstants DEF ChargeCap, AtLeastOne
<1>5. Cardinality(TasksOf(c)) \in Nat
  BY GapSize
<1> HIDE DEF ChargeCap
<1> QED  BY <1>1, <1>3, <1>4, <1>5

(* registry.rs:280-293, 310, 333: whatever the limit, the window and the    *)
(* number of tasks, a caller overruns its budget by fewer charges than it   *)
(* has tasks, so one with a single task never overruns it.                  *)
THEOREM QuotaHolds == Spec => []QuotaBound
<1>1. RegistryInv /\ QuotaBound /\ [Next]_vars => QuotaBound'
  BY QuotaBoundStep
<1> QED  BY TypeCorrect, QuotaBoundInit, <1>1, PTL DEF Spec, RegistryInv

(* policy.rs:46: what is said of the limit, that a caller accrues no more   *)
(* charges within a window, is true of callers with one call at a time (the *)
(* run quota_overrun has a caller with two, of whom it is not).             *)
THEOREM BudgetOfOneCallAtATime ==
  ASSUME \A t, u \in Tasks : CallerOf[t] = CallerOf[u] => t = u
  PROVE  Spec => []ChargesWithinBudget
<1>1. ASSUME TypeOK, QuotaBound
      PROVE  ChargesWithinBudget
  <2> SUFFICES ASSUME NEW c \in Callers
               PROVE  Recent(c) <= ChargeCap
    BY DEF ChargesWithinBudget
  <2> DEFINE h == ledger[c]
             recent == {i \in DOMAIN h : ~Aged(h[i])}
  <2>1. h \in Seq(Nat) /\ Len(h) \in Nat /\ DOMAIN h = 1 .. Len(h)
    BY <1>1 DEF TypeOK
  <2>2. Cardinality(recent) \in Nat /\ Cardinality(recent) <= Len(h)
    <3> DEFINE n == Len(h)
               D == 1 .. n
    <3>1. IsFiniteSet(D) /\ Cardinality(D) = n
      BY <2>1, FS_Interval
    <3>2. recent \in SUBSET D
      BY <2>1
    <3> HIDE DEF h, recent, n, D
    <3>3. IsFiniteSet(recent) /\ Cardinality(recent) <= n
      BY <3>1, <3>2, FS_Subset
    <3>4. Cardinality(recent) \in Nat
      BY <3>3, FS_CardinalityType
    <3> QED  BY <3>3, <3>4 DEF n
  <2>3. Cardinality(TasksOf(c)) \in Nat /\ Cardinality(TasksOf(c)) <= 1
    <3>1. TasksOf(c) = {} \/ \E t : TasksOf(c) = {t}
      BY DEF TasksOf
    <3>2. CASE TasksOf(c) = {}
      <4>1. Cardinality(TasksOf(c)) = 0
        BY <3>2, FS_EmptySet
      <4> QED  BY <4>1
    <3>3. ASSUME NEW t, TasksOf(c) = {t}
          PROVE  Cardinality(TasksOf(c)) = 1
      <4>1. Cardinality({t}) = 1
        BY FS_Singleton
      <4> QED  BY <3>3, <4>1
    <3> QED  BY <3>1, <3>2, <3>3
  <2>4. Len(h) + Cardinality(Admitted(c)) <= ChargeCap - 1 + Cardinality(TasksOf(c))
    BY <1>1 DEF QuotaBound
  <2>5. ChargeCap \in Nat /\ Cardinality(Admitted(c)) \in Nat
    BY GapSize, RegistryConstants DEF ChargeCap, AtLeastOne
  <2>6. Recent(c) = Cardinality(recent)
    BY DEF Recent
  <2> HIDE DEF h, recent, ChargeCap
  <2> QED  BY <2>1, <2>2, <2>3, <2>4, <2>5, <2>6
<1> QED  BY TypeCorrect, QuotaHolds, <1>1, PTL

=============================================================================
