----------------------------- MODULE PollProofs -----------------------------
(***************************************************************************)
(* Theorems about StatusPoll, the sweep next to the calls: its types, its   *)
(* share in the exclusion of the adapter slots, what it leaves of the       *)
(* registry's promises to its callers, the ways a watch ends and the order  *)
(* in which changes are recorded.                                           *)
(*                                                                          *)
(* A step is either a step of a call, for which the lemmas of the registry  *)
(* apply as they stand, or a step that leaves the calls alone and touches   *)
(* the slots and the watch list in one of few ways (SweepMoves).            *)
(*                                                                         *)
(* The last parts are the delivery of the changes the sweep records, and    *)
(* the refinement of StatusFeed by list and queues together.                *)
(***************************************************************************)
EXTENDS StatusPoll, CallProofs

(* What the step of the sweep says of its other fields. *)
PollPlaced ==
  /\ poll.pc \in {"lock", "ask", "record"} => poll.key \in Keys
  /\ poll.pc \in {"lock", "ask"} => poll.slot \in Slots
  /\ poll.pc = "record" => poll.status \in Statuses

PollInv ==
  /\ RegistryInv /\ SlotGuarded /\ WatchInv
  /\ PollTypeOK /\ PollPlaced /\ PollerGuarded

(* Every step that is not a step of a call. *)
SweepNext ==
  \/ PollStep \/ PollAcquire \/ StatusAnswered \/ StatusFailed \/ SendUnencodable
  \/ Receive \/ ReceiverDrops
  \/ \E k \in Keys, st \in Statuses : VenueMoves(k, st)

-----------------------------------------------------------------------------
(* What the sweep does to a slot: nothing, enter a free one, or leave it.   *)
Enters == /\ poll.pc = "lock" /\ owner[poll.slot] = None
          /\ owner' = [owner EXCEPT ![poll.slot] = Poller]
          /\ poll'.pc = "ask" /\ poll'.slot = poll.slot

Leaves == /\ poll.pc = "ask" /\ poll'.pc # "ask"
          /\ owner' = [owner EXCEPT ![poll.slot] = None]

StaysOut == UNCHANGED owner /\ poll.pc # "ask" /\ poll'.pc # "ask"

Looks == UNCHANGED <<owner, poll>>

(* What it does to the watch list: nothing, prune it, or replace the entry  *)
(* of the receipt it asked about by one of the same receipt or by none.     *)
Replaces(e, x) ==
  /\ e \in watched /\ Key(e) = poll.key /\ poll.pc = "record"
  /\ \/ watched' = watched \ {e} /\ poll.status \in Terminal
        /\ updates' = Append(updates, <<poll.key, poll.status>>)
     \/ /\ watched' = (watched \ {e}) \cup {x}
        /\ x \in Watch /\ x.venue = e.venue /\ x.receipt = e.receipt
        /\ x.last \in {e.last, poll.status}

WatchesStay == UNCHANGED watched \/ watched' = Unexpired \/ \E e, x : Replaces(e, x)

LEMMA RefreshedEntry ==
  ASSUME TypeOK, NEW w \in watched, NEW st \in Statuses
  PROVE  /\ Refreshed(w) \in Watch
         /\ Refreshed(w).venue = w.venue /\ Refreshed(w).receipt = w.receipt
         /\ Refreshed(w).last = w.last
         /\ [Refreshed(w) EXCEPT !.last = st] \in Watch
         /\ [Refreshed(w) EXCEPT !.last = st].venue = w.venue
         /\ [Refreshed(w) EXCEPT !.last = st].receipt = w.receipt
         /\ [Refreshed(w) EXCEPT !.last = st].last = st
<1>1. now + Grace \in Nat /\ w \in Watch /\ st \in Lifecycle
  BY RegistryConstants, PollConstants DEF TypeOK
<1> QED  BY <1>1 DEF Refreshed, Watch

LEMMA OneEntry ==
  ASSUME WatchInv, NEW e \in Entry
  PROVE  Entry = {e}
<1>1. \A w \in Entry : w.venue = e.venue /\ w.receipt = e.receipt
  BY DEF Entry, Key
<1> QED  BY <1>1 DEF Entry, WatchInv, WatchBounded

LEMMA SnapshotRecord ==
  ASSUME Snapshot
  PROVE  poll' = [pc |-> "visit", todo |-> {Key(w) : w \in Unexpired}, key |-> None,
                  slot |-> None, status |-> "none"]
<1> DEFINE K == {Key(w) : w \in Unexpired}
<1>1. poll' = [Idle EXCEPT !.pc = "visit", !.todo = K]
  BY DEF Snapshot
<1> HIDE DEF K
<1>2. poll' = [pc |-> "visit", todo |-> K, key |-> None, slot |-> None, status |-> "none"]
  BY <1>1 DEF Idle
<1> QED  BY <1>2 DEF K

LEMMA SweepMoves ==
  ASSUME PollInv, SweepNext
  PROVE  /\ UNCHANGED <<gen, alive, ledger, now, calls>>
         /\ Enters \/ Leaves \/ StaysOut \/ Looks
         /\ WatchesStay
<1>types. /\ TypeOK /\ WatchInv
          /\ poll \in [pc : {"sleep", "visit", "lock", "ask", "record", "send", "ended"},
                       todo : SUBSET Keys, key : Keys \cup {None}, slot : Slots \cup {None},
                       status : Statuses \cup {"none"}]
  BY DEF PollInv, PollTypeOK
<1>placed. poll.pc = "record" => poll.status \in Statuses
  BY DEF PollInv, PollPlaced
<1>1. UNCHANGED <<gen, alive, ledger, now, calls>>
  BY DEF SweepNext, PollStep, Snapshot, Visit, Skip, RecordGone, RecordSame, RecordUnencodable,
         RecordRefresh, RecordChange, SweepDone, Send, SendClosed, SendDone, PollAcquire,
         StatusAnswered, StatusFailed, SendUnencodable, Receive, ReceiverDrops, VenueMoves, vars
<1>2. Enters \/ Leaves \/ StaysOut \/ Looks
  <2>1. CASE PollAcquire
    BY <1>types, <2>1 DEF PollAcquire, Enters
  <2>2. CASE StatusAnswered \/ StatusFailed
    BY <1>types, <2>2 DEF StatusAnswered, StatusFailed, Leaves
  <2>3. CASE PollStep
    <3>1. CASE Snapshot \/ SendDone
      <4>1. poll.pc # "ask" /\ UNCHANGED owner
        BY <3>1 DEF Snapshot, SendDone, vars
      <4>2. poll'.pc \in {"visit", "sleep"}
        BY <3>1, SnapshotRecord DEF SendDone, Idle
      <4> QED  BY <4>1, <4>2 DEF StaysOut
    <3>5. CASE SweepDone \/ SendClosed
      BY <1>types, <3>5 DEF SweepDone, SendClosed, vars, StaysOut
    <3>2. CASE \E k \in Keys : Visit(k) \/ Skip(k)
      BY <1>types, <3>2 DEF Visit, Skip, vars, StaysOut
    <3>3. CASE RecordGone \/ RecordSame \/ RecordUnencodable \/ RecordChange
      <4>1. poll.pc = "record" /\ Recorded /\ UNCHANGED owner
        BY <3>3 DEF RecordGone, RecordSame, RecordUnencodable, RecordRefresh, RecordChange, vars
      <4> QED  BY <1>types, <4>1 DEF Recorded, StaysOut
    <3>4. CASE Send
      BY <3>4 DEF Send, vars, Looks
    <3> QED  BY <2>3, <3>1, <3>2, <3>3, <3>4, <3>5 DEF PollStep
  <2>4. CASE \/ SendUnencodable \/ Receive \/ ReceiverDrops
             \/ \E k \in Keys, st \in Statuses : VenueMoves(k, st)
    BY <2>4 DEF SendUnencodable, Receive, ReceiverDrops, VenueMoves, vars, pollVars, Looks
  <2> QED  BY <2>1, <2>2, <2>3, <2>4 DEF SweepNext
<1>3. WatchesStay
  <2>1. CASE RecordSame \/ RecordUnencodable
    <3>1. RecordRefresh
      BY <2>1 DEF RecordSame, RecordUnencodable
    <3>2. PICK e : e \in Entry
      BY <3>1 DEF RecordRefresh
    <3>3. e \in watched /\ Key(e) = poll.key
      BY <3>2 DEF Entry
    <3>4. watched' = (watched \ {e}) \cup {Refreshed(e)}
      BY <1>types, <3>1, <3>2, OneEntry DEF RecordRefresh
    <3>5. Replaces(e, Refreshed(e))
      <4> HIDE DEF Refreshed
      <4> QED  BY <1>types, <3>1, <3>3, <3>4, PollConstants, RefreshedEntry
               DEF Replaces, RecordRefresh
    <3> QED  BY <3>5 DEF WatchesStay
  <2>2. CASE RecordChange
    <3>1. PICK e \in Entry : watched' = (watched \ {e}) \cup Advanced(e, poll.status)
      BY <2>2 DEF RecordChange
    <3>2. e \in watched /\ Key(e) = poll.key /\ poll.pc = "record" /\ poll.status \in Statuses
      BY <1>placed, <2>2, <3>1 DEF Entry, RecordChange
    <3>3. CASE poll.status \in Terminal
      <4>1. Replaces(e, e)
        BY <2>2, <3>1, <3>2, <3>3 DEF Replaces, Advanced, RecordChange
      <4> QED  BY <4>1 DEF WatchesStay
    <3>4. CASE poll.status \notin Terminal
      <4> DEFINE x == [Refreshed(e) EXCEPT !.last = poll.status]
      <4>1. x \in Watch /\ x.venue = e.venue /\ x.receipt = e.receipt /\ x.last = poll.status
        BY <1>types, <3>2, RefreshedEntry
      <4>2. watched' = (watched \ {e}) \cup {x}
        BY <3>1, <3>4 DEF Advanced
      <4> HIDE DEF x
      <4>3. Replaces(e, x)
        BY <3>2, <4>1, <4>2 DEF Replaces
      <4> QED  BY <4>3 DEF WatchesStay
    <3> QED  BY <3>3, <3>4
  <2>3. CASE Snapshot
    BY <2>3 DEF Snapshot, WatchesStay
  <2>4. CASE SweepNext /\ ~RecordSame /\ ~RecordUnencodable /\ ~RecordChange /\ ~Snapshot
    BY <2>4
    DEF SweepNext, PollStep, Visit, Skip, RecordGone, SweepDone, Send, SendClosed, SendDone,
        PollAcquire, StatusAnswered, StatusFailed, SendUnencodable, Receive, ReceiverDrops,
        VenueMoves, vars, WatchesStay
  <2> QED  BY <2>1, <2>2, <2>3, <2>4
<1> QED  BY <1>1, <1>2, <1>3

-----------------------------------------------------------------------------
(* The steps that are not a call's keep the registry's invariants.          *)
LEMMA SweepKeepsRegistry ==
  ASSUME PollInv, SweepNext
  PROVE  RegistryInv' /\ SlotGuarded' /\ PollerGuarded'
<1>types. /\ owner \in [Slots -> Tasks \cup {Poller, None}] /\ watched \subseteq Watch
          /\ poll.pc \in {"lock", "ask"} => poll.slot \in Slots
  BY DEF PollInv, RegistryInv, TypeOK, PollPlaced
<1>calls. UNCHANGED <<gen, alive, ledger, now, calls>>
  BY SweepMoves
<1>none. Poller \notin Tasks /\ None \notin Tasks /\ None # Poller
  BY RegistryConstants
<1>1. watched' \subseteq Watch
  BY <1>types, SweepMoves DEF WatchesStay, Replaces, Unexpired
<1>2. /\ owner' \in [Slots -> Tasks \cup {Poller, None}]
      /\ \A s \in Slots : (owner'[s] \in Tasks \/ owner[s] \in Tasks) => owner'[s] = owner[s]
      /\ PollerGuarded'
  <2>1. CASE Enters
    BY <1>types, <1>none, <2>1 DEF Enters, PollInv, PollerGuarded
  <2>2. CASE Leaves
    BY <1>types, <1>none, <2>2 DEF Leaves, PollInv, PollerGuarded
  <2>3. CASE StaysOut \/ Looks
    BY <1>types, <2>3 DEF StaysOut, Looks, PollInv, PollerGuarded
  <2> QED  BY <2>1, <2>2, <2>3, SweepMoves
<1>3. RegistryInv'
  <2>1. /\ gen \in [Venues -> 0 .. MaxGen] /\ alive \in [Venues -> BOOLEAN]
        /\ ledger \in [Callers -> Seq(Nat)] /\ now \in Nat /\ calls \in [Tasks -> Call] /\ Placed
    BY DEF PollInv, RegistryInv, TypeOK
  <2>2. TypeOK'
    BY <1>calls, <1>1, <1>2, <2>1 DEF TypeOK
  <2>3. Placed'
    BY <1>calls, <2>1 DEF Placed, CallPlaced
  <2> QED  BY <2>2, <2>3 DEF RegistryInv
<1>4. SlotGuarded'
  <2>1. \A t \in Tasks : calls[t].pc \in Inside =>
          calls[t].slot \in Slots /\ owner[calls[t].slot] = t
    BY DEF PollInv, RegistryInv, SlotGuarded, Placed, CallPlaced, Inside
  <2>2. \A s \in Slots : owner[s] \in Tasks =>
          calls[owner[s]].pc \in Inside /\ calls[owner[s]].slot = s
    BY DEF PollInv, SlotGuarded
  <2>3. \A t \in Tasks : calls'[t].pc \in Inside => owner'[calls'[t].slot] = t
    BY <1>calls, <1>2, <2>1
  <2>4. \A s \in Slots : owner'[s] \in Tasks =>
          calls'[owner'[s]].pc \in Inside /\ calls'[owner'[s]].slot = s
    BY <1>calls, <1>2, <2>2
  <2> QED  BY <2>3, <2>4 DEF SlotGuarded
<1> QED  BY <1>2, <1>3, <1>4

LEMMA SweepKeepsWatches ==
  ASSUME PollInv, SweepNext
  PROVE  WatchInv'
<1>inv. IsFiniteSet(watched) /\ WatchBounded /\ WatchInv
  BY DEF PollInv, WatchInv
<1>nat. /\ Cardinality(watched) \in Nat /\ WatchCap \in Nat /\ Cardinality(watched) <= WatchCap
  BY <1>inv, FS_CardinalityType, RegistryConstants DEF WatchCap, AtLeastOne, WatchBounded
<1>1. CASE UNCHANGED watched
  BY <1>inv, <1>1 DEF WatchInv, WatchBounded
<1>2. CASE watched' = Unexpired
  BY <1>inv, <1>nat, <1>2, UnexpiredFits DEF WatchInv, WatchBounded
<1>3. ASSUME NEW e, NEW x, Replaces(e, x)
      PROVE  WatchInv'
  <2> DEFINE rest == watched \ {e}
  <2>1. IsFiniteSet(rest) /\ Cardinality(rest) = Cardinality(watched) - 1 /\ e \in watched
    BY <1>inv, <1>3, FS_RemoveElement DEF Replaces
  <2>2. \A w, y \in rest : w.venue = y.venue /\ w.receipt = y.receipt => w = y
    BY <1>inv DEF WatchBounded
  <2>3. \A w \in rest : ~(w.venue = e.venue /\ w.receipt = e.receipt)
    BY <1>inv, <2>1 DEF WatchBounded
  <2>4. \/ watched' = rest
        \/ watched' = rest \cup {x} /\ x.venue = e.venue /\ x.receipt = e.receipt
    BY <1>3 DEF Replaces
  <2> HIDE DEF rest
  <2>5. IsFiniteSet(watched') /\ Cardinality(watched') <= Cardinality(watched)
    <3>1. /\ IsFiniteSet(rest \cup {x})
          /\ Cardinality(rest \cup {x}) = Cardinality(rest)
             \/ Cardinality(rest \cup {x}) = Cardinality(rest) + 1
      BY <2>1, FS_AddElement
    <3>2. CASE watched' = rest
      <4>1. Cardinality(watched') = Cardinality(watched) - 1
        BY <2>1, <3>2
      <4> QED  BY <1>nat, <2>1, <3>2, <4>1
    <3>3. CASE watched' = rest \cup {x}
      <4>1. /\ IsFiniteSet(watched')
            /\ Cardinality(watched') \in {Cardinality(watched) - 1, Cardinality(watched) - 1 + 1}
        BY <2>1, <3>1, <3>3
      <4> QED  BY <1>nat, <4>1
    <3> QED  BY <2>4, <3>2, <3>3
  <2>6. Cardinality(watched') \in Nat
    BY <2>5, FS_CardinalityType
  <2>7. Cardinality(watched') <= WatchCap
    BY <1>nat, <2>5, <2>6
  <2>8. \A w, y \in watched' : w.venue = y.venue /\ w.receipt = y.receipt => w = y
    BY <2>2, <2>3, <2>4
  <2>9. WatchCap' = WatchCap
    BY DEF WatchCap
  <2> QED  BY <2>5, <2>7, <2>8, <2>9 DEF WatchInv, WatchBounded
<1> QED  BY <1>1, <1>2, <1>3, SweepMoves DEF WatchesStay

(* A step of a call leaves the slot of the sweep alone. *)
LEMMA CallsKeepPoller ==
  ASSUME RegistryInv, SlotGuarded, [Next]_vars
  PROVE  \A s \in Slots : owner'[s] = Poller <=> owner[s] = Poller
<1>types. /\ owner \in [Slots -> Tasks \cup {Poller, None}] /\ calls \in [Tasks -> Call]
          /\ \A t \in Tasks : calls[t].pc # "idle" => calls[t].slot \in Slots
  BY DEF RegistryInv, TypeOK, Placed, CallPlaced
<1>none. Poller \notin Tasks /\ None \notin Tasks /\ None # Poller
  BY RegistryConstants
<1>1. ASSUME NEW t \in Tasks, Acquire(t)
      PROVE  \A s \in Slots : owner'[s] = Poller <=> owner[s] = Poller
  BY <1>1, <1>types, <1>none DEF Acquire
<1>2. ASSUME NEW t \in Tasks, Unlock(t), calls[t].pc \in Inside
      PROVE  \A s \in Slots : owner'[s] = Poller <=> owner[s] = Poller
  <2>1. calls[t].slot \in Slots /\ owner[calls[t].slot] = t
    BY <1>2, <1>types DEF SlotGuarded, Inside
  <2> QED  BY <1>2, <1>types, <1>none, <2>1 DEF Unlock
<1>3. ASSUME NEW t \in Tasks, TaskStep(t)
      PROVE  \/ UNCHANGED owner
             \/ Acquire(t)
             \/ Unlock(t) /\ calls[t].pc \in Inside
  BY <1>3
  DEF TaskStep, RegistryStep, AdapterAnswers, Resolve, ResolveFails, Gate, ChargeQuote,
      Observe, DeriveHeader, DeriveInvalid, DeriveFails, VenueTakes, SubmitAccepted,
      SubmitNotAccepted, Served, Drop, Inside
<1>4. (\E t \in Tasks : TaskStep(t)) \/ UNCHANGED owner
  BY DEF Next, VenueStep, Register, MarkDead, MarkAlive, Tick, vars
<1> QED  BY <1>1, <1>2, <1>3, <1>4

-----------------------------------------------------------------------------
(* Types *)
PollRecord == [pc : {"sleep", "visit", "lock", "ask", "record", "send", "ended"},
               todo : SUBSET Keys, key : Keys \cup {None}, slot : Slots \cup {None},
               status : Statuses \cup {"none"}]

LEMMA SweepKeepsPoll ==
  ASSUME PollInv, SweepNext
  PROVE  poll' \in PollRecord /\ PollPlaced'
<1>types. /\ poll \in PollRecord /\ PollPlaced /\ watched \subseteq Watch
          /\ truth \in [Keys -> Statuses] /\ gen \in [Venues -> 0 .. MaxGen]
  BY DEF PollInv, PollTypeOK, PollRecord, RegistryInv, TypeOK
<1>const. UNCHANGED <<Keys, Slots, Statuses>>
  BY DEF Keys, Slots
<1>1. CASE Snapshot
  <2>1. {Key(w) : w \in Unexpired} \subseteq Keys
    BY <1>types DEF Unexpired, Watch, Key, Keys
  <2> DEFINE K == {Key(w) : w \in Unexpired}
  <2>2. poll' = [pc |-> "visit", todo |-> K, key |-> None, slot |-> None, status |-> "none"]
    BY <1>1, SnapshotRecord
  <2>3. K \subseteq Keys
    BY <2>1
  <2> HIDE DEF K
  <2> QED  BY <2>2, <2>3 DEF PollRecord, PollPlaced
<1>2. ASSUME NEW k \in Keys, Visit(k)
      PROVE  poll' \in PollRecord /\ PollPlaced'
  <2>1. <<k[1], gen[k[1]]>> \in Slots
    <3>1. k[1] \in Venues
      BY DEF Keys
    <3> QED  BY <1>2, <1>types, <3>1, RegistryConstants DEF Visit, Routable, Slots
  <2> DEFINE s == <<k[1], gen[k[1]]>>
  <2>2. poll' = [poll EXCEPT !.pc = "lock", !.todo = @ \ {k}, !.key = k, !.slot = s]
    BY <1>2 DEF Visit
  <2>3. s \in Slots
    BY <2>1
  <2> HIDE DEF s
  <2> QED  BY <1>types, <1>const, <2>2, <2>3 DEF PollRecord, PollPlaced
<1>3. ASSUME NEW k \in Keys, Skip(k)
      PROVE  poll' \in PollRecord /\ PollPlaced'
  BY <1>3, <1>types, <1>const DEF Skip, PollRecord, PollPlaced
<1>4. CASE PollAcquire
  BY <1>4, <1>types, <1>const DEF PollAcquire, PollRecord, PollPlaced
<1>5. CASE StatusAnswered
  <2>1. poll.key \in Keys /\ truth[poll.key] \in Statuses
    BY <1>5, <1>types DEF StatusAnswered, PollPlaced
  <2> DEFINE st == truth[poll.key]
  <2>2. poll' = [poll EXCEPT !.pc = "record", !.status = st]
    BY <1>5 DEF StatusAnswered
  <2>3. st \in Statuses
    BY <2>1
  <2> HIDE DEF st
  <2> QED  BY <1>types, <1>const, <2>1, <2>2, <2>3 DEF PollRecord, PollPlaced
<1>6. CASE StatusFailed
  BY <1>6, <1>types DEF StatusFailed, PollRecord, PollPlaced
<1>7. CASE Recorded
  BY <1>7, <1>types DEF Recorded, PollRecord, PollPlaced
<1>8. CASE SweepDone \/ SendClosed
  BY <1>8, <1>types DEF SweepDone, SendClosed, PollRecord, PollPlaced
<1>9. CASE SendDone
  BY <1>9 DEF SendDone, Idle, PollRecord, PollPlaced
<1>10. CASE UNCHANGED poll
  BY <1>10, <1>types, <1>const DEF PollPlaced
<1>11. RecordGone \/ RecordSame \/ RecordUnencodable \/ RecordChange => Recorded
  BY DEF RecordGone, RecordSame, RecordUnencodable, RecordChange, RecordRefresh
<1>12. \/ Send \/ SendUnencodable \/ Receive \/ ReceiverDrops
       \/ \E k \in Keys, st \in Statuses : VenueMoves(k, st)
       => UNCHANGED poll
  BY DEF Send, SendUnencodable, Receive, ReceiverDrops, VenueMoves, pollVars
<1> QED
  BY <1>1, <1>2, <1>3, <1>4, <1>5, <1>6, <1>7, <1>8, <1>9, <1>10, <1>11, <1>12
  DEF SweepNext, PollStep

(* What the queues hold, on either side of the channel. *)
LEMMA SweepKeepsQueues ==
  ASSUME PollInv, SweepNext
  PROVE  /\ updates' \in Seq(Keys \X Statuses)
         /\ channel' \in Seq(Keys \X Statuses) /\ Len(channel') <= ChannelBuf
         /\ open' \in BOOLEAN
         /\ truth' \in [Keys -> Statuses]
         /\ reported' \in [Keys -> Seq(Statuses)]
         /\ heard' \in [Keys -> Statuses \cup {"none"}]
         /\ missed' \subseteq Keys
         /\ UNCHANGED created
<1>types. /\ updates \in Seq(Keys \X Statuses)
          /\ channel \in Seq(Keys \X Statuses) /\ Len(channel) <= ChannelBuf
          /\ open \in BOOLEAN
          /\ truth \in [Keys -> Statuses]
          /\ reported \in [Keys -> Seq(Statuses)]
          /\ heard \in [Keys -> Statuses \cup {"none"}]
          /\ missed \subseteq Keys
          /\ ChannelBuf \in Nat
  BY PollConstants DEF PollInv, PollTypeOK
<1>placed. /\ poll.pc \in {"ask", "record"} => poll.key \in Keys
           /\ poll.pc = "record" => poll.status \in Statuses
  BY DEF PollInv, PollPlaced
<1>1. CASE RecordChange
  <2>1. /\ poll.key \in Keys /\ poll.status \in Statuses
        /\ updates' = Append(updates, <<poll.key, poll.status>>)
        /\ reported' = [reported EXCEPT ![poll.key] = Append(@, poll.status)]
        /\ missed' = missed \ {poll.key}
        /\ UNCHANGED <<channel, open, truth, heard, created>>
    BY <1>1, <1>placed DEF RecordChange
  <2>2. Append(reported[poll.key], poll.status) \in Seq(Statuses)
    BY <1>types, <2>1, AppendProperties
  <2>3. updates' \in Seq(Keys \X Statuses)
    BY <1>types, <2>1, AppendProperties
  <2>4. reported' \in [Keys -> Seq(Statuses)]
    BY <1>types, <2>1, <2>2
  <2> QED  BY <1>types, <2>1, <2>3, <2>4
<1>2. CASE Send
  <2>1. /\ updates # <<>> /\ Len(channel) < ChannelBuf
        /\ channel' = Append(channel, Head(updates)) /\ updates' = Tail(updates)
        /\ UNCHANGED <<open, auxVars>>
    BY <1>2 DEF Send
  <2>2. Head(updates) \in Keys \X Statuses /\ Tail(updates) \in Seq(Keys \X Statuses)
    BY <1>types, <2>1, HeadTailProperties
  <2>3. /\ channel' \in Seq(Keys \X Statuses) /\ Len(channel') = Len(channel) + 1
        /\ Len(channel) \in Nat
    BY <1>types, <2>1, <2>2, AppendProperties
  <2>4. Len(channel') <= ChannelBuf
    BY <1>types, <2>1, <2>3
  <2> QED  BY <1>types, <2>1, <2>2, <2>3, <2>4 DEF auxVars
<1>3. CASE SendUnencodable
  BY <1>3, <1>types, HeadTailProperties DEF SendUnencodable, auxVars
<1>4. CASE SendClosed
  BY <1>4, <1>types DEF SendClosed, auxVars
<1>5. CASE Receive
  <2>1. /\ channel # <<>> /\ channel' = Tail(channel)
        /\ heard' = [heard EXCEPT ![Head(channel)[1]] = Head(channel)[2]]
        /\ UNCHANGED <<updates, open, truth, reported, missed, created>>
    BY <1>5 DEF Receive
  <2>2. /\ Head(channel) \in Keys \X Statuses
        /\ Tail(channel) \in Seq(Keys \X Statuses)
        /\ Len(Tail(channel)) = Len(channel) - 1 /\ Len(channel) \in Nat
    BY <1>types, <2>1, HeadTailProperties
  <2>3. Head(channel)[1] \in Keys /\ Head(channel)[2] \in Statuses
    BY <2>2
  <2> QED  BY <1>types, <2>1, <2>2, <2>3
<1>6. CASE ReceiverDrops
  <2>1. channel' = <<>> /\ open' = FALSE /\ UNCHANGED <<updates, auxVars>>
    BY <1>6 DEF ReceiverDrops
  <2>2. <<>> \in Seq(Keys \X Statuses) /\ Len(<<>>) = 0
    OBVIOUS
  <2>3. channel' \in Seq(Keys \X Statuses)
    BY <2>1, <2>2
  <2>4. Len(channel') <= ChannelBuf
    <3>1. Len(channel') = 0
      BY <2>1, <2>2
    <3> QED  BY <1>types, <3>1
  <2>5. UNCHANGED <<updates, truth, reported, heard, missed, created>> /\ open' \in BOOLEAN
    BY <2>1 DEF auxVars
  <2> QED  BY <1>types, <2>3, <2>4, <2>5
<1>7. ASSUME NEW k \in Keys, NEW st \in Statuses, VenueMoves(k, st)
      PROVE  /\ truth' \in [Keys -> Statuses]
             /\ UNCHANGED <<updates, channel, open, reported, heard, missed, created>>
  BY <1>7, <1>types DEF VenueMoves, pollVars
<1>8. ASSUME NEW k \in Keys, Skip(k)
      PROVE  /\ missed' \subseteq Keys
             /\ UNCHANGED <<updates, channel, open, truth, reported, heard, created>>
  BY <1>8, <1>types DEF Skip
<1>9. CASE StatusFailed \/ RecordSame \/ RecordUnencodable
  <2>1. /\ missed' \subseteq missed \cup {poll.key} /\ poll.key \in Keys
        /\ UNCHANGED <<updates, channel, open, truth, reported, heard, created>>
    BY <1>9, <1>placed DEF StatusFailed, RecordSame, RecordUnencodable, RecordRefresh
  <2> QED  BY <1>types, <2>1
<1>10. \/ Snapshot \/ RecordGone \/ SweepDone \/ SendDone \/ PollAcquire \/ StatusAnswered
       \/ \E k \in Keys : Visit(k)
       => UNCHANGED <<updates, channel, open, truth, reported, heard, missed, created>>
  BY DEF Snapshot, RecordGone, SweepDone, SendDone, PollAcquire, StatusAnswered, Visit, auxVars
<1> QED
  BY <1>types, <1>1, <1>2, <1>3, <1>4, <1>5, <1>6, <1>7, <1>8, <1>9, <1>10
  DEF SweepNext, PollStep

LEMMA SweepInvStep ==
  ASSUME PollInv, SweepNext
  PROVE  PollInv'
<1>1. \A w \in watched' : w.last \in Statuses \cup {"none"}
  <2>1. \A w \in watched : w.last \in Statuses \cup {"none"}
    BY DEF PollInv, PollTypeOK
  <2>2. poll.pc = "record" => poll.status \in Statuses
    BY DEF PollInv, PollPlaced
  <2>3. CASE watched' \subseteq watched
    BY <2>1, <2>3
  <2>4. ASSUME NEW e, NEW x, Replaces(e, x)
        PROVE  \A w \in watched' : w.last \in Statuses \cup {"none"}
    BY <2>1, <2>2, <2>4 DEF Replaces
  <2> QED  BY <2>3, <2>4, SweepMoves DEF WatchesStay, Unexpired
<1>2. created \in 0 .. MaxWatches
  BY DEF PollInv, PollTypeOK
<1>3. TypeOK'
  BY SweepKeepsRegistry DEF RegistryInv
<1>4. PollTypeOK'
  BY <1>1, <1>2, <1>3, SweepKeepsPoll, SweepKeepsQueues DEF PollTypeOK, PollRecord, Keys, Slots
<1> QED  BY <1>4, SweepKeepsRegistry, SweepKeepsWatches, SweepKeepsPoll DEF PollInv

(* A step of a call watches at most one receipt, afresh. *)
LEMMA NewWatches ==
  ASSUME RegistryInv, [Next]_vars
  PROVE  \A w \in watched' \ watched : w.last = "none"
<1>1. ASSUME NEW v \in Venues, NEW r \in Receipts, PutWatch(v, r)
      PROVE  \A w \in watched' \ watched : w.last = "none"
  BY <1>1 DEF PutWatch, Unexpired, NewWatch
<1> QED  BY <1>1, WatchMoves

LEMMA CallInvStep ==
  ASSUME PollInv, CallStep
  PROVE  PollInv'
<1>1. RegistryInv' /\ SlotGuarded' /\ WatchInv'
  BY RegistryInvStep, SlotGuardedStep, WatchInvStep DEF CallStep, PollInv
<1>2. PollerGuarded'
  BY CallsKeepPoller DEF CallStep, PollInv, PollerGuarded, pollVars
<1>3. PollPlaced'
  BY DEF CallStep, PollInv, PollPlaced, pollVars, Keys, Slots
<1>4. \A w \in watched' : w.last \in Statuses \cup {"none"}
  BY NewWatches DEF CallStep, PollInv, PollTypeOK
<1>5. NewKeys \subseteq Keys /\ IsFiniteSet(NewKeys)
  <2>1. watched' \subseteq Watch /\ IsFiniteSet(watched')
    BY <1>1 DEF RegistryInv, TypeOK, WatchInv
  <2>2. IsFiniteSet(watched' \ watched)
    BY <2>1, FS_Subset
  <2> DEFINE D == watched' \ watched
  <2>3. IsFiniteSet(D)
    BY <2>2
  <2>4. NewKeys = {Key(w) : w \in D}
    BY DEF NewKeys
  <2> HIDE DEF D
  <2>5. IsFiniteSet(NewKeys)
    <3> DEFINE f == [w \in D |-> Key(w)]
    <3>1. f \in [D -> NewKeys] /\ \A k \in NewKeys : \E w \in D : f[w] = k
      BY <2>4
    <3> HIDE DEF f
    <3>2. f \in Surjection(D, NewKeys)
      BY <3>1 DEF Surjection
    <3> QED  BY <2>3, <3>2, FS_Surjection
  <2>6. NewKeys \subseteq Keys
    BY <2>1 DEF NewKeys, Key, Keys, Watch
  <2> QED  BY <2>5, <2>6
<1>6. created' \in 0 .. MaxWatches
  <2>1. Cardinality(NewKeys) \in Nat
    BY <1>5, FS_CardinalityType
  <2> QED  BY <2>1, PollConstants DEF CallStep, PollInv, PollTypeOK
<1>7. PollTypeOK'
  <2>1. /\ updates \in Seq(Keys \X Statuses)
        /\ channel \in Seq(Keys \X Statuses) /\ Len(channel) <= ChannelBuf
        /\ open \in BOOLEAN /\ truth \in [Keys -> Statuses]
        /\ reported \in [Keys -> Seq(Statuses)]
        /\ heard \in [Keys -> Statuses \cup {"none"}]
        /\ missed \subseteq Keys /\ poll \in PollRecord
    BY DEF PollInv, PollTypeOK, PollRecord
  <2>2. UNCHANGED <<pollVars, truth>>
    BY DEF CallStep
  <2>3. reported' \in [Keys -> Seq(Statuses)]
    <3>1. <<>> \in Seq(Statuses)
      OBVIOUS
    <3> QED  BY <2>1, <3>1 DEF CallStep
  <2>4. heard' \in [Keys -> Statuses \cup {"none"}] /\ missed' \subseteq Keys
    BY <2>1 DEF CallStep
  <2>5. TypeOK'
    BY <1>1 DEF RegistryInv
  <2> QED  BY <1>4, <1>6, <2>1, <2>2, <2>3, <2>4, <2>5
           DEF PollTypeOK, PollRecord, pollVars, Keys, Slots
<1> QED  BY <1>1, <1>2, <1>3, <1>7 DEF PollInv

LEMMA PollInvStep ==
  ASSUME PollInv, [PollNext]_allVars
  PROVE  PollInv'
<1>1. CASE UNCHANGED allVars
  <2>1. RegistryInv' /\ SlotGuarded' /\ WatchInv'
    BY <1>1, RegistryInvStep, SlotGuardedStep, WatchInvStep DEF allVars, PollInv
  <2>2. /\ UNCHANGED <<gen, alive, owner, ledger, watched, now, calls>>
        /\ UNCHANGED <<poll, updates, channel, open>>
        /\ UNCHANGED <<truth, reported, heard, missed, created>>
    BY <1>1 DEF allVars, vars, pollVars, auxVars
  <2>3. PollTypeOK'
    <3>1. TypeOK'
      BY <2>1 DEF RegistryInv
    <3> QED  BY <2>2, <3>1 DEF PollInv, PollTypeOK, Keys, Slots
  <2>4. PollPlaced' /\ PollerGuarded'
    BY <2>2 DEF PollInv, PollPlaced, PollerGuarded, Keys, Slots
  <2> QED  BY <2>1, <2>3, <2>4 DEF PollInv
<1>2. PollNext => CallStep \/ SweepNext
  BY DEF PollNext, SweepNext
<1> QED  BY <1>1, <1>2, CallInvStep, SweepInvStep

LEMMA PollInvInit == PollInit => PollInv
<1> SUFFICES ASSUME PollInit PROVE PollInv
  OBVIOUS
<1>1. RegistryInv
  BY RegistryInvInit DEF PollInit
<1>2. SlotGuarded
  BY RegistryConstants DEF PollInit, Init, SlotGuarded, NoCall, Inside
<1>3. WatchInv
  <2>1. WatchCap \in Nat
    BY RegistryConstants DEF WatchCap, AtLeastOne
  <2> QED  BY <2>1, FS_EmptySet DEF PollInit, Init, WatchInv, WatchBounded
<1>4. PollTypeOK
  <2>1. poll \in PollRecord
    BY DEF PollInit, Idle, PollRecord
  <2>2. /\ <<>> \in Seq(Keys \X Statuses) /\ <<>> \in Seq(Statuses) /\ Len(<<>>) = 0
        /\ 0 \in 0 .. MaxWatches /\ 0 <= ChannelBuf
    BY PollConstants
  <2>3. reported \in [Keys -> Seq(Statuses)] /\ truth \in [Keys -> Statuses]
    BY <2>2, PollConstants DEF PollInit
  <2>4. TypeOK /\ watched = {}
    BY <1>1 DEF RegistryInv, PollInit, Init
  <2> QED  BY <2>1, <2>2, <2>3, <2>4 DEF PollInit, PollTypeOK, PollRecord
<1>5. PollPlaced /\ PollerGuarded
  BY RegistryConstants DEF PollInit, Init, Idle, PollPlaced, PollerGuarded
<1> QED  BY <1>1, <1>2, <1>3, <1>4, <1>5 DEF PollInv

LEMMA PollInvariant == PollSpec => []PollInv
<1>1. PollInv /\ [PollNext]_allVars => PollInv'
  BY PollInvStep
<1> QED  BY PollInvInit, <1>1, PTL DEF PollSpec

(* registry.rs:427-530, lib.rs:150-201: every variable of the sweep and of  *)
(* what it delivers keeps its type, next to any number of calls.            *)
THEOREM PollTypeCorrect == PollSpec => []PollTypeOK
<1>1. PollInv => PollTypeOK
  BY DEF PollInv
<1> QED  BY PollInvariant, <1>1, PTL

(* registry.rs:448-478: the sweep takes part in the exclusion of the slots: *)
(* it owns a slot exactly while it asks, and the calls exclude each other   *)
(* in its presence as they do without it.                                   *)
THEOREM SweepExcludes == PollSpec => [](PollerGuarded /\ SlotGuarded)
<1>1. PollInv => PollerGuarded /\ SlotGuarded
  BY DEF PollInv
<1> QED  BY PollInvariant, <1>1, PTL

-----------------------------------------------------------------------------
(* What the registry promises of its calls it promises next to the sweep as *)
(* well.  The sweep is no call: it is charged nothing, so whatever is said  *)
(* of the ledger and of the calls needs a step of a call to change.         *)
CallsOnly == UNCHANGED <<gen, alive, ledger, now, calls>>

LEMMA PollMoves ==
  ASSUME PollInv, [PollNext]_allVars
  PROVE  [Next]_vars \/ CallsOnly
<1>1. CASE UNCHANGED allVars
  BY <1>1 DEF allVars
<1>2. CASE CallStep
  BY <1>2 DEF CallStep
<1>3. CASE SweepNext
  BY <1>3, SweepMoves DEF CallsOnly
<1>4. PollNext => CallStep \/ SweepNext
  BY DEF PollNext, SweepNext
<1> QED  BY <1>1, <1>2, <1>3, <1>4

LEMMA BilledInPoll == PollSpec => []AllBilled
<1>1. PollInit => AllBilled
  BY BilledInit DEF PollInit
<1>2. ASSUME PollInv, AllBilled, [PollNext]_allVars
      PROVE  AllBilled'
  <2>1. CASE [Next]_vars
    BY <1>2, <2>1, BilledStep DEF PollInv
  <2>2. CASE CallsOnly
    BY <1>2, <2>2 DEF CallsOnly, AllBilled, Billed, Priced, InOrder, Due
  <2> QED  BY <1>2, <2>1, <2>2, PollMoves
<1> QED  BY PollInvariant, <1>1, <1>2, PTL DEF PollSpec

(* registry.rs:295-299, 352-353, 448-478: what a call costs is not changed  *)
(* by the sweep it waits for, nor is a caller charged for the polls of what *)
(* it put under watch.                                                      *)
THEOREM SweepChargesNobody == PollSpec => []ChargePolicy
<1> QED  BY BilledInPoll, BilledIsPriced, PTL

(* registry.rs:280-293, 310, 333: the sweep does not widen the gap between  *)
(* the gate and the charge, whatever it makes a call wait for.              *)
THEOREM SweepLeavesQuota == PollSpec => []QuotaBound
<1>1. PollInit => QuotaBound
  BY QuotaBoundInit DEF PollInit
<1>2. ASSUME PollInv, QuotaBound, [PollNext]_allVars
      PROVE  QuotaBound'
  <2>1. CASE [Next]_vars
    BY <1>2, <2>1, QuotaBoundStep DEF PollInv
  <2>2. CASE CallsOnly
    BY <1>2, <2>2 DEF CallsOnly, QuotaBound, Admitted, TasksOf
  <2> QED  BY <1>2, <2>1, <2>2, PollMoves
<1> QED  BY PollInvariant, <1>1, <1>2, PTL DEF PollSpec

(* registry.rs:280-285, 575-584: nor does it disturb the order of a         *)
(* caller's history: the gate still opens exactly when it should.           *)
THEOREM SweepLeavesGate == PollSpec => []GateCountsWindow
<1>1. PollInit => LedgerInv
  BY LedgerInvInit DEF PollInit
<1>2. ASSUME PollInv, LedgerInv, [PollNext]_allVars
      PROVE  LedgerInv'
  <2>1. CASE [Next]_vars
    BY <1>2, <2>1, LedgerInvStep DEF PollInv
  <2>2. CASE CallsOnly
    BY <1>2, <2>2 DEF CallsOnly, LedgerInv, InTime
  <2> QED  BY <1>2, <2>1, <2>2, PollMoves
<1>3. PollInv /\ LedgerInv => GateCountsWindow
  BY GateExact DEF PollInv
<1> QED  BY PollInvariant, <1>1, <1>2, <1>3, PTL DEF PollSpec

(* registry.rs:575-584: and a charge is forgotten only once it has aged out. *)
THEOREM SweepForgetsNoCharge == PollSpec => LedgerForgetsOnlyAged
<1>1. ASSUME PollInv, [PollNext]_allVars
      PROVE  [\A c \in Callers : \E k \in 0 .. Len(ledger[c]) :
                /\ \A i \in 1 .. k : Aged(ledger[c][i])
                /\ Len(ledger[c]) - k <= Len(ledger'[c])
                /\ \A i \in 1 .. Len(ledger[c]) - k : ledger'[c][i] = ledger[c][i + k]]_vars
  <2>1. RegistryInv
    BY <1>1 DEF PollInv
  <2>2. ASSUME NEW c \in Callers
        PROVE  \/ ledger'[c] = ledger[c]
               \/ ledger'[c] = Prune(ledger[c])
               \/ ledger'[c] = Append(Prune(ledger[c]), now)
    BY <1>1, <2>1, PollMoves, LedgerMoves DEF CallsOnly
  <2> QED  BY <2>1, <2>2, LedgerForgets
<1> QED  BY PollInvariant, <1>1, PTL DEF PollSpec, LedgerForgetsOnlyAged

(* registry.rs:343-347: a receipt that a submit accepts while the sweep     *)
(* prunes, records and settles its own is under watch all the same, or the  *)
(* list is full of live entries.                                            *)
THEOREM AcceptedJoinsSweep == PollSpec => AcceptedIsWatched
<1> DEFINE A == \A t \in Tasks :
                  calls[t].pc = "posted" /\ calls'[t].result = "accepted" =>
                    \/ Watching(watched', calls[t].venue, calls[t].receipt)
                    \/ Cardinality(watched') = WatchCap /\ \A w \in watched' : now < w.expires
<1>1. ASSUME PollInv, AllBilled, [PollNext]_allVars
      PROVE  [A]_vars
  <2>1. ASSUME NEW t \in Tasks, calls[t].pc = "posted", calls'[t].result = "accepted"
        PROVE  \/ Watching(watched', calls[t].venue, calls[t].receipt)
               \/ Cardinality(watched') = WatchCap /\ \A w \in watched' : now < w.expires
    <3>1. calls[t].result = "none"
      BY <1>1, <2>1 DEF AllBilled, Billed, InOrder
    <3>2. [Next]_vars
      BY <1>1, <2>1, <3>1, PollMoves DEF CallsOnly
    <3> QED  BY <1>1, <2>1, <3>2, AcceptedStep DEF PollInv
  <2> QED  BY <2>1
<1>2. AcceptedIsWatched <=> [][A]_vars
  BY DEF AcceptedIsWatched
<1> HIDE DEF A
<1> QED  BY PollInvariant, BilledInPoll, <1>1, <1>2, PTL DEF PollSpec

-----------------------------------------------------------------------------
LEMMA WatchEndStep ==
  ASSUME PollInv, [PollNext]_allVars, NEW w \in watched,
         \A x \in watched' : Key(x) # Key(w)
  PROVE  \/ w.expires <= now
         \/ \E st \in Terminal : updates' = Append(updates, <<Key(w), st>>)
<1>types. w.expires \in Nat /\ now \in Nat
  BY DEF PollInv, RegistryInv, TypeOK, Watch
<1>gone. w \notin watched'
  OBVIOUS
<1>old. w \notin Unexpired => w.expires <= now
  BY <1>types DEF Unexpired
<1>1. CASE CallStep
  <2>1. PICK v \in Venues, r \in Receipts : PutWatch(v, r)
    BY <1>1, <1>gone, WatchMoves DEF CallStep, PollInv
  <2> QED  BY <1>gone, <1>old, <2>1 DEF PutWatch
<1>2. CASE SweepNext
  <2>1. CASE watched' = Unexpired
    BY <1>gone, <1>old, <2>1
  <2>2. ASSUME NEW e, NEW x, Replaces(e, x)
        PROVE  \E st \in Terminal : updates' = Append(updates, <<Key(w), st>>)
    <3>1. w = e /\ Key(w) = poll.key
      BY <1>gone, <2>2 DEF Replaces
    <3>2. CASE x \in watched' /\ x.venue = e.venue /\ x.receipt = e.receipt
      BY <3>1, <3>2 DEF Key
    <3> QED  BY <2>2, <3>1, <3>2 DEF Replaces
  <2> QED  BY <1>2, <1>gone, <2>1, <2>2, SweepMoves DEF WatchesStay
<1>3. PollNext => CallStep \/ SweepNext
  BY DEF PollNext, SweepNext
<1> QED  BY <1>1, <1>2, <1>3, <1>gone DEF allVars, vars

(* registry.rs:427-432: no failed poll, dead venue, encode failure, full    *)
(* list or call ends a watch; its deadline or a recorded settlement does.   *)
THEOREM WatchEndsAreExplained == PollSpec => WatchEndsExplained
<1>1. ASSUME PollInv, [PollNext]_allVars
      PROVE  [\A w \in watched : (\A x \in watched' : Key(x) # Key(w)) =>
                \/ w.expires <= now
                \/ \E st \in Terminal : updates' = Append(updates, <<Key(w), st>>)]_allVars
  BY <1>1, WatchEndStep
<1> QED  BY PollInvariant, <1>1, PTL DEF PollSpec, WatchEndsExplained

-----------------------------------------------------------------------------
(* The order of the changes.  The last change recorded of a receipt is not  *)
(* ahead of the answer the sweep carries, nor that of the venue; and the    *)
(* entry remembers it, unless it was the last of all.                       *)
LastOf(q) == q[Len(q)]

RememberedAs(w, q) ==
  /\ w.last \notin Terminal
  /\ w.last = IF q = <<>> THEN "none" ELSE LastOf(q)

Told ==
  /\ RecordedInOrder
  /\ \A k \in Keys :
       /\ reported[k] # <<>> => Stage(LastOf(reported[k])) <= Stage(truth[k])
       /\ poll.pc = "record" /\ poll.key = k =>
            /\ Stage(poll.status) <= Stage(truth[k])
            /\ reported[k] # <<>> => Stage(LastOf(reported[k])) <= Stage(poll.status)
  /\ \A w \in watched : RememberedAs(w, reported[Key(w)])

LEMMA StageType ==
  ASSUME NEW st \in Statuses
  PROVE  /\ Stage(st) \in 0 .. 2
         /\ st \notin Terminal =>
              \A x \in Statuses : x # st /\ Stage(st) <= Stage(x) => Stage(st) < Stage(x)
BY PollConstants DEF Stage, Terminal, Lifecycle

(* A step that records nothing: the answer at hand, if any, is new.         *)
LEMMA NothingTold ==
  ASSUME PollInv, Told, UNCHANGED <<reported, truth>>,
         \A w \in watched' : \E x \in watched : Key(x) = Key(w) /\ x.last = w.last,
         poll'.pc = "record" =>
           \/ poll.pc = "record" /\ poll'.key = poll.key /\ poll'.status = poll.status
           \/ poll'.key \in Keys /\ poll'.status = truth[poll'.key]
  PROVE  Told'
<1>1. RecordedInOrder'
  BY DEF Told, RecordedInOrder, Keys
<1>2. ASSUME NEW k \in Keys
      PROVE  /\ reported'[k] # <<>> => Stage(LastOf(reported'[k])) <= Stage(truth'[k])
             /\ poll'.pc = "record" /\ poll'.key = k =>
                  /\ Stage(poll'.status) <= Stage(truth'[k])
                  /\ reported'[k] # <<>> => Stage(LastOf(reported'[k])) <= Stage(poll'.status)
  <2>1. truth[k] \in Statuses
    BY DEF PollInv, PollTypeOK
  <2>2. Stage(truth[k]) \in 0 .. 2
    BY <2>1, StageType
  <2> HIDE DEF Stage, LastOf
  <2> QED  BY <2>2 DEF Told
<1>3. \A w \in watched' : RememberedAs(w, reported'[Key(w)])
  BY DEF Told, RememberedAs
<1> QED  BY <1>1, <1>2, <1>3 DEF Told, Keys

LEMMA ChangeTold ==
  ASSUME PollInv, Told, RecordChange
  PROVE  Told'
<1> DEFINE k == poll.key
           st == poll.status
<1>types. /\ k \in Keys /\ st \in Statuses
          /\ reported \in [Keys -> Seq(Statuses)] /\ truth \in [Keys -> Statuses]
          /\ watched \subseteq Watch /\ WatchInv /\ TypeOK
          /\ poll.pc = "record"
  BY DEF PollInv, PollPlaced, PollTypeOK, WatchInv, RegistryInv, TypeOK, RecordChange
<1>1. PICK e \in Entry : e.last # st /\ watched' = (watched \ {e}) \cup Advanced(e, st)
  BY DEF RecordChange
<1>2. e \in watched /\ Key(e) = k /\ \A w \in watched : Key(w) = k => w = e
  <2>1. e \in watched /\ Key(e) = k
    BY <1>1 DEF Entry
  <2> QED  BY <1>types, <2>1 DEF Key, WatchInv, WatchBounded
<1> DEFINE q == reported[k]
           p == Append(q, st)
<1>q. /\ q \in Seq(Statuses) /\ Len(q) \in Nat
      /\ \A i \in 1 .. Len(q) : q[i] \in Statuses
      /\ q # <<>> => Len(q) > 0
  BY <1>types
<1>p. /\ p \in Seq(Statuses) /\ Len(p) = Len(q) + 1 /\ p[Len(p)] = st /\ p # <<>>
      /\ \A i \in 1 .. Len(q) : p[i] = q[i]
  <2>1. q \in Seq(Statuses) /\ st \in Statuses
    BY <1>types, <1>q
  <2> HIDE DEF q, st
  <2>2. p \in Seq(Statuses) /\ p # <<>>
    BY <2>1, AppendProperties
  <2>3. Len(p) = Len(q) + 1 /\ \A i \in 1 .. Len(q) : p[i] = q[i]
    BY <2>1, AppendProperties
  <2>4. p[Len(p)] = st
    BY <2>1, AppendProperties
  <2> QED  BY <2>2, <2>3, <2>4
<1>told. /\ reported' = [reported EXCEPT ![k] = p] /\ UNCHANGED truth
         /\ poll'.pc = "visit"
  <2>1. poll'.pc = "visit"
    BY DEF RecordChange, Recorded, PollInv, PollTypeOK
  <2> QED  BY <2>1 DEF RecordChange
<1>rep. reported'[k] = p /\ \A j \in Keys : j # k => reported'[j] = reported[j]
  <2> HIDE DEF p
  <2> QED  BY <1>types, <1>told
<1>3. q # <<>> => /\ Stage(LastOf(q)) <= Stage(st) /\ LastOf(q) \in Statuses
                  /\ LastOf(q) = e.last /\ e.last \notin Terminal
  <2>1. RememberedAs(e, q)
    BY <1>2 DEF Told
  <2>2. q # <<>> => Stage(LastOf(q)) <= Stage(st)
    BY <1>types DEF Told
  <2>3. q # <<>> => LastOf(q) \in Statuses
    BY <1>q DEF LastOf
  <2> HIDE DEF Stage, LastOf, q, st
  <2> QED  BY <2>1, <2>2, <2>3 DEF RememberedAs
<1>4. q # <<>> => Stage(LastOf(q)) < Stage(st)
  <2> HIDE DEF q, st
  <2> QED  BY <1>types, <1>1, <1>3, StageType
<1>5. RecordedInOrder'
  <2>1. \A i, j \in DOMAIN q : i < j => Stage(q[i]) < Stage(q[j])
    BY <1>types DEF Told, RecordedInOrder
  <2>2. DOMAIN q = 1 .. Len(q) /\ DOMAIN p = 1 .. Len(q) + 1
    <3> HIDE DEF q, p
    <3> QED  BY <1>q, <1>p
  <2>3. ASSUME NEW i \in DOMAIN p, NEW j \in DOMAIN p, i < j
        PROVE  Stage(p[i]) < Stage(p[j])
    <3>1. CASE j \in 1 .. Len(q)
      <4>1. i \in 1 .. Len(q)
        BY <2>2, <2>3, <1>q, <3>1
      <4> QED  BY <1>p, <2>1, <2>2, <2>3, <3>1, <4>1
    <3>2. CASE j = Len(q) + 1
      <4>1. i \in 1 .. Len(q) /\ Len(q) > 0 /\ q # <<>>
        BY <1>q, <2>2, <2>3, <3>2
      <4>2. p[i] = q[i] /\ p[j] = st
        BY <1>p, <3>2, <4>1
      <4>3. Stage(q[i]) <= Stage(LastOf(q))
        <5>1. CASE i = Len(q)
          <6>1. q[i] \in Statuses /\ q[i] = LastOf(q)
            BY <1>q, <4>1, <5>1 DEF LastOf
          <6>2. Stage(q[i]) \in 0 .. 2
            BY <6>1, StageType
          <6> HIDE DEF Stage, q
          <6> QED  BY <6>1, <6>2
        <5>2. CASE i # Len(q)
          <6>1. i < Len(q) /\ Len(q) \in DOMAIN q /\ i \in DOMAIN q
            BY <1>q, <2>2, <4>1, <5>2
          <6>2. Stage(q[i]) < Stage(q[Len(q)])
            BY <2>1, <6>1
          <6>3. Stage(q[i]) \in 0 .. 2 /\ Stage(q[Len(q)]) \in 0 .. 2
            BY <1>q, <2>2, <6>1, StageType
          <6> HIDE DEF Stage, q
          <6> QED  BY <6>2, <6>3 DEF LastOf
        <5> QED  BY <5>1, <5>2
      <4>4. Stage(q[i]) \in 0 .. 2 /\ Stage(LastOf(q)) \in 0 .. 2 /\ Stage(st) \in 0 .. 2
        BY <1>types, <1>q, <1>3, <4>1, StageType
      <4> HIDE DEF Stage, q, p, st
      <4> QED  BY <1>4, <4>1, <4>2, <4>3, <4>4
    <3> QED  BY <1>q, <2>2, <2>3, <3>1, <3>2
  <2>4. ASSUME NEW j \in Keys, j # k
        PROVE  \A m, n \in DOMAIN reported'[j] :
                 m < n => Stage(reported'[j][m]) < Stage(reported'[j][n])
    BY <1>rep, <2>4 DEF Told, RecordedInOrder
  <2> HIDE DEF p, k, Stage
  <2> QED  BY <1>rep, <2>3, <2>4 DEF RecordedInOrder, Keys
<1>6. ASSUME NEW j \in Keys
      PROVE  reported'[j] # <<>> => Stage(LastOf(reported'[j])) <= Stage(truth'[j])
  <2>1. CASE j = k
    <3>1. LastOf(reported'[j]) = st
      BY <1>p, <1>rep, <2>1 DEF LastOf
    <3>2. Stage(st) <= Stage(truth[k])
      BY <1>types DEF Told
    <3> HIDE DEF Stage, st, LastOf
    <3> QED  BY <1>told, <2>1, <3>1, <3>2
  <2>2. CASE j # k
    BY <1>rep, <1>told, <2>2 DEF Told
  <2> QED  BY <2>1, <2>2
<1>7. ASSUME NEW w \in watched'
      PROVE  RememberedAs(w, reported'[Key(w)])
  <2>1. CASE w \in watched /\ w # e
    <3>1. Key(w) \in Keys /\ Key(w) # k
      BY <1>types, <1>2, <2>1 DEF Key, Keys, Watch
    <3>2. reported'[Key(w)] = reported[Key(w)]
      BY <1>rep, <3>1
    <3>3. RememberedAs(w, reported[Key(w)])
      BY <2>1 DEF Told
    <3> QED  BY <3>2, <3>3
  <2>2. CASE w \in Advanced(e, st)
    <3>1. st \notin Terminal /\ w = [Refreshed(e) EXCEPT !.last = st]
      BY <2>2 DEF Advanced
    <3>2. w.venue = e.venue /\ w.receipt = e.receipt /\ w.last = st
      BY <1>types, <1>2, <3>1, RefreshedEntry
    <3>3. Key(w) = k /\ reported'[Key(w)] = p
      BY <1>2, <1>rep, <3>2 DEF Key
    <3>4. LastOf(p) = st
      BY <1>p DEF LastOf
    <3> HIDE DEF p, st
    <3> QED  BY <1>p, <3>1, <3>2, <3>3, <3>4 DEF RememberedAs
  <2> QED  BY <1>1, <2>1, <2>2
<1> QED  BY <1>5, <1>6, <1>7, <1>told DEF Told, Keys

(* A venue moves a receipt on, never back. *)
LEMMA VenueTold ==
  ASSUME PollInv, Told, NEW k \in Keys, NEW st \in Statuses, VenueMoves(k, st)
  PROVE  Told'
<1>1. /\ truth' = [truth EXCEPT ![k] = st] /\ Stage(truth[k]) < Stage(st)
      /\ UNCHANGED <<watched, poll, reported>>
  BY DEF VenueMoves, vars, pollVars
<1>types. /\ truth \in [Keys -> Statuses] /\ reported \in [Keys -> Seq(Statuses)]
          /\ poll.pc = "record" => poll.status \in Statuses
  BY DEF PollInv, PollTypeOK, PollPlaced
<1>2. ASSUME NEW j \in Keys
      PROVE  /\ Stage(truth[j]) \in 0 .. 2 /\ Stage(truth'[j]) \in 0 .. 2
             /\ Stage(truth[j]) <= Stage(truth'[j])
  <2>1. truth[j] \in Statuses /\ truth'[j] \in Statuses
    BY <1>1, <1>types
  <2>2. Stage(truth[j]) \in 0 .. 2 /\ Stage(truth'[j]) \in 0 .. 2
    BY <2>1, StageType
  <2>3. j # k => truth'[j] = truth[j]
    BY <1>1, <1>types
  <2>4. truth'[k] = st
    BY <1>1, <1>types
  <2> HIDE DEF Stage
  <2> QED  BY <1>1, <2>2, <2>3, <2>4
<1>3. ASSUME NEW j \in Keys, reported[j] # <<>>
      PROVE  Stage(LastOf(reported[j])) \in 0 .. 2
  <2>1. LastOf(reported[j]) \in Statuses
    BY <1>types, <1>3 DEF LastOf
  <2> QED  BY <2>1, StageType
<1>4. poll.pc = "record" => Stage(poll.status) \in 0 .. 2
  BY <1>types, StageType
<1>5. RecordedInOrder'
  BY <1>1 DEF Told, RecordedInOrder, Keys
<1>6. \A w \in watched' : RememberedAs(w, reported'[Key(w)])
  BY <1>1 DEF Told
<1>7. \A j \in Keys :
        /\ reported'[j] # <<>> => Stage(LastOf(reported'[j])) <= Stage(truth'[j])
        /\ poll'.pc = "record" /\ poll'.key = j =>
             /\ Stage(poll'.status) <= Stage(truth'[j])
             /\ reported'[j] # <<>> => Stage(LastOf(reported'[j])) <= Stage(poll'.status)
  <2> HIDE DEF Stage, LastOf
  <2> QED  BY <1>1, <1>2, <1>3, <1>4 DEF Told
<1> QED  BY <1>5, <1>6, <1>7 DEF Told, Keys

LEMMA SweepTold ==
  ASSUME PollInv, Told, SweepNext
  PROVE  Told'
<1>types. /\ poll \in PollRecord /\ TypeOK /\ WatchInv
          /\ poll.pc \in {"lock", "ask", "record"} => poll.key \in Keys
          /\ poll.pc = "record" => poll.status \in Statuses
  BY DEF PollInv, PollTypeOK, PollRecord, PollPlaced
<1> DEFINE Kept == \A w \in watched' : \E x \in watched : Key(x) = Key(w) /\ x.last = w.last
           Answer == poll'.pc = "record" =>
                       \/ poll.pc = "record" /\ poll'.key = poll.key /\ poll'.status = poll.status
                       \/ poll'.key \in Keys /\ poll'.status = truth[poll'.key]
<1>1. CASE RecordChange
  BY <1>1, ChangeTold
<1>2. CASE \E k \in Keys, st \in Statuses : VenueMoves(k, st)
  BY <1>2, VenueTold
<1>3. CASE StatusAnswered
  <2>1. Kept /\ UNCHANGED <<reported, truth>>
    BY <1>3 DEF StatusAnswered, auxVars
  <2>2. poll'.key = poll.key /\ poll'.status = truth[poll.key] /\ poll.key \in Keys
    BY <1>3, <1>types DEF StatusAnswered, PollRecord
  <2>3. Answer
    BY <2>2
  <2> HIDE DEF Kept, Answer
  <2> QED  BY <2>1, <2>3, NothingTold DEF Kept, Answer
<1>4. CASE RecordSame \/ RecordUnencodable
  <2>1. RecordRefresh
    BY <1>4 DEF RecordSame, RecordUnencodable
  <2>2. watched' = (watched \ Entry) \cup {Refreshed(w) : w \in Entry}
    BY <2>1 DEF RecordRefresh
  <2>3. \A w \in Entry : Key(Refreshed(w)) = Key(w) /\ Refreshed(w).last = w.last /\ w \in watched
    BY <1>types, RefreshedEntry, PollConstants DEF Entry, Key
  <2>4. Kept
    <3> HIDE DEF Refreshed, Key
    <3> QED  BY <2>2, <2>3
  <2>5. poll'.pc = "visit" /\ UNCHANGED <<reported, truth>>
    BY <1>types, <2>1 DEF RecordRefresh, Recorded, PollRecord
  <2> HIDE DEF Kept
  <2> QED  BY <2>4, <2>5, NothingTold DEF Kept
<1>5. CASE Snapshot
  <2>1. Kept
    BY <1>5 DEF Snapshot, Unexpired
  <2>2. poll'.pc = "visit" /\ UNCHANGED <<reported, truth>>
    BY <1>5, SnapshotRecord DEF Snapshot, auxVars
  <2> HIDE DEF Kept
  <2> QED  BY <2>1, <2>2, NothingTold DEF Kept
<1>6. CASE UNCHANGED <<watched, reported, truth>> /\ (poll'.pc # "record" \/ UNCHANGED poll)
  <2>1. Kept
    BY <1>6
  <2>2. Answer
    BY <1>6
  <2> HIDE DEF Kept, Answer
  <2> QED  BY <1>6, <2>1, <2>2, NothingTold DEF Kept, Answer
<1>7. ASSUME SendDone
      PROVE  poll'.pc # "record" /\ UNCHANGED <<watched, reported, truth>>
  BY <1>7 DEF SendDone, Idle, vars, auxVars
<1>8. ASSUME \E k \in Keys : Visit(k) \/ Skip(k)
      PROVE  poll'.pc # "record" /\ UNCHANGED <<watched, reported, truth>>
  BY <1>8, <1>types DEF Visit, Skip, PollRecord, vars, auxVars
<1>9. ASSUME RecordGone \/ SweepDone \/ SendClosed \/ PollAcquire \/ StatusFailed
      PROVE  poll'.pc # "record" /\ UNCHANGED <<watched, reported, truth>>
  BY <1>9, <1>types
  DEF RecordGone, Recorded, SweepDone, SendClosed, PollAcquire, StatusFailed, PollRecord, vars,
      auxVars
<1>10. ASSUME Send \/ SendUnencodable \/ Receive \/ ReceiverDrops
       PROVE  UNCHANGED poll /\ UNCHANGED <<watched, reported, truth>>
  BY <1>10 DEF Send, SendUnencodable, Receive, ReceiverDrops, vars, auxVars
<1> QED
  BY <1>1, <1>2, <1>3, <1>4, <1>5, <1>6, <1>7, <1>8, <1>9, <1>10 DEF SweepNext, PollStep

(* A new watch of a receipt starts a new report; one that is not new is the *)
(* one that was there.                                                      *)
LEMMA CallTold ==
  ASSUME PollInv, Told, CallStep
  PROVE  Told'
<1>1. /\ reported' = [k \in Keys |-> IF k \in NewKeys THEN <<>> ELSE reported[k]]
      /\ UNCHANGED <<poll, truth>>
  BY DEF CallStep, pollVars
<1>2. \A k \in Keys : reported'[k] = <<>> \/ reported'[k] = reported[k]
  BY <1>1
<1>3. RecordedInOrder'
  <2>1. \A k \in Keys : \A i, j \in DOMAIN reported'[k] :
          i < j => Stage(reported'[k][i]) < Stage(reported'[k][j])
    <3>1. DOMAIN <<>> = {}
      OBVIOUS
    <3> HIDE DEF Stage
    <3> QED  BY <1>2, <3>1 DEF Told, RecordedInOrder
  <2> QED  BY <2>1 DEF RecordedInOrder, Keys
<1>4. \A k \in Keys :
        /\ reported'[k] # <<>> => Stage(LastOf(reported'[k])) <= Stage(truth'[k])
        /\ poll'.pc = "record" /\ poll'.key = k =>
             /\ Stage(poll'.status) <= Stage(truth'[k])
             /\ reported'[k] # <<>> => Stage(LastOf(reported'[k])) <= Stage(poll'.status)
  <2> HIDE DEF Stage, LastOf
  <2> QED  BY <1>1, <1>2 DEF Told
<1>5. ASSUME NEW w \in watched'
      PROVE  RememberedAs(w, reported'[Key(w)])
  <2>types. watched' \subseteq Watch /\ WatchInv'
    BY CallInvStep DEF PollInv, RegistryInv, TypeOK
  <2>1. Key(w) \in Keys
    BY <2>types DEF Key, Keys, Watch
  <2>2. CASE Key(w) \in NewKeys
    <3>1. PICK x \in watched' \ watched : Key(x) = Key(w)
      BY <2>2 DEF NewKeys
    <3>2. w = x
      BY <2>types, <3>1 DEF Key, WatchInv, WatchBounded
    <3>3. w.last = "none"
      BY <3>1, <3>2, NewWatches DEF CallStep, PollInv
    <3>4. reported'[Key(w)] = <<>>
      BY <1>1, <2>1, <2>2
    <3> QED  BY <3>3, <3>4 DEF RememberedAs, Terminal
  <2>3. CASE Key(w) \notin NewKeys
    <3>1. w \in watched
      BY <2>3 DEF NewKeys
    <3>2. reported'[Key(w)] = reported[Key(w)]
      BY <1>1, <2>1, <2>3
    <3> QED  BY <3>1, <3>2 DEF Told
  <2> QED  BY <2>2, <2>3
<1> QED  BY <1>3, <1>4, <1>5 DEF Told, Keys

LEMMA ToldInvariant == PollSpec => []Told
<1>1. PollInit => Told
  <2> SUFFICES ASSUME PollInit PROVE Told
    OBVIOUS
  <2>1. DOMAIN <<>> = {}
    OBVIOUS
  <2>2. poll.pc = "sleep" /\ watched = {} /\ \A k \in Keys : reported[k] = <<>>
    BY DEF PollInit, Init, Idle
  <2> QED  BY <2>1, <2>2 DEF Told, RecordedInOrder
<1>2. ASSUME PollInv, Told, UNCHANGED allVars
      PROVE  Told'
  <2>1. UNCHANGED <<watched, poll, reported, truth>>
    BY <1>2 DEF allVars, vars, pollVars, auxVars
  <2> QED  BY <1>2, <2>1, NothingTold
<1>3. PollInv /\ Told /\ [PollNext]_allVars => Told'
  <2>1. PollNext => CallStep \/ SweepNext
    BY DEF PollNext, SweepNext
  <2> QED  BY <1>2, <2>1, CallTold, SweepTold
<1> QED  BY PollInvariant, <1>1, <1>3, PTL DEF PollSpec

-----------------------------------------------------------------------------
(* The delivery: the latest change recorded of a receipt reaches the engine. *)
(* The argument reads the two queues, what is sent and what is still to be   *)
(* sent, as one: the last change of a receipt on its way is the latest       *)
(* recorded, or none is on its way and the engine has it.                    *)

Changes == Keys \X Statuses

(* Of receipt k, l is the last change in queue q; or none is, and h is l.   *)
Carries(q, h, k, l) ==
  \/ \E i \in 1 .. Len(q) :
       q[i] = <<k, l>> /\ \A j \in 1 .. Len(q) : i < j => q[j][1] # k
  \/ h = l /\ \A i \in 1 .. Len(q) : q[i][1] # k

OnTheWay == channel \o updates

Delivery ==
  Encodes /\ open =>
    \A k \in Keys : reported[k] # <<>> =>
      Carries(OnTheWay, heard[k], k, LastOf(reported[k]))

-----------------------------------------------------------------------------
(* Queues *)

(* Taking the head of a queue, and hearing it. *)
LEMMA CarriesTail ==
  ASSUME NEW q \in Seq(Changes), q # <<>>, NEW h, NEW k, NEW l, Carries(q, h, k, l)
  PROVE  Carries(Tail(q), IF Head(q)[1] = k THEN Head(q)[2] ELSE h, k, l)
<1>1. /\ Len(q) \in Nat /\ Len(q) > 0 /\ Len(Tail(q)) = Len(q) - 1 /\ Head(q) = q[1]
      /\ \A i \in 1 .. Len(q) - 1 : Tail(q)[i] = q[i + 1]
  <2>1. Len(q) \in Nat /\ Len(q) > 0 /\ Head(q) = q[1]
    OBVIOUS
  <2> QED  BY <2>1, HeadTailProperties
<1> DEFINE h1 == IF Head(q)[1] = k THEN Head(q)[2] ELSE h
           t == Tail(q)
<1>2. CASE \E i \in 1 .. Len(q) :
             q[i] = <<k, l>> /\ \A j \in 1 .. Len(q) : i < j => q[j][1] # k
  <2>1. PICK i \in 1 .. Len(q) :
          q[i] = <<k, l>> /\ \A j \in 1 .. Len(q) : i < j => q[j][1] # k
    BY <1>2
  <2>2. CASE i = 1
    <3>1. h1 = l
      BY <1>1, <2>1, <2>2
    <3>2. \A j \in 1 .. Len(t) : t[j][1] # k
      <4>1. ASSUME NEW j \in 1 .. Len(t)
            PROVE  t[j] = q[j + 1] /\ j + 1 \in 1 .. Len(q) /\ 1 < j + 1
        BY <1>1
      <4> HIDE DEF t
      <4> QED  BY <2>1, <2>2, <4>1
    <3> HIDE DEF h1, t
    <3> QED  BY <3>1, <3>2 DEF Carries, h1, t
  <2>3. CASE i # 1
    <3>1. i - 1 \in 1 .. Len(t) /\ t[i - 1] = <<k, l>>
      BY <1>1, <2>1, <2>3
    <3>2. \A j \in 1 .. Len(t) : i - 1 < j => t[j][1] # k
      <4>1. ASSUME NEW j \in 1 .. Len(t), i - 1 < j
            PROVE  t[j] = q[j + 1] /\ j + 1 \in 1 .. Len(q) /\ i < j + 1
        BY <1>1, <4>1
      <4> HIDE DEF t
      <4> QED  BY <2>1, <4>1
    <3> HIDE DEF t
    <3>3. \E m \in 1 .. Len(t) :
            t[m] = <<k, l>> /\ \A j \in 1 .. Len(t) : m < j => t[j][1] # k
      BY <3>1, <3>2
    <3> QED  BY <3>3 DEF Carries, t
  <2> QED  BY <2>2, <2>3
<1>3. CASE h = l /\ \A i \in 1 .. Len(q) : q[i][1] # k
  <2>1. h1 = l
    BY <1>1, <1>3
  <2>2. \A j \in 1 .. Len(t) : t[j][1] # k
    <3>1. ASSUME NEW j \in 1 .. Len(t)
          PROVE  t[j] = q[j + 1] /\ j + 1 \in 1 .. Len(q)
      BY <1>1
    <3> HIDE DEF t
    <3> QED  BY <1>3, <3>1
  <2> HIDE DEF h1, t
  <2> QED  BY <2>1, <2>2 DEF Carries, h1, t
<1> QED  BY <1>2, <1>3 DEF Carries

(* One more change at the end of a queue. *)
LEMMA CarriesAppend ==
  ASSUME NEW q \in Seq(Changes), NEW k \in Keys, NEW st \in Statuses
  PROVE  /\ \A h : Carries(Append(q, <<k, st>>), h, k, st)
         /\ \A h, l : \A m \in Keys \ {k} :
              Carries(q, h, m, l) => Carries(Append(q, <<k, st>>), h, m, l)
<1> DEFINE c == <<k, st>>
           p == Append(q, c)
<1>1. /\ Len(q) \in Nat /\ Len(p) = Len(q) + 1 /\ p[Len(q) + 1] = c
      /\ \A i \in 1 .. Len(q) : p[i] = q[i]
  <2>1. c \in Changes
    BY DEF Changes
  <2>2. Len(q) \in Nat
    OBVIOUS
  <2> HIDE DEF c
  <2> QED  BY <2>1, <2>2, AppendProperties
<1>2. c[1] = k
  OBVIOUS
<1> HIDE DEF p
<1>3. ASSUME NEW h
      PROVE  Carries(p, h, k, st)
  BY <1>1 DEF Carries
<1> HIDE DEF c
<1>4. ASSUME NEW h, NEW l, NEW m \in Keys \ {k}, Carries(q, h, m, l)
      PROVE  Carries(p, h, m, l)
  <2>1. \A j \in 1 .. Len(p) : j \in 1 .. Len(q) \/ j = Len(q) + 1
    BY <1>1
  <2>2. p[Len(q) + 1][1] # m
    BY <1>1, <1>2
  <2>3. CASE \E i \in 1 .. Len(q) :
               q[i] = <<m, l>> /\ \A j \in 1 .. Len(q) : i < j => q[j][1] # m
    <3>1. PICK i \in 1 .. Len(q) :
            q[i] = <<m, l>> /\ \A j \in 1 .. Len(q) : i < j => q[j][1] # m
      BY <2>3
    <3>2. i \in 1 .. Len(p) /\ p[i] = <<m, l>>
      BY <1>1, <3>1
    <3>3. \A j \in 1 .. Len(p) : i < j => p[j][1] # m
      BY <1>1, <2>1, <2>2, <3>1
    <3> QED  BY <3>2, <3>3 DEF Carries
  <2>4. CASE h = l /\ \A i \in 1 .. Len(q) : q[i][1] # m
    <3>1. \A j \in 1 .. Len(p) : p[j][1] # m
      BY <1>1, <2>1, <2>2, <2>4
    <3> QED  BY <2>4, <3>1 DEF Carries
  <2> QED  BY <1>4, <2>3, <2>4 DEF Carries
<1> QED  BY <1>3, <1>4 DEF p, c

(* Sending moves a change from one queue to the other: nothing overtakes.   *)
LEMMA SendKeepsOrder ==
  ASSUME NEW c \in Seq(Changes), NEW u \in Seq(Changes), u # <<>>
  PROVE  Append(c, Head(u)) \o Tail(u) = c \o u
<1>1. /\ Head(u) \in Changes /\ Tail(u) \in Seq(Changes) /\ Len(Tail(u)) = Len(u) - 1
      /\ \A i \in 1 .. Len(u) - 1 : Tail(u)[i] = u[i + 1]
      /\ Head(u) = u[1] /\ Len(c) \in Nat /\ Len(u) \in Nat /\ Len(u) > 0
  <2>1. Head(u) = u[1] /\ Len(c) \in Nat /\ Len(u) \in Nat /\ Len(u) > 0
    OBVIOUS
  <2> QED  BY <2>1, HeadTailProperties
<1> DEFINE a == Append(c, Head(u))
           t == Tail(u)
<1>2. /\ a \in Seq(Changes) /\ Len(a) = Len(c) + 1 /\ a[Len(c) + 1] = u[1]
      /\ \A i \in 1 .. Len(c) : a[i] = c[i]
  <2> DEFINE h == Head(u)
  <2>1. h \in Changes /\ h = u[1]
    BY <1>1
  <2> HIDE DEF h
  <2>2. a = Append(c, h)
    BY DEF h
  <2> HIDE DEF a
  <2> QED  BY <2>1, <2>2, AppendProperties
<1>t. t \in Seq(Changes) /\ Len(t) = Len(u) - 1 /\ \A i \in 1 .. Len(u) - 1 : t[i] = u[i + 1]
  BY <1>1
<1> HIDE DEF a, t
<1>3. /\ a \o t \in Seq(Changes) /\ Len(a \o t) = Len(c) + Len(u)
      /\ \A i \in 1 .. Len(c) + Len(u) :
           (a \o t)[i] = IF i <= Len(c) + 1 THEN a[i] ELSE t[i - (Len(c) + 1)]
  <2>1. /\ a \o t \in Seq(Changes) /\ Len(a \o t) = Len(a) + Len(t)
        /\ \A i \in 1 .. Len(a) + Len(t) :
             (a \o t)[i] = IF i <= Len(a) THEN a[i] ELSE t[i - Len(a)]
    BY <1>2, <1>t, ConcatProperties
  <2>2. Len(a) = Len(c) + 1 /\ Len(a) + Len(t) = Len(c) + Len(u)
    BY <1>1, <1>2, <1>t
  <2> QED  BY <2>1, <2>2
<1>4. /\ c \o u \in Seq(Changes) /\ Len(c \o u) = Len(c) + Len(u)
      /\ \A i \in 1 .. Len(c) + Len(u) : (c \o u)[i] = IF i <= Len(c) THEN c[i] ELSE u[i - Len(c)]
  BY ConcatProperties
<1>5. ASSUME NEW i \in 1 .. Len(c) + Len(u)
      PROVE  (a \o t)[i] = (c \o u)[i]
  <2>1. CASE i <= Len(c)
    BY <1>1, <1>2, <1>3, <1>4, <2>1
  <2>2. CASE i = Len(c) + 1
    <3>1. (a \o t)[i] = a[Len(c) + 1]
      BY <1>1, <1>3, <2>2
    <3>2. i - Len(c) = 1 /\ ~(i <= Len(c))
      BY <1>1, <2>2
    <3>3. (c \o u)[i] = u[1]
      BY <1>4, <3>2
    <3> QED  BY <1>2, <3>1, <3>3
  <2>3. CASE i > Len(c) + 1
    <3>1. i - (Len(c) + 1) \in 1 .. Len(u) - 1 /\ i - (Len(c) + 1) + 1 = i - Len(c)
      BY <1>1, <2>3
    <3>2. t[i - (Len(c) + 1)] = u[i - Len(c)]
      BY <1>t, <3>1
    <3> QED  BY <1>1, <1>3, <1>4, <2>3, <3>2
  <2>4. i <= Len(c) \/ i = Len(c) + 1 \/ i > Len(c) + 1
    BY <1>1
  <2> QED  BY <2>1, <2>2, <2>3, <2>4
<1>6. a \o t = c \o u
  BY <1>3, <1>4, <1>5, SeqEqual
<1> QED  BY <1>6 DEF a, t

LEMMA ReceiveTakesHead ==
  ASSUME NEW c \in Seq(Changes), c # <<>>, NEW u \in Seq(Changes)
  PROVE  /\ c \o u \in Seq(Changes) /\ c \o u # <<>> /\ Head(c \o u) = Head(c)
         /\ Tail(c) \o u = Tail(c \o u)
<1> DEFINE q == c \o u
           t == Tail(c)
<1>1. /\ q \in Seq(Changes) /\ Len(q) = Len(c) + Len(u)
      /\ \A i \in 1 .. Len(c) + Len(u) : q[i] = IF i <= Len(c) THEN c[i] ELSE u[i - Len(c)]
  BY ConcatProperties
<1>2. /\ Len(c) \in Nat /\ Len(u) \in Nat /\ Len(c) > 0 /\ Head(c) = c[1]
      /\ t \in Seq(Changes) /\ Len(t) = Len(c) - 1
      /\ \A i \in 1 .. Len(c) - 1 : t[i] = c[i + 1]
  <2>1. Len(c) \in Nat /\ Len(u) \in Nat /\ Len(c) > 0 /\ Head(c) = c[1]
    OBVIOUS
  <2> QED  BY <2>1, HeadTailProperties
<1> HIDE DEF q, t
<1>3. q # <<>> /\ Head(q) = c[1]
  <2>1. Len(q) > 0 /\ q[1] = c[1]
    BY <1>1, <1>2
  <2>2. q # <<>>
    BY <2>1, <1>1
  <2> QED  BY <1>1, <2>1, <2>2
<1>4. /\ Tail(q) \in Seq(Changes) /\ Len(Tail(q)) = Len(q) - 1
      /\ \A i \in 1 .. Len(Tail(q)) : Tail(q)[i] = q[i + 1]
  BY <1>1, <1>3, HeadTailProperties
<1>5. /\ t \o u \in Seq(Changes) /\ Len(t \o u) = Len(t) + Len(u)
      /\ \A i \in 1 .. Len(t) + Len(u) : (t \o u)[i] = IF i <= Len(t) THEN t[i] ELSE u[i - Len(t)]
  BY <1>2, ConcatProperties
<1>6. ASSUME NEW i \in 1 .. Len(t \o u)
      PROVE  (t \o u)[i] = Tail(q)[i]
  <2>1. /\ i \in 1 .. Len(c) + Len(u) - 1 /\ i + 1 \in 1 .. Len(c) + Len(u)
        /\ Tail(q)[i] = q[i + 1]
    BY <1>1, <1>2, <1>4, <1>5
  <2>2. CASE i <= Len(c) - 1
    BY <1>1, <1>2, <1>5, <2>1, <2>2
  <2>3. CASE i > Len(c) - 1
    <3>1. i - Len(t) = i + 1 - Len(c) /\ ~(i <= Len(t)) /\ ~(i + 1 <= Len(c))
      BY <1>2, <2>1, <2>3
    <3>2. q[i + 1] = u[i + 1 - Len(c)]
      BY <1>1, <2>1, <3>1
    <3>3. (t \o u)[i] = u[i - Len(t)]
      BY <1>5, <3>1
    <3> QED  BY <2>1, <3>1, <3>2, <3>3
  <2>4. i <= Len(c) - 1 \/ i > Len(c) - 1
    BY <1>2, <2>1
  <2> QED  BY <2>2, <2>3, <2>4
<1>7. Len(t \o u) = Len(Tail(q))
  BY <1>1, <1>2, <1>4, <1>5
<1>8. t \o u = Tail(q)
  BY <1>4, <1>5, <1>6, <1>7, SeqEqual
<1> QED  BY <1>1, <1>2, <1>3, <1>8 DEF q, t

-----------------------------------------------------------------------------
(* The inductive step, one case per action that touches a queue, a report   *)
(* or what the engine heard.                                                *)
LEMMA DeliveryStep ==
  ASSUME PollInv, Delivery, [PollNext]_allVars
  PROVE  Delivery'
<1>types. /\ channel \in Seq(Changes) /\ updates \in Seq(Changes)
          /\ reported \in [Keys -> Seq(Statuses)]
          /\ heard \in [Keys -> Statuses \cup {"none"}]
          /\ poll.pc = "record" => poll.key \in Keys /\ poll.status \in Statuses
  BY DEF PollInv, PollTypeOK, PollPlaced, Changes
<1> SUFFICES ASSUME Encodes, open', NEW k \in Keys, reported'[k] # <<>>
             PROVE  Carries(OnTheWay', heard'[k], k, LastOf(reported'[k]))
  BY DEF Delivery, Keys
<1>same. CASE open /\ OnTheWay' = OnTheWay /\ heard'[k] = heard[k] /\ reported'[k] = reported[k]
  BY <1>same DEF Delivery
<1>1. CASE CallStep
  <2>1. k \notin NewKeys
    BY <1>1 DEF CallStep
  <2>2. reported'[k] = reported[k] /\ heard'[k] = heard[k] /\ UNCHANGED <<channel, updates, open>>
    BY <1>1, <2>1 DEF CallStep, pollVars
  <2> QED  BY <1>same, <2>2 DEF OnTheWay
<1>2. CASE RecordChange
  <2> DEFINE st == poll.status
  <2>1. /\ poll.key \in Keys /\ st \in Statuses
        /\ updates' = Append(updates, <<poll.key, st>>)
        /\ reported' = [reported EXCEPT ![poll.key] = Append(@, st)]
        /\ UNCHANGED <<channel, heard, open>>
    BY <1>2, <1>types DEF RecordChange
  <2>2. OnTheWay' = Append(OnTheWay, <<poll.key, st>>)
    <3> DEFINE c == <<poll.key, st>>
    <3>1. c \in Changes
      BY <2>1 DEF Changes
    <3> HIDE DEF c
    <3>2. channel \o Append(updates, c) = Append(channel \o updates, c)
      BY <1>types, <3>1
    <3> QED  BY <2>1, <3>2 DEF OnTheWay, c
  <2>3. OnTheWay \in Seq(Changes)
    BY <1>types, ConcatProperties DEF OnTheWay
  <2>4. CASE k = poll.key
    <3>1. LastOf(reported'[k]) = st
      <4> DEFINE q == reported[k]
      <4>1. q \in Seq(Statuses) /\ reported'[k] = Append(q, st)
        BY <1>types, <2>1, <2>4
      <4> HIDE DEF q, st
      <4>2. Append(q, st)[Len(Append(q, st))] = st
        BY <2>1, <4>1, AppendProperties
      <4> QED  BY <4>1, <4>2 DEF LastOf
    <3> HIDE DEF st
    <3> QED  BY <2>1, <2>2, <2>3, <2>4, <3>1, CarriesAppend
  <2>5. CASE k # poll.key
    <3>1. reported'[k] = reported[k] /\ heard'[k] = heard[k]
      BY <1>types, <2>1, <2>5
    <3>2. Carries(OnTheWay, heard[k], k, LastOf(reported[k]))
      BY <2>1, <3>1 DEF Delivery
    <3> HIDE DEF st
    <3> QED  BY <2>1, <2>2, <2>3, <2>5, <3>1, <3>2, CarriesAppend
  <2> QED  BY <2>4, <2>5
<1>3. CASE Send
  <2>1. /\ updates # <<>> /\ channel' = Append(channel, Head(updates)) /\ updates' = Tail(updates)
        /\ UNCHANGED <<open, reported, heard>>
    BY <1>3 DEF Send, auxVars
  <2>2. OnTheWay' = OnTheWay
    BY <1>types, <2>1, SendKeepsOrder DEF OnTheWay
  <2> QED  BY <1>same, <2>1, <2>2
<1>4. CASE Receive
  <2>1. /\ channel # <<>> /\ open /\ channel' = Tail(channel)
        /\ heard' = [heard EXCEPT ![Head(channel)[1]] = Head(channel)[2]]
        /\ UNCHANGED <<updates, reported>>
    BY <1>4 DEF Receive
  <2>2. /\ OnTheWay \in Seq(Changes) /\ OnTheWay # <<>> /\ Head(OnTheWay) = Head(channel)
        /\ OnTheWay' = Tail(OnTheWay)
    BY <1>types, <2>1, ReceiveTakesHead DEF OnTheWay
  <2>3. heard'[k] = IF Head(OnTheWay)[1] = k THEN Head(OnTheWay)[2] ELSE heard[k]
    BY <1>types, <2>1, <2>2
  <2>4. Carries(OnTheWay, heard[k], k, LastOf(reported[k]))
    BY <2>1 DEF Delivery
  <2> QED  BY <2>1, <2>2, <2>3, <2>4, CarriesTail
<1>5. CASE ReceiverDrops
  BY <1>5 DEF ReceiverDrops
<1>6. CASE SendUnencodable
  BY <1>6 DEF SendUnencodable
<1>7. CASE SendClosed
  BY <1>7 DEF SendClosed
<1>8. ASSUME UNCHANGED <<channel, updates, open, heard, reported>>
      PROVE  Carries(OnTheWay', heard'[k], k, LastOf(reported'[k]))
  BY <1>8, <1>same DEF OnTheWay
<1>9. CASE \/ RecordSame \/ RecordUnencodable \/ StatusFailed
           \/ \E j \in Keys : Skip(j)
  BY <1>8, <1>9 DEF RecordSame, RecordUnencodable, RecordRefresh, StatusFailed, Skip
<1>10. CASE \/ Snapshot \/ RecordGone \/ SweepDone \/ SendDone \/ PollAcquire \/ StatusAnswered
            \/ \E j \in Keys : Visit(j)
  BY <1>8, <1>10
  DEF Snapshot, RecordGone, SweepDone, SendDone, PollAcquire, StatusAnswered, Visit, auxVars
<1>11. CASE \E j \in Keys, st \in Statuses : VenueMoves(j, st)
  BY <1>8, <1>11 DEF VenueMoves, pollVars
<1>12. CASE UNCHANGED allVars
  BY <1>8, <1>12 DEF allVars, pollVars, auxVars
<1> QED
  BY <1>1, <1>2, <1>3, <1>4, <1>5, <1>6, <1>7, <1>9, <1>10, <1>11, <1>12
  DEF PollNext, PollStep

(* registry.rs:504-516, lib.rs:166-198: as long as every body encodes and   *)
(* the receiver is open, the latest change recorded of a receipt, which the *)
(* watch list may no longer know, has reached the engine or is on its way,  *)
(* and nothing recorded earlier reaches the engine after it.                *)
THEOREM LatestChangeTravels == PollSpec => []LastReportTravels
<1>1. PollInit => Delivery
  BY DEF PollInit, Delivery
<1>2. PollInv /\ Delivery /\ [PollNext]_allVars => Delivery'
  BY DeliveryStep
<1>3. PollInv /\ Delivery => LastReportTravels
  <2> SUFFICES ASSUME PollInv, Delivery, Encodes, open, NEW k \in Keys, reported[k] # <<>>
               PROVE  LET last == reported[k][Len(reported[k])]
                          In(q) == \E i \in DOMAIN q : q[i] = <<k, last>>
                      IN  heard[k] = last \/ In(updates) \/ In(channel)
    BY DEF LastReportTravels
  <2> DEFINE last == LastOf(reported[k])
  <2>1. channel \in Seq(Changes) /\ updates \in Seq(Changes)
    BY DEF PollInv, PollTypeOK, Changes
  <2>2. /\ Len(channel) \in Nat /\ Len(updates) \in Nat
        /\ DOMAIN channel = 1 .. Len(channel) /\ DOMAIN updates = 1 .. Len(updates)
    BY <2>1
  <2>3. /\ Len(OnTheWay) = Len(channel) + Len(updates)
        /\ \A i \in 1 .. Len(channel) + Len(updates) :
             OnTheWay[i] = IF i <= Len(channel) THEN channel[i] ELSE updates[i - Len(channel)]
    BY <2>1, ConcatProperties DEF OnTheWay
  <2>4. Carries(OnTheWay, heard[k], k, last)
    BY DEF Delivery
  <2> HIDE DEF last
  <2>5. \/ heard[k] = last
        \/ \E i \in 1 .. Len(OnTheWay) : OnTheWay[i] = <<k, last>>
    BY <2>4 DEF Carries
  <2>6. ASSUME NEW i \in 1 .. Len(OnTheWay), OnTheWay[i] = <<k, last>>
        PROVE  \/ \E j \in DOMAIN channel : channel[j] = <<k, last>>
               \/ \E j \in DOMAIN updates : updates[j] = <<k, last>>
    <3>1. CASE i <= Len(channel)
      BY <2>2, <2>3, <2>6, <3>1
    <3>2. CASE i > Len(channel)
      <4>1. i - Len(channel) \in 1 .. Len(updates)
        BY <2>2, <2>3, <3>2
      <4>2. ~(i <= Len(channel)) /\ i \in 1 .. Len(channel) + Len(updates)
        BY <2>2, <2>3, <3>2
      <4> QED  BY <2>2, <2>3, <2>6, <4>1, <4>2
    <3>3. i <= Len(channel) \/ i > Len(channel)
      BY <2>2, <2>3
    <3> QED  BY <3>1, <3>2, <3>3
  <2> QED  BY <2>5, <2>6 DEF last, LastOf
<1> QED  BY PollInvariant, <1>1, <1>2, <1>3, PTL DEF PollSpec

-----------------------------------------------------------------------------
(* The feed: list and queues implement StatusFeed.  The list is first read  *)
(* as a function of the keys, for any set of entries with one per key.      *)

OnePerKey(W) == W \subseteq Watch /\ \A w, x \in W : Key(w) = Key(x) => w = x

KnownIn(W) == [k \in Keys |-> IF \E w \in W : Key(w) = k
                              THEN (CHOOSE w \in W : Key(w) = k).last ELSE "unwatched"]

LEMMA KnownBy ==
  ASSUME NEW W, OnePerKey(W)
  PROVE  /\ \A w \in W : Key(w) \in Keys /\ KnownIn(W)[Key(w)] = w.last
         /\ \A k \in Keys : (\A w \in W : Key(w) # k) => KnownIn(W)[k] = "unwatched"
<1>1. ASSUME NEW w \in W
      PROVE  Key(w) \in Keys /\ KnownIn(W)[Key(w)] = w.last
  <2>1. Key(w) \in Keys
    BY DEF OnePerKey, Watch, Key, Keys
  <2>2. (CHOOSE x \in W : Key(x) = Key(w)) = w
    BY DEF OnePerKey
  <2> QED  BY <2>1, <2>2 DEF KnownIn
<1> QED  BY <1>1 DEF KnownIn

LEMMA KnownIsRead ==
  ASSUME PollInv
  PROVE  OnePerKey(watched) /\ Known = KnownIn(watched)
<1>1. OnePerKey(watched)
  BY DEF PollInv, WatchInv, WatchBounded, RegistryInv, TypeOK, OnePerKey, Key
<1> QED  BY <1>1 DEF Known, Watched, KnownIn

(* Two sets of entries that say the same of every key are read alike.       *)
LEMMA KnownAlike ==
  ASSUME NEW W, NEW X, OnePerKey(W), OnePerKey(X),
         \A w \in W : \E x \in X : Key(x) = Key(w) /\ x.last = w.last,
         \A x \in X : \E w \in W : Key(w) = Key(x)
  PROVE  KnownIn(W) = KnownIn(X)
<1>1. ASSUME NEW k \in Keys
      PROVE  KnownIn(W)[k] = KnownIn(X)[k]
  <2>1. CASE \E w \in W : Key(w) = k
    <3>1. PICK w \in W : Key(w) = k
      BY <2>1
    <3>2. PICK x \in X : Key(x) = Key(w) /\ x.last = w.last
      OBVIOUS
    <3> HIDE DEF KnownIn, Key
    <3> QED  BY <3>1, <3>2, KnownBy
  <2>2. CASE \A w \in W : Key(w) # k
    <3>1. \A x \in X : Key(x) # k
      BY <2>2
    <3> HIDE DEF KnownIn, Key
    <3> QED  BY <2>2, <3>1, KnownBy
  <2> QED  BY <2>1, <2>2
<1> QED  BY <1>1 DEF KnownIn

KeysOf(W) == {Key(w) : w \in W}

(* Entries that go and entries that come with nothing told yet: the keys of *)
(* the ones end a watch, those of the others begin one.                     *)
LEMMA KnownRewatched ==
  ASSUME NEW W, NEW X, OnePerKey(W), OnePerKey(X), \A x \in X \ W : x.last = "none"
  PROVE  /\ KeysOf(W \ X) \in SUBSET Keys /\ KeysOf(X \ W) \in SUBSET Keys
         /\ \A k \in KeysOf(X \ W) : k \in KeysOf(W \ X) \/ KnownIn(W)[k] = "unwatched"
         /\ \A k \in Keys :
              KnownIn(X)[k] = IF k \in KeysOf(X \ W) THEN "none"
                              ELSE IF k \in KeysOf(W \ X) THEN "unwatched" ELSE KnownIn(W)[k]
<1> DEFINE gone == KeysOf(W \ X)
           fresh == KeysOf(X \ W)
<1>k. /\ \A k : k \in gone <=> \E w \in W \ X : Key(w) = k
      /\ \A k : k \in fresh <=> \E x \in X \ W : Key(x) = k
  BY DEF KeysOf
<1>o. /\ \A w, x \in W : Key(w) = Key(x) => w = x
      /\ \A w, x \in X : Key(w) = Key(x) => w = x
  BY DEF OnePerKey
<1> HIDE DEF gone, fresh
<1>1. gone \in SUBSET Keys /\ fresh \in SUBSET Keys
  <2>1. \A w \in W \cup X : Key(w) \in Keys
    BY KnownBy
  <2>2. \A k \in gone : k \in Keys
    BY <1>k, <2>1
  <2>3. \A k \in fresh : k \in Keys
    BY <1>k, <2>1
  <2> QED  BY <2>2, <2>3
<1>2. ASSUME NEW k \in fresh
      PROVE  k \in gone \/ KnownIn(W)[k] = "unwatched"
  <2>1. PICK x \in X \ W : Key(x) = k
    BY <1>k
  <2>2. CASE \E w \in W : Key(w) = k
    <3>1. PICK w \in W : Key(w) = k
      BY <2>2
    <3>2. w \notin X
      BY <1>o, <2>1, <3>1
    <3> QED  BY <1>k, <3>1, <3>2
  <2>3. CASE \A w \in W : Key(w) # k
    BY <1>1, <2>3, KnownBy
  <2> QED  BY <2>2, <2>3
<1>3. ASSUME NEW k \in Keys
      PROVE  KnownIn(X)[k] = IF k \in fresh THEN "none"
                             ELSE IF k \in gone THEN "unwatched" ELSE KnownIn(W)[k]
  <2>1. CASE k \in fresh
    <3>1. PICK x \in X \ W : Key(x) = k
      BY <1>k, <2>1
    <3> QED  BY <2>1, <3>1, KnownBy
  <2>2. CASE k \notin fresh /\ k \in gone
    <3>1. PICK w \in W \ X : Key(w) = k
      BY <1>k, <2>2
    <3>2. \A x \in X : Key(x) # k
      BY <1>k, <1>o, <2>2, <3>1
    <3> QED  BY <2>2, <3>2, KnownBy
  <2>3. CASE k \notin fresh /\ k \notin gone
    <3>1. \A w \in W : Key(w) = k => w \in X
      BY <1>k, <2>3
    <3>2. \A x \in X : Key(x) = k => x \in W
      BY <1>k, <2>3
    <3>3. CASE \E w \in W : Key(w) = k
      <4>1. PICK w \in W : Key(w) = k
        BY <3>3
      <4>2. KnownIn(W)[k] = w.last /\ KnownIn(X)[k] = w.last
        BY <3>1, <4>1, KnownBy
      <4> QED  BY <2>3, <4>2
    <3>4. CASE \A w \in W : Key(w) # k
      <4>1. \A x \in X : Key(x) # k
        BY <3>2, <3>4
      <4> QED  BY <2>3, <3>4, <4>1, KnownBy
    <3> QED  BY <3>3, <3>4
  <2> QED  BY <2>1, <2>2, <2>3
<1> QED  BY <1>1, <1>2, <1>3 DEF gone, fresh

(* Dropping the head of the second queue drops one change of the two read   *)
(* as one.                                                                  *)
LEMMA DropLeavesRest ==
  ASSUME NEW c \in Seq(Changes), NEW u \in Seq(Changes), u # <<>>
  PROVE  LET q == c \o u IN
         /\ Len(c) + 1 \in 1 .. Len(q)
         /\ c \o Tail(u) =
              [j \in 1 .. Len(q) - 1 |-> IF j < Len(c) + 1 THEN q[j] ELSE q[j + 1]]
<1> DEFINE q == c \o u
           t == Tail(u)
           r == [j \in 1 .. Len(q) - 1 |-> IF j < Len(c) + 1 THEN q[j] ELSE q[j + 1]]
<1>1. /\ Len(c) \in Nat /\ Len(u) \in Nat /\ Len(u) > 0
      /\ t \in Seq(Changes) /\ Len(t) = Len(u) - 1
      /\ \A i \in 1 .. Len(u) - 1 : t[i] = u[i + 1]
  <2>1. Len(c) \in Nat /\ Len(u) \in Nat /\ Len(u) > 0
    OBVIOUS
  <2> QED  BY <2>1, HeadTailProperties
<1>2. /\ q \in Seq(Changes) /\ Len(q) = Len(c) + Len(u)
      /\ \A i \in 1 .. Len(c) + Len(u) : q[i] = IF i <= Len(c) THEN c[i] ELSE u[i - Len(c)]
  BY ConcatProperties
<1> HIDE DEF q, t
<1>3. /\ c \o t \in Seq(Changes) /\ Len(c \o t) = Len(c) + Len(t)
      /\ \A i \in 1 .. Len(c) + Len(t) :
           (c \o t)[i] = IF i <= Len(c) THEN c[i] ELSE t[i - Len(c)]
  BY <1>1, ConcatProperties
<1>4. \A i \in 1 .. Len(q) : q[i] \in Changes
  BY <1>2
<1>r. \A j \in 1 .. Len(q) - 1 : r[j] = IF j < Len(c) + 1 THEN q[j] ELSE q[j + 1]
  OBVIOUS
<1>d. (\A j \in 1 .. Len(q) - 1 : r[j] \in Changes) => r \in [1 .. Len(q) - 1 -> Changes]
  <2> DEFINE D == 1 .. Len(q) - 1
  <2>1. r = [j \in D |-> r[j]]
    OBVIOUS
  <2> HIDE DEF D, r
  <2>2. (\A j \in D : r[j] \in Changes) => r \in [D -> Changes]
    BY <2>1
  <2> QED  BY <2>2 DEF D
<1> HIDE DEF r
<1>5. ASSUME NEW j \in 1 .. Len(q) - 1
      PROVE  r[j] \in Changes /\ (c \o t)[j] = r[j]
  <2>1. j \in 1 .. Len(q) /\ j + 1 \in 1 .. Len(q)
    BY <1>1, <1>2
  <2>2. r[j] = IF j < Len(c) + 1 THEN q[j] ELSE q[j + 1]
    BY <1>r
  <2>3. CASE j < Len(c) + 1
    <3>1. j <= Len(c) /\ j \in 1 .. Len(c) + Len(t) /\ j \in 1 .. Len(c) + Len(u)
      BY <1>1, <1>2, <2>3
    <3> QED  BY <1>2, <1>3, <1>4, <2>1, <2>2, <2>3, <3>1
  <2>4. CASE ~(j < Len(c) + 1)
    <3>1. /\ ~(j <= Len(c)) /\ ~(j + 1 <= Len(c)) /\ j + 1 \in 1 .. Len(c) + Len(u)
          /\ j \in 1 .. Len(c) + Len(t) /\ j - Len(c) \in 1 .. Len(u) - 1
          /\ j + 1 - Len(c) = (j - Len(c)) + 1
      BY <1>1, <1>2, <2>4
    <3>2. (c \o t)[j] = t[j - Len(c)] /\ q[j + 1] = u[j + 1 - Len(c)]
      BY <1>2, <1>3, <3>1
    <3>3. t[j - Len(c)] = u[(j - Len(c)) + 1]
      BY <1>1, <3>1
    <3> QED  BY <1>4, <2>1, <2>2, <2>4, <3>1, <3>2, <3>3
  <2> QED  BY <2>3, <2>4
<1>6. Len(q) - 1 \in Nat /\ Len(q) - 1 = Len(c) + Len(t)
  BY <1>1, <1>2
<1>7. r \in Seq(Changes) /\ Len(r) = Len(q) - 1
  <2>1. r \in [1 .. Len(q) - 1 -> Changes]
    <3>1. \A j \in 1 .. Len(q) - 1 : r[j] \in Changes
      BY <1>5
    <3> QED  BY <1>d, <3>1
  <2> DEFINE n == Len(q) - 1
  <2>2. n \in Nat /\ r \in [1 .. n -> Changes] /\ DOMAIN r = 1 .. n
    BY <1>6, <2>1
  <2> HIDE DEF n
  <2>3. r \in Seq(Changes)
    BY <2>2
  <2>4. Len(r) = n
    BY <2>2, <2>3
  <2> QED  BY <2>3, <2>4 DEF n
<1>8. c \o t = r
  BY <1>3, <1>5, <1>6, <1>7, SeqEqual
<1>9. Len(c) + 1 \in 1 .. Len(q)
  BY <1>1, <1>2
<1> QED  BY <1>8, <1>9 DEF q, t, r

(* A call, or the prune of a sweep. *)
LEMMA FeedRewatched ==
  ASSUME PollInv, PollInv', UNCHANGED <<channel, updates, open>>,
         \A w \in watched' \ watched : w.last = "none"
  PROVE  Promise!FeedNext
<1>1. /\ OnePerKey(watched) /\ Known = KnownIn(watched)
      /\ OnePerKey(watched') /\ Known' = KnownIn(watched')
  BY KnownIsRead DEF PollInv, WatchInv, WatchBounded, RegistryInv, TypeOK, OnePerKey, Key,
                     Known, Watched, KnownIn, Keys
<1> DEFINE gone == KeysOf(watched \ watched')
           fresh == KeysOf(watched' \ watched)
<1>2. /\ gone \in SUBSET Keys /\ fresh \in SUBSET Keys
      /\ \A k \in fresh : k \in gone \/ Known[k] = "unwatched"
      /\ \A k \in Keys : Known'[k] = IF k \in fresh THEN "none"
                                     ELSE IF k \in gone THEN "unwatched" ELSE Known[k]
  <2> HIDE DEF Known
  <2> QED  BY <1>1, KnownRewatched
<1>4. Known' = [k \in Keys |-> IF k \in fresh THEN "none"
                               ELSE IF k \in gone THEN "unwatched" ELSE Known[k]]
  <2>1. Known' = [k \in Keys |-> Known'[k]]
    BY DEF Known, Keys
  <2> HIDE DEF gone, fresh, Known
  <2> QED  BY <1>2, <2>1
<1>3. Feed' = Feed
  BY DEF Feed
<1> HIDE DEF Known, Feed, gone, fresh
<1>5. Promise!Rewatch(gone, fresh)
  BY <1>2, <1>3, <1>4 DEF Promise!Rewatch
<1> QED  BY <1>2, <1>5 DEF Promise!FeedNext

(* What is left of the sweep neither lists nor forgets. *)
LEMMA FeedKept ==
  ASSUME PollInv, PollInv', Feed' = Feed, open' = open,
         \A w \in watched' : \E x \in watched : Key(x) = Key(w) /\ x.last = w.last,
         \A x \in watched : \E w \in watched' : Key(w) = Key(x)
  PROVE  UNCHANGED Promise!feedVars
<1>1. /\ OnePerKey(watched) /\ Known = KnownIn(watched)
      /\ OnePerKey(watched') /\ Known' = KnownIn(watched')
  BY KnownIsRead DEF PollInv, WatchInv, WatchBounded, RegistryInv, TypeOK, OnePerKey, Key,
                     Known, Watched, KnownIn, Keys
<1>2. Known' = Known
  <2> HIDE DEF KnownIn, OnePerKey, Key
  <2> QED  BY <1>1, KnownAlike
<1> HIDE DEF Known, Feed
<1> QED  BY <1>2 DEF Promise!feedVars

(* A recorded change is a later one, told at the end of the feed. *)
LEMMA FeedTells ==
  ASSUME PollInv, PollInv', Told, RecordChange
  PROVE  Promise!Tell(poll.key, poll.status)
<1> DEFINE k == poll.key
           st == poll.status
<1>types. /\ k \in Keys /\ st \in Statuses /\ TypeOK
          /\ channel \in Seq(Changes) /\ updates \in Seq(Changes)
          /\ reported \in [Keys -> Seq(Statuses)]
          /\ open' = open /\ channel' = channel /\ updates' = Append(updates, <<k, st>>)
  BY DEF PollInv, PollPlaced, PollTypeOK, RecordChange, Changes
<1>known. /\ OnePerKey(watched) /\ Known = KnownIn(watched)
          /\ OnePerKey(watched') /\ Known' = KnownIn(watched')
  BY KnownIsRead DEF PollInv, WatchInv, WatchBounded, RegistryInv, TypeOK, OnePerKey, Key,
                     Known, Watched, KnownIn, Keys
<1>1. PICK e \in Entry : e.last # st /\ watched' = (watched \ {e}) \cup Advanced(e, st)
  BY DEF RecordChange
<1>2. e \in watched /\ Key(e) = k /\ \A w \in watched : Key(w) = k => w = e
  BY <1>1, <1>known DEF Entry, OnePerKey
<1>3. ASSUME NEW w \in Advanced(e, st)
      PROVE  Key(w) = k /\ w.last = st /\ w \in watched' /\ st \notin Terminal
  <2>1. st \notin Terminal /\ w = [Refreshed(e) EXCEPT !.last = st]
    BY DEF Advanced
  <2> QED  BY <1>1, <1>2, <1>types, <2>1, RefreshedEntry DEF Key
<1>4. Known[k] = e.last
  <2> HIDE DEF k, st, Known
  <2> QED  BY <1>2, <1>known, KnownBy
<1>5. e.last # "unwatched"
  BY <1>2, PollConstants DEF PollInv, PollTypeOK, Lifecycle
<1>6. e.last # "none" => Stage(e.last) < Stage(st) /\ e.last \in Statuses
  <2> SUFFICES ASSUME e.last # "none" PROVE Stage(e.last) < Stage(st) /\ e.last \in Statuses
    OBVIOUS
  <2>1. RememberedAs(e, reported[k])
    BY <1>2 DEF Told
  <2>2. reported[k] # <<>> /\ e.last = LastOf(reported[k]) /\ e.last \notin Terminal
    BY <2>1 DEF RememberedAs
  <2>3. Stage(e.last) <= Stage(st)
    BY <1>types, <2>2 DEF Told, RecordChange
  <2>4. e.last \in Statuses
    BY <1>2 DEF PollInv, PollTypeOK
  <2> HIDE DEF k, st
  <2> QED  BY <1>1, <1>types, <2>2, <2>3, <2>4, StageType
<1>7. Known' = [Known EXCEPT ![k] = IF st \in Terminal THEN "unwatched" ELSE st]
  <2>1. Known'[k] = IF st \in Terminal THEN "unwatched" ELSE st
    <3>1. CASE st \in Terminal
      <4>1. \A w \in watched' : Key(w) # k
        BY <1>1, <1>2, <1>3, <3>1
      <4> HIDE DEF k, st, Known
      <4> QED  BY <1>known, <1>types, <3>1, <4>1, KnownBy
    <3>2. CASE st \notin Terminal
      <4>1. PICK w : w \in Advanced(e, st)
        BY <3>2 DEF Advanced
      <4>2. w \in watched' /\ Key(w) = k /\ w.last = st
        BY <1>3, <4>1
      <4> HIDE DEF k, st, Known
      <4> QED  BY <1>known, <3>2, <4>2, KnownBy
    <3> QED  BY <3>1, <3>2
  <2>2. ASSUME NEW j \in Keys, j # k
        PROVE  Known'[j] = Known[j]
    <3>1. \A w : Key(w) = j => (w \in watched' <=> w \in watched)
      BY <1>1, <1>2, <1>3, <2>2
    <3> HIDE DEF k, st, Known
    <3>2. CASE \E w \in watched : Key(w) = j
      <4>1. PICK w \in watched : Key(w) = j
        BY <3>2
      <4> QED  BY <1>known, <3>1, <4>1, KnownBy
    <3>3. CASE \A w \in watched : Key(w) # j
      <4>1. \A w \in watched' : Key(w) # j
        BY <3>1, <3>3
      <4> QED  BY <1>known, <3>3, <4>1, KnownBy
    <3> QED  BY <3>2, <3>3
  <2>3. Known' = [j \in Keys |-> Known'[j]] /\ Known = [j \in Keys |-> Known[j]]
    BY DEF Known, Keys
  <2> HIDE DEF k, st, Known
  <2> QED  BY <1>types, <2>1, <2>2, <2>3
<1>8. Feed' = IF open THEN Append(Feed, <<k, st>>) ELSE Feed
  <2> DEFINE c == <<k, st>>
  <2>1. c \in Changes
    BY <1>types DEF Changes
  <2>2. updates' = Append(updates, c)
    BY <1>types
  <2> HIDE DEF c
  <2>3. channel \o Append(updates, c) = Append(channel \o updates, c)
    BY <1>types, <2>1
  <2>4. Feed' = IF open THEN Append(Feed, c) ELSE Feed
    BY <1>types, <2>2, <2>3 DEF Feed
  <2> QED  BY <2>4 DEF c
<1>9. Known[k] # "none" => [x \in Statuses |-> Stage(x)][Known[k]]
                             < [x \in Statuses |-> Stage(x)][st]
  <2> HIDE DEF k, st, Known
  <2> QED  BY <1>types, <1>4, <1>6
<1> HIDE DEF k, st, Known, Feed
<1>10. Promise!Tell(k, st)
  BY <1>types, <1>4, <1>5, <1>7, <1>8, <1>9 DEF Promise!Tell
<1> QED  BY <1>10 DEF k, st

(* Each step of calls, sweep and delivery is a step of the feed or none. *)
LEMMA FeedStep ==
  ASSUME PollInv, PollInv', Told, [PollNext]_allVars
  PROVE  [Promise!FeedNext]_(Promise!feedVars)
<1>types. /\ channel \in Seq(Changes) /\ updates \in Seq(Changes)
          /\ poll.pc = "record" => poll.key \in Keys /\ poll.status \in Statuses
          /\ open \in BOOLEAN
  BY DEF PollInv, PollTypeOK, PollPlaced, Changes
<1> DEFINE Stays == Known' = Known
           Kept == Feed' = Feed /\ open' = open
<1>same. ASSUME UNCHANGED watched
         PROVE  Stays
  BY <1>same DEF Known, Watched, Keys, Key
<1>still. ASSUME Kept, Stays
          PROVE  UNCHANGED Promise!feedVars
  BY <1>still DEF Promise!feedVars
<1>queues. ASSUME UNCHANGED <<channel, updates, open>>
           PROVE  Kept
  BY <1>queues DEF Feed
<1>1. CASE CallStep
  <2>1. UNCHANGED <<channel, updates, open>> /\ \A w \in watched' \ watched : w.last = "none"
    BY <1>1, NewWatches DEF CallStep, PollInv, pollVars
  <2> QED  BY <2>1, FeedRewatched
<1>2. CASE Snapshot
  <2>1. UNCHANGED <<channel, updates, open>> /\ watched' \subseteq watched
    BY <1>2 DEF Snapshot, Unexpired
  <2> QED  BY <2>1, FeedRewatched
<1>3. CASE RecordChange
  <2>1. poll.key \in Keys /\ poll.status \in Statuses
    BY <1>3, <1>types DEF RecordChange
  <2> QED  BY <1>3, <2>1, FeedTells DEF Promise!FeedNext
<1>4. CASE RecordSame \/ RecordUnencodable
  <2>1. /\ watched' = (watched \ Entry) \cup {Refreshed(w) : w \in Entry}
        /\ UNCHANGED <<channel, updates, open>>
    BY <1>4 DEF RecordSame, RecordUnencodable, RecordRefresh
  <2>2. /\ TypeOK
        /\ \A w \in Entry :
             Key(Refreshed(w)) = Key(w) /\ Refreshed(w).last = w.last /\ w \in watched
    BY RefreshedEntry, PollConstants DEF Entry, Key, PollInv, RegistryInv
  <2>3. /\ \A w \in watched' : \E x \in watched : Key(x) = Key(w) /\ x.last = w.last
        /\ \A x \in watched : \E w \in watched' : Key(w) = Key(x)
    <3> HIDE DEF Refreshed, Key
    <3> QED  BY <2>1, <2>2
  <2>4. Kept
    BY <2>1, <1>queues
  <2> QED  BY <2>3, <2>4, FeedKept
<1>5. CASE Send
  <2>1. /\ updates # <<>> /\ channel' = Append(channel, Head(updates)) /\ updates' = Tail(updates)
        /\ UNCHANGED <<open, watched>>
    BY <1>5 DEF Send, vars
  <2>2. channel' \o updates' = channel \o updates
    BY <1>types, <2>1, SendKeepsOrder
  <2>3. Kept
    BY <2>1, <2>2 DEF Feed
  <2> QED  BY <2>1, <2>3, <1>same, <1>still
<1>6. CASE Receive
  <2>1. /\ channel # <<>> /\ open /\ channel' = Tail(channel)
        /\ UNCHANGED <<updates, open, watched>>
    BY <1>6 DEF Receive, vars
  <2>2. Feed # <<>> /\ Feed' = Tail(Feed)
    BY <1>types, <2>1, ReceiveTakesHead DEF Feed
  <2>3. Promise!Hear
    BY <2>1, <2>2, <1>same DEF Promise!Hear
  <2> QED  BY <2>3 DEF Promise!FeedNext
<1>7. CASE ReceiverDrops
  <2>1. open /\ open' = FALSE /\ UNCHANGED watched
    BY <1>7 DEF ReceiverDrops, vars
  <2>2. Feed' = <<>>
    BY <2>1 DEF Feed
  <2>3. Promise!Close
    BY <2>1, <2>2, <1>same DEF Promise!Close
  <2> QED  BY <2>3 DEF Promise!FeedNext
<1>8. CASE SendUnencodable
  <2>1. /\ ~Encodes /\ updates # <<>> /\ updates' = Tail(updates)
        /\ UNCHANGED <<channel, open, watched>>
    BY <1>8 DEF SendUnencodable, vars
  <2>2. CASE open
    <3>1. Feed = channel \o updates /\ Feed' = channel \o Tail(updates)
      BY <2>1, <2>2 DEF Feed
    <3> DEFINE i == Len(channel) + 1
    <3>2. i \in 1 .. Len(Feed)
          /\ Feed' = [j \in 1 .. Len(Feed) - 1 |-> IF j < i THEN Feed[j] ELSE Feed[j + 1]]
      BY <1>types, <2>1, <3>1, DropLeavesRest
    <3> HIDE DEF i
    <3>3. Promise!Lose(i)
      BY <2>1, <3>2, <1>same DEF Promise!Lose
    <3> QED  BY <3>2, <3>3 DEF Promise!FeedNext
  <2>3. CASE ~open
    <3>1. Kept
      BY <2>1, <2>3 DEF Feed
    <3> QED  BY <2>1, <3>1, <1>same, <1>still
  <2> QED  BY <2>2, <2>3
<1>9. CASE SendClosed
  <2>1. ~open /\ UNCHANGED <<open, watched>>
    BY <1>9 DEF SendClosed, vars
  <2>2. Kept
    BY <2>1 DEF Feed
  <2> QED  BY <2>1, <2>2, <1>same, <1>still
<1>10. ASSUME UNCHANGED <<channel, updates, open, watched>>
       PROVE  UNCHANGED Promise!feedVars
  BY <1>10, <1>same, <1>queues, <1>still
<1>11. CASE \/ RecordGone \/ SweepDone \/ SendDone \/ PollAcquire \/ StatusAnswered
            \/ StatusFailed \/ \E j \in Keys : Visit(j) \/ Skip(j)
  BY <1>10, <1>11
  DEF RecordGone, SweepDone, SendDone, PollAcquire, StatusAnswered, StatusFailed, Visit, Skip, vars
<1>12. CASE \E j \in Keys, st \in Statuses : VenueMoves(j, st)
  BY <1>10, <1>12 DEF VenueMoves, pollVars, vars
<1>13. CASE UNCHANGED allVars
  BY <1>10, <1>13 DEF allVars, pollVars, vars
<1> QED
  BY <1>1, <1>2, <1>3, <1>4, <1>5, <1>6, <1>7, <1>8, <1>9, <1>11, <1>12, <1>13
  DEF PollNext, PollStep

(* registry.rs:427-432, 487-530, lib.rs:150-201: whatever the sweeps, the   *)
(* calls, the venues and the engine do, watch list and queues are together  *)
(* one feed of the changes: a watched receipt's later states, each told     *)
(* once and at the end, heard in that order, none lost but one that fails   *)
(* to encode; and a new watch never starts over a live one.                 *)
THEOREM PollKeepsTheFeed == PollSpec => KeepsTheFeed
<1>1. PollInit => Promise!FeedInit
  <2> SUFFICES ASSUME PollInit PROVE Promise!FeedInit
    OBVIOUS
  <2>1. watched = {} /\ channel = <<>> /\ updates = <<>> /\ open = TRUE
    BY DEF PollInit, Init
  <2>2. Known = [k \in Keys |-> "unwatched"]
    BY <2>1 DEF Known, Watched
  <2>3. Feed = <<>>
    BY <2>1 DEF Feed
  <2> QED  BY <2>1, <2>2, <2>3 DEF Promise!FeedInit
<1>2. PollInv /\ PollInv' /\ Told /\ [PollNext]_allVars =>
        [Promise!FeedNext]_(Promise!feedVars)
  BY FeedStep
<1> QED  BY PollInvariant, ToldInvariant, <1>1, <1>2, PTL
         DEF PollSpec, KeepsTheFeed, Promise!FeedSpec

-----------------------------------------------------------------------------
(* The order in which the engine hears.  A report starts afresh with each    *)
(* watch, but changes of the last one may still be under way, so the order   *)
(* over all of a receipt's watches is that of the two queues, read as one:   *)
(* from what was heard to the answer the sweep carries, and to the venue, no *)
(* stage is below the one before it.                                         *)
Ascends(q, h, k, n) ==
  /\ h # "none" => Stage(h) <= n
  /\ \A i \in 1 .. Len(q) : q[i][1] = k =>
       /\ Stage(q[i][2]) <= n
       /\ h # "none" => Stage(h) <= Stage(q[i][2])
       /\ \A j \in 1 .. Len(q) : i < j /\ q[j][1] = k => Stage(q[i][2]) <= Stage(q[j][2])

Sent ==
  \A k \in Keys :
    /\ Ascends(OnTheWay, heard[k], k, Stage(truth[k]))
    /\ poll.pc = "record" /\ poll.key = k =>
         Ascends(OnTheWay, heard[k], k, Stage(poll.status))

(* Whatever becomes of a queue, short of a change of order. *)
LEMMA AscendsInPart ==
  ASSUME NEW q, NEW p, NEW f, NEW h, NEW k, NEW n, Ascends(q, h, k, n),
         \A i \in 1 .. Len(p) : f[i] \in 1 .. Len(q) /\ p[i] = q[f[i]],
         \A i, j \in 1 .. Len(p) : i < j => f[i] < f[j]
  PROVE  Ascends(p, h, k, n)
BY DEF Ascends

LEMMA AscendsHigher ==
  ASSUME NEW q \in Seq(Changes), NEW h \in Statuses \cup {"none"}, NEW k,
         NEW st \in Statuses, NEW tr \in Statuses, Stage(st) <= Stage(tr),
         Ascends(q, h, k, Stage(st))
  PROVE  Ascends(q, h, k, Stage(tr))
<1>1. \A i \in 1 .. Len(q) : q[i][2] \in Statuses
  BY DEF Changes
<1>2. \A x \in Statuses : Stage(x) <= Stage(st) => Stage(x) <= Stage(tr)
  <2>1. \A x \in Statuses : Stage(x) \in 0 .. 2
    BY StageType
  <2> QED  BY <2>1
<1> QED  BY <1>1, <1>2 DEF Ascends

LEMMA AscendsTail ==
  ASSUME NEW q \in Seq(Changes), q # <<>>, NEW h, NEW k, NEW n, Ascends(q, h, k, n)
  PROVE  Ascends(Tail(q), IF Head(q)[1] = k THEN Head(q)[2] ELSE h, k, n)
<1> DEFINE t == Tail(q)
           g == [i \in 1 .. Len(t) |-> i + 1]
<1>1. /\ Len(q) \in Nat /\ Len(q) > 0 /\ Len(t) = Len(q) - 1 /\ Head(q) = q[1]
      /\ \A i \in 1 .. Len(q) - 1 : t[i] = q[i + 1]
  <2>1. Len(q) \in Nat /\ Len(q) > 0 /\ Head(q) = q[1]
    OBVIOUS
  <2> QED  BY <2>1, HeadTailProperties
<1> HIDE DEF t
<1>2. \A i \in 1 .. Len(t) : i + 1 \in 1 .. Len(q) /\ t[i] = q[i + 1] /\ 1 < i + 1
  BY <1>1
<1>3. Ascends(t, h, k, n)
  <2>1. \A i \in 1 .. Len(t) : g[i] \in 1 .. Len(q) /\ t[i] = q[g[i]]
    BY <1>2
  <2>2. \A i, j \in 1 .. Len(t) : i < j => g[i] < g[j]
    OBVIOUS
  <2> HIDE DEF g
  <2> QED  BY <2>1, <2>2, AscendsInPart
<1>4. CASE q[1][1] = k
  <2>1. 1 \in 1 .. Len(q)
    BY <1>1
  <2>2. Stage(q[1][2]) <= n
    BY <1>4, <2>1 DEF Ascends
  <2>3. \A i \in 1 .. Len(t) : t[i][1] = k => Stage(q[1][2]) <= Stage(t[i][2])
    BY <1>2, <1>4, <2>1 DEF Ascends
  <2>4. Ascends(t, q[1][2], k, n)
    BY <1>3, <2>2, <2>3 DEF Ascends
  <2> QED  BY <1>1, <1>4, <2>4 DEF t
<1>5. CASE q[1][1] # k
  BY <1>1, <1>3, <1>5 DEF t
<1> QED  BY <1>4, <1>5

LEMMA AscendsAppend ==
  ASSUME NEW q \in Seq(Changes), NEW k \in Keys, NEW st \in Statuses, NEW h, NEW m, NEW n,
         m = k => n = Stage(st), Ascends(q, h, m, n)
  PROVE  Ascends(Append(q, <<k, st>>), h, m, n)
<1> DEFINE c == <<k, st>>
           p == Append(q, c)
<1>1. /\ Len(q) \in Nat /\ Len(p) = Len(q) + 1 /\ p[Len(q) + 1] = c
      /\ \A i \in 1 .. Len(q) : p[i] = q[i]
  <2>1. c \in Changes
    BY DEF Changes
  <2>2. Len(q) \in Nat
    OBVIOUS
  <2> HIDE DEF c
  <2> QED  BY <2>1, <2>2, AppendProperties
<1>2. c[1] = k /\ c[2] = st /\ Stage(st) <= Stage(st)
  <2>1. Stage(st) \in 0 .. 2
    BY StageType
  <2> QED  BY <2>1
<1> HIDE DEF p, c
<1>3. \A i \in 1 .. Len(p) : i \in 1 .. Len(q) \/ i = Len(q) + 1
  BY <1>1
<1>4. ASSUME NEW i \in 1 .. Len(p), p[i][1] = m
      PROVE  /\ Stage(p[i][2]) <= n
             /\ h # "none" => Stage(h) <= Stage(p[i][2])
  <2>1. CASE i \in 1 .. Len(q)
    BY <1>1, <1>4, <2>1 DEF Ascends
  <2>2. CASE i = Len(q) + 1
    BY <1>1, <1>2, <1>4, <2>2 DEF Ascends
  <2> QED  BY <1>3, <2>1, <2>2
<1>5. ASSUME NEW i \in 1 .. Len(p), NEW j \in 1 .. Len(p), i < j,
             p[i][1] = m, p[j][1] = m
      PROVE  Stage(p[i][2]) <= Stage(p[j][2])
  <2>1. i \in 1 .. Len(q)
    BY <1>1, <1>5
  <2>2. CASE j \in 1 .. Len(q)
    BY <1>1, <1>5, <2>1, <2>2 DEF Ascends
  <2>3. CASE j = Len(q) + 1
    <3>1. m = k /\ p[j][2] = st
      BY <1>1, <1>2, <1>5, <2>3
    <3> QED  BY <1>4, <1>5, <3>1
  <2> QED  BY <1>3, <2>2, <2>3
<1> QED  BY <1>4, <1>5 DEF Ascends, p, c

(* The parts of two queues read as one. *)
LEMMA PartsOfQueue ==
  ASSUME NEW c \in Seq(Changes), NEW u \in Seq(Changes), NEW h, NEW k, NEW n,
         Ascends(c \o u, h, k, n)
  PROVE  /\ Ascends(c, h, k, n)
         /\ Ascends(u, h, k, n)
         /\ u # <<>> => Ascends(c \o Tail(u), h, k, n)
<1> DEFINE q == c \o u
           l == Len(c)
<1>1. /\ Len(c) \in Nat /\ Len(u) \in Nat /\ Len(q) = Len(c) + Len(u)
      /\ \A i \in 1 .. Len(c) + Len(u) : q[i] = IF i <= Len(c) THEN c[i] ELSE u[i - Len(c)]
  BY ConcatProperties
<1>2. Ascends(c, h, k, n)
  <2> DEFINE g == [i \in 1 .. Len(c) |-> i]
  <2> HIDE DEF q
  <2>1. \A i \in 1 .. Len(c) : g[i] \in 1 .. Len(q) /\ c[i] = q[g[i]]
    BY <1>1
  <2>2. \A i, j \in 1 .. Len(c) : i < j => g[i] < g[j]
    OBVIOUS
  <2> HIDE DEF g
  <2> QED  BY <2>1, <2>2, AscendsInPart DEF q
<1>3. Ascends(u, h, k, n)
  <2> DEFINE g == [i \in 1 .. Len(u) |-> i + l]
  <2> HIDE DEF q, l
  <2>1. ASSUME NEW i \in 1 .. Len(u)
        PROVE  g[i] \in 1 .. Len(q) /\ u[i] = q[g[i]]
    <3>1. /\ i + l \in 1 .. Len(c) + Len(u) /\ ~(i + l <= Len(c)) /\ (i + l) - Len(c) = i
          /\ g[i] = i + l
      BY <1>1 DEF l
    <3> QED  BY <1>1, <3>1
  <2>2. \A i, j \in 1 .. Len(u) : i < j => g[i] < g[j]
    BY <1>1 DEF l
  <2> HIDE DEF g
  <2> QED  BY <2>1, <2>2, AscendsInPart DEF q
<1>4. ASSUME u # <<>>
      PROVE  Ascends(c \o Tail(u), h, k, n)
  <2> DEFINE p == c \o Tail(u)
             g == [i \in 1 .. Len(q) - 1 |-> IF i < l + 1 THEN i ELSE i + 1]
  <2>1. /\ l + 1 \in 1 .. Len(q)
        /\ p = [j \in 1 .. Len(q) - 1 |-> IF j < l + 1 THEN q[j] ELSE q[j + 1]]
    BY <1>4, DropLeavesRest
  <2>2. Len(q) \in Nat /\ l \in Nat
    BY <1>1
  <2>3. Len(p) = Len(q) - 1
    <3>1. /\ Tail(u) \in Seq(Changes) /\ Len(Tail(u)) = Len(u) - 1
      BY <1>4, HeadTailProperties
    <3>2. Len(p) = Len(c) + Len(Tail(u))
      BY <3>1, ConcatProperties
    <3> QED  BY <1>1, <3>1, <3>2
  <2> HIDE DEF p, q, l
  <2>4. ASSUME NEW i \in 1 .. Len(p)
        PROVE  g[i] \in 1 .. Len(q) /\ p[i] = q[g[i]]
    BY <2>1, <2>2, <2>3
  <2>5. \A i, j \in 1 .. Len(p) : i < j => g[i] < g[j]
    BY <2>2, <2>3
  <2> HIDE DEF g
  <2> QED  BY <2>4, <2>5, AscendsInPart DEF q, p
<1> QED  BY <1>2, <1>3, <1>4

(* One case per action that touches a queue, what was heard, the venue or   *)
(* the answer the sweep carries.                                            *)
LEMMA SentStep ==
  ASSUME PollInv, Told, Sent, [PollNext]_allVars
  PROVE  Sent'
<1>types. /\ channel \in Seq(Changes) /\ updates \in Seq(Changes)
          /\ heard \in [Keys -> Statuses \cup {"none"}] /\ truth \in [Keys -> Statuses]
          /\ poll \in PollRecord
          /\ poll.pc \in {"ask", "record"} => poll.key \in Keys
          /\ poll.pc = "record" => poll.status \in Statuses
  BY DEF PollInv, PollTypeOK, PollPlaced, Changes, PollRecord
<1>q. OnTheWay \in Seq(Changes)
  BY <1>types, ConcatProperties DEF OnTheWay
<1> SUFFICES ASSUME NEW k \in Keys
             PROVE  /\ Ascends(OnTheWay', heard'[k], k, Stage(truth'[k]))
                    /\ poll'.pc = "record" /\ poll'.key = k =>
                         Ascends(OnTheWay', heard'[k], k, Stage(poll'.status))
  BY DEF Sent, Keys
<1> DEFINE Goal == /\ Ascends(OnTheWay', heard'[k], k, Stage(truth'[k]))
                   /\ poll'.pc = "record" /\ poll'.key = k =>
                        Ascends(OnTheWay', heard'[k], k, Stage(poll'.status))
           Kept == \A n : Ascends(OnTheWay, heard[k], k, n) => Ascends(OnTheWay', heard'[k], k, n)
<1>kept. ASSUME Kept, truth'[k] = truth[k],
                poll'.pc = "record" /\ poll'.key = k =>
                  \/ poll.pc = "record" /\ poll.key = k /\ poll'.status = poll.status
                  \/ poll'.status = truth[k]
         PROVE  Goal
  <2>1. Ascends(OnTheWay, heard[k], k, Stage(truth[k]))
    BY DEF Sent
  <2>2. poll.pc = "record" /\ poll.key = k => Ascends(OnTheWay, heard[k], k, Stage(poll.status))
    BY DEF Sent
  <2> QED  BY <1>kept, <2>1, <2>2
<1>same. ASSUME UNCHANGED <<channel, updates, heard>>
         PROVE  Kept
  BY <1>same DEF OnTheWay
<1>1. CASE CallStep
  <2>1. /\ UNCHANGED <<channel, updates, poll, truth>>
        /\ heard'[k] \in {"none", heard[k]}
    BY <1>1 DEF CallStep, pollVars
  <2>2. Kept
    BY <2>1 DEF OnTheWay, Ascends
  <2> HIDE DEF Kept
  <2> QED  BY <1>kept, <2>1, <2>2
<1>2. CASE RecordChange
  <2> DEFINE st == poll.status
  <2>1. /\ poll.pc = "record" /\ poll.key \in Keys /\ st \in Statuses
        /\ updates' = Append(updates, <<poll.key, st>>)
        /\ UNCHANGED <<channel, heard, truth>> /\ poll'.pc = "visit"
    BY <1>2, <1>types DEF RecordChange, Recorded, PollRecord
  <2>2. OnTheWay' = Append(OnTheWay, <<poll.key, st>>)
    <3> DEFINE c == <<poll.key, st>>
    <3>1. c \in Changes
      BY <2>1 DEF Changes
    <3> HIDE DEF c
    <3>2. channel \o Append(updates, c) = Append(channel \o updates, c)
      BY <1>types, <3>1
    <3> QED  BY <2>1, <3>2 DEF OnTheWay, c
  <2>3. CASE poll.key = k
    <3>1. Ascends(OnTheWay, heard[k], k, Stage(st))
      BY <2>1, <2>3 DEF Sent
    <3>2. Stage(st) <= Stage(truth[k]) /\ truth[k] \in Statuses
          /\ heard[k] \in Statuses \cup {"none"}
      BY <1>types, <2>1, <2>3 DEF Told
    <3> HIDE DEF st
    <3>3. Ascends(OnTheWay', heard[k], k, Stage(st))
      BY <1>q, <2>1, <2>2, <2>3, <3>1, AscendsAppend
    <3>4. OnTheWay' \in Seq(Changes)
      <4>1. <<poll.key, st>> \in Changes
        BY <2>1 DEF Changes
      <4> QED  BY <1>q, <2>2, <4>1
    <3>5. Ascends(OnTheWay', heard[k], k, Stage(truth[k]))
      BY <2>1, <3>2, <3>3, <3>4, AscendsHigher
    <3> QED  BY <2>1, <3>5
  <2>4. CASE poll.key # k
    <3>1. Ascends(OnTheWay, heard[k], k, Stage(truth[k]))
      BY DEF Sent
    <3> HIDE DEF st
    <3>2. Ascends(OnTheWay', heard[k], k, Stage(truth[k]))
      BY <1>q, <2>1, <2>2, <2>4, <3>1, AscendsAppend
    <3> QED  BY <2>1, <3>2
  <2> QED  BY <2>3, <2>4
<1>3. CASE Send
  <2>1. /\ updates # <<>> /\ channel' = Append(channel, Head(updates)) /\ updates' = Tail(updates)
        /\ UNCHANGED <<heard, poll, truth>>
    BY <1>3 DEF Send, auxVars
  <2>2. OnTheWay' = OnTheWay
    BY <1>types, <2>1, SendKeepsOrder DEF OnTheWay
  <2>3. Kept
    BY <2>1, <2>2
  <2> HIDE DEF Kept
  <2> QED  BY <1>kept, <2>1, <2>3
<1>4. CASE Receive
  <2>1. /\ channel # <<>> /\ channel' = Tail(channel)
        /\ heard' = [heard EXCEPT ![Head(channel)[1]] = Head(channel)[2]]
        /\ UNCHANGED <<updates, poll, truth>>
    BY <1>4 DEF Receive
  <2>2. /\ OnTheWay # <<>> /\ Head(OnTheWay) = Head(channel) /\ OnTheWay' = Tail(OnTheWay)
    BY <1>types, <2>1, ReceiveTakesHead DEF OnTheWay
  <2>3. heard'[k] = IF Head(OnTheWay)[1] = k THEN Head(OnTheWay)[2] ELSE heard[k]
    BY <1>types, <2>1, <2>2
  <2>4. Kept
    BY <1>q, <2>2, <2>3, AscendsTail
  <2> HIDE DEF Kept
  <2> QED  BY <1>kept, <2>1, <2>4
<1>5. CASE ReceiverDrops
  <2>1. channel' = <<>> /\ UNCHANGED <<updates, heard, poll, truth>>
    BY <1>5 DEF ReceiverDrops, auxVars
  <2>2. OnTheWay' = updates
    BY <1>types, <2>1 DEF OnTheWay
  <2>3. Kept
    BY <1>types, <2>1, <2>2, PartsOfQueue DEF OnTheWay
  <2> HIDE DEF Kept
  <2> QED  BY <1>kept, <2>1, <2>3
<1>6. CASE SendUnencodable
  <2>1. updates # <<>> /\ updates' = Tail(updates) /\ UNCHANGED <<channel, heard, poll, truth>>
    BY <1>6 DEF SendUnencodable, auxVars
  <2>2. Kept
    BY <1>types, <2>1, PartsOfQueue DEF OnTheWay
  <2> HIDE DEF Kept
  <2> QED  BY <1>kept, <2>1, <2>2
<1>7. CASE SendClosed
  <2>1. updates' = <<>> /\ UNCHANGED <<channel, heard, truth>> /\ poll'.pc = "ended"
    BY <1>7, <1>types DEF SendClosed, auxVars, PollRecord
  <2>2. OnTheWay' = channel
    BY <1>types, <2>1 DEF OnTheWay
  <2>3. Kept
    BY <1>types, <2>1, <2>2, PartsOfQueue DEF OnTheWay
  <2> HIDE DEF Kept
  <2> QED  BY <1>kept, <2>1, <2>3
<1>8. ASSUME NEW j \in Keys, NEW st \in Statuses, VenueMoves(j, st)
      PROVE  Goal
  <2>1. /\ UNCHANGED <<channel, updates, heard, poll>>
        /\ Stage(truth[j]) < Stage(st) /\ truth' = [truth EXCEPT ![j] = st]
    BY <1>8 DEF VenueMoves, pollVars
  <2>2. OnTheWay' = OnTheWay
    BY <2>1 DEF OnTheWay
  <2>3. /\ truth[k] \in Statuses /\ truth'[k] \in Statuses /\ Stage(truth[k]) <= Stage(truth'[k])
        /\ heard[k] \in Statuses \cup {"none"}
    <3>1. truth'[k] = IF k = j THEN st ELSE truth[k]
      BY <1>types, <2>1
    <3>2. \A x \in Statuses : Stage(x) \in 0 .. 2
      BY StageType
    <3> QED  BY <1>types, <2>1, <3>1, <3>2
  <2>4. Ascends(OnTheWay, heard[k], k, Stage(truth[k]))
    BY DEF Sent
  <2>5. Ascends(OnTheWay, heard[k], k, Stage(truth'[k]))
    BY <1>q, <2>3, <2>4, AscendsHigher
  <2> QED  BY <2>1, <2>2, <2>5 DEF Sent
<1>9. CASE StatusAnswered
  <2>1. /\ UNCHANGED <<channel, updates, heard, truth>>
        /\ poll'.key = poll.key /\ poll'.status = truth[poll.key]
    BY <1>9, <1>types DEF StatusAnswered, auxVars, PollRecord
  <2> HIDE DEF Kept
  <2> QED  BY <1>kept, <1>same, <2>1
<1>10. ASSUME UNCHANGED <<channel, updates, heard, truth>>, poll'.pc # "record"
       PROVE  Goal
  <2> HIDE DEF Kept
  <2> QED  BY <1>10, <1>kept, <1>same
<1>11. CASE RecordSame \/ RecordUnencodable \/ RecordGone
  <2>1. UNCHANGED <<channel, updates, heard, truth>> /\ Recorded
    BY <1>11 DEF RecordSame, RecordUnencodable, RecordRefresh, RecordGone, auxVars
  <2>2. poll'.pc = "visit"
    BY <1>types, <2>1 DEF Recorded, PollRecord
  <2> QED  BY <1>10, <2>1, <2>2
<1>12. CASE StatusFailed \/ SweepDone \/ PollAcquire \/ \E j \in Keys : Visit(j)
  <2>1. UNCHANGED <<channel, updates, heard, truth>>
    BY <1>12 DEF StatusFailed, SweepDone, PollAcquire, Visit, auxVars
  <2>2. poll'.pc # "record"
    BY <1>12, <1>types DEF StatusFailed, SweepDone, PollAcquire, Visit, PollRecord
  <2> QED  BY <1>10, <2>1, <2>2
<1>13. CASE Snapshot \/ SendDone
  <2>1. poll'.pc \in {"visit", "sleep"}
    BY <1>13, SnapshotRecord DEF SendDone, Idle
  <2> QED  BY <1>10, <1>13, <2>1 DEF Snapshot, SendDone, auxVars
<1>14. ASSUME NEW j \in Keys, Skip(j)
       PROVE  Goal
  <2>1. UNCHANGED <<channel, updates, heard, truth>> /\ poll'.pc = "visit"
    BY <1>14, <1>types DEF Skip, PollRecord
  <2> QED  BY <1>10, <2>1
<1>15. CASE UNCHANGED allVars
  <2>1. UNCHANGED <<channel, updates, heard, truth, poll>>
    BY <1>15 DEF allVars, pollVars, auxVars
  <2> HIDE DEF Kept
  <2> QED  BY <1>kept, <1>same, <2>1
<1> HIDE DEF Goal
<1> QED
  BY <1>1, <1>2, <1>3, <1>4, <1>5, <1>6, <1>7, <1>8, <1>9, <1>11, <1>12, <1>13, <1>14, <1>15
  DEF PollNext, PollStep, Goal

LEMMA SentInvariant == PollSpec => []Sent
<1>1. PollInit => Sent
  BY DEF PollInit, Sent, Ascends, OnTheWay, Idle
<1>2. PollInv /\ Told /\ Sent /\ [PollNext]_allVars => Sent'
  BY SentStep
<1> QED  BY PollInvariant, ToldInvariant, <1>1, <1>2, PTL DEF PollSpec

(* registry.rs:427-432, 487-530, lib.rs:166-198: over one watch the changes *)
(* are recorded in the order the venue went through them, each once, the    *)
(* terminal one last; and over all of a receipt's watches the engine is     *)
(* never told an earlier state after a later one, nor one the venue has not *)
(* reached, whatever sweeps, expiries, calls and lost changes interleave.   *)
THEOREM ReportsAreInOrder == PollSpec => []ReportsInOrder
<1>1. PollInv /\ Sent => HeardInOrder
  <2> SUFFICES ASSUME PollInv, Sent
               PROVE  HeardInOrder
    OBVIOUS
  <2> DEFINE sent == OnTheWay
  <2>1. sent \in Seq(Changes)
    BY ConcatProperties DEF PollInv, PollTypeOK, OnTheWay, Changes
  <2> HIDE DEF sent
  <2>2. DOMAIN sent = 1 .. Len(sent) /\ \A i \in 1 .. Len(sent) : sent[i][1] \in Keys
    BY <2>1 DEF Changes
  <2>3. ASSUME NEW i \in 1 .. Len(sent)
        PROVE  Ascends(sent, heard[sent[i][1]], sent[i][1], Stage(truth[sent[i][1]]))
    BY <2>2 DEF Sent, sent
  <2>4. \A i, j \in 1 .. Len(sent) :
          i < j /\ sent[i][1] = sent[j][1] => Stage(sent[i][2]) <= Stage(sent[j][2])
    BY <2>3 DEF Ascends
  <2>5. \A i \in 1 .. Len(sent) :
          /\ heard[sent[i][1]] # "none" => Stage(heard[sent[i][1]]) <= Stage(sent[i][2])
          /\ Stage(sent[i][2]) <= Stage(truth[sent[i][1]])
    BY <2>3 DEF Ascends
  <2> QED  BY <2>2, <2>4, <2>5 DEF HeardInOrder, sent, OnTheWay
<1>2. Told /\ HeardInOrder => ReportsInOrder
  BY DEF Told, ReportsInOrder
<1> QED  BY PollInvariant, ToldInvariant, SentInvariant, <1>1, <1>2, PTL

=============================================================================
