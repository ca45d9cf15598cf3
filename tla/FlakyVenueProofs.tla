-------------------------- MODULE FlakyVenueProofs --------------------------
(***************************************************************************)
(* Theorems about FlakyVenue, for every set of venues, tasks and receipts:  *)
(* behind the registry it behaves as the registry's model expects of any    *)
(* venue, and a sweep that comes too late revives it once.                  *)
(***************************************************************************)
EXTENDS FlakyVenue, TLAPS

FixtureType ==
  /\ gen \in [Venues -> 0 .. MaxGen]
  /\ now \in Nat
  /\ died \in [Slots -> Nat \cup {None}]
  /\ revived \in [Slots -> 0 .. 2]

LEMMA NoneIsNoInstant == None \notin Nat /\ MaxGen \in Nat
BY FlakyConstants DEF Registry!RegistryConstants

LEMMA InstalledSlot ==
  ASSUME FixtureType, NEW v \in Venues, gen[v] > 0
  PROVE  <<v, gen[v]>> \in Slots
BY NoneIsNoInstant DEF FixtureType, Slots

-----------------------------------------------------------------------------
(* Clock and generations move by the registry's own steps only.             *)
LEMMA RegistryMoves ==
  ASSUME FlakyNext
  PROVE  /\ UNCHANGED now \/ now' = now + 1
         /\ UNCHANGED gen \/ \E v \in Venues : gen[v] < MaxGen /\ gen' = [gen EXCEPT ![v] = @ + 1]
<1>1. ASSUME NEW t \in Tasks, RegistryCall(t) \/ Serves(t)
      PROVE  UNCHANGED <<now, gen>>
  BY <1>1
  DEF RegistryCall, Serves, Registry!Resolve, Registry!ResolveFails, Registry!RegistryStep,
      Registry!Gate, Registry!ChargeQuote, Registry!Observe, Registry!Acquire,
      Registry!DeriveHeader, Registry!Drop, Registry!Served
<1>2. ASSUME NEW t \in Tasks, AdapterSubmit(t)
      PROVE  UNCHANGED <<now, gen>>
  BY <1>2
  DEF AdapterSubmit, ReadHead, Kill, Refuse, Take, Accept, registry, Registry!VenueTakes,
      Registry!SubmitAccepted, Registry!SubmitNotAccepted
<1>3. ASSUME NEW v \in Venues, Install(v)
      PROVE  UNCHANGED now /\ gen[v] < MaxGen /\ gen' = [gen EXCEPT ![v] = @ + 1]
  BY <1>3 DEF Install, Registry!Register
<1>4. ASSUME NEW s \in Slots, SweepReads(s) \/ SweepRevives(s)
      PROVE  UNCHANGED <<now, gen>>
  BY <1>4 DEF SweepReads, SweepRevives, registry
<1>5. HeadMoves => UNCHANGED <<now, gen>>
  BY DEF HeadMoves, registry
<1>6. TimePasses => now' = now + 1 /\ UNCHANGED gen
  BY DEF TimePasses, Registry!Tick
<1> QED  BY <1>1, <1>2, <1>3, <1>4, <1>5, <1>6 DEF FlakyNext

(* The fixture's own steps: who dies, who is revived, who looks, and what   *)
(* the head does.                                                           *)
LEMMA FixtureMoves ==
  ASSUME [FlakyNext]_flakyVars
  PROVE  \/ UNCHANGED <<died, poisoned, sweeping, revived>>
         \/ \E t \in Tasks : Kill(t)
         \/ \E s \in Slots : SweepReads(s) \/ SweepRevives(s)
         \/ HeadMoves
BY DEF FlakyNext, RegistryCall, Serves, AdapterSubmit, ReadHead, Refuse, Take, Accept, Install,
       TimePasses, fixture, flakyVars

LEMMA FixtureTypeStep ==
  ASSUME FixtureType, [FlakyNext]_flakyVars
  PROVE  FixtureType'
<1>1. now' \in Nat /\ gen' \in [Venues -> 0 .. MaxGen]
  <2>1. CASE UNCHANGED flakyVars
    BY <2>1 DEF FixtureType, flakyVars, registry
  <2>2. CASE FlakyNext
    BY <2>2, RegistryMoves, NoneIsNoInstant DEF FixtureType
  <2> QED  BY <2>1, <2>2
<1> DEFINE Typed == died' \in [Slots -> Nat \cup {None}] /\ revived' \in [Slots -> 0 .. 2]
<1>2. ASSUME NEW t \in Tasks, Kill(t)
      PROVE  Typed
  <2>1. calls[t].slot \in Slots => DiedAt(calls[t].slot) \in Nat \cup {None}
    BY DEF DiedAt, FixtureType
  <2> QED  BY <1>2, <2>1 DEF Kill, FixtureType
<1>3. ASSUME NEW s \in Slots, SweepReads(s) \/ SweepRevives(s)
      PROVE  Typed
  BY <1>3 DEF SweepReads, SweepRevives, FixtureType
<1>4. HeadMoves => Typed
  BY DEF HeadMoves, FixtureType
<1>5. UNCHANGED <<died, revived>> => Typed
  BY DEF FixtureType
<1>6. Typed
  <2> HIDE DEF Typed
  <2> QED  BY <1>2, <1>3, <1>4, <1>5, FixtureMoves
<1>7. Slots' = Slots
  BY DEF Slots
<1> QED  BY <1>1, <1>6, <1>7 DEF FixtureType

LEMMA FixtureTypeInvariant == FlakySpec => []FixtureType
<1>1. FlakyInit => FixtureType
  BY NoneIsNoInstant DEF FlakyInit, Registry!Init, FixtureType
<1>2. FixtureType /\ [FlakyNext]_flakyVars => FixtureType'
  BY FixtureTypeStep
<1> QED  BY <1>1, <1>2, PTL DEF FlakySpec

-----------------------------------------------------------------------------
(* What the registry sees of the fixture is the liveness of the installed   *)
(* adapters: it follows the instants of death.                              *)
LEMMA AliveStays ==
  ASSUME UNCHANGED <<registry, died>>
  PROVE  UNCHANGED Registry!vars
BY DEF registry, Alive, IsAlive, Registry!vars

(* A slot's adapter dies or comes to life, and the registry sees it if that *)
(* is the incumbent.                                                        *)
LEMMA AliveMoves ==
  ASSUME FixtureType, UNCHANGED registry, NEW s \in Slots, NEW instant,
         died' = [died EXCEPT ![s] = instant]
  PROVE  (\E v \in Venues : Registry!VenueStep(v)) \/ UNCHANGED Registry!vars
<1>types. /\ died \in [Slots -> Nat \cup {None}]
          /\ UNCHANGED <<gen, owner, ledger, watched, now, calls>>
  BY DEF FixtureType, registry
<1>1. PICK v \in Venues, g \in 1 .. MaxGen : s = <<v, g>>
  BY DEF Slots
<1>2. /\ died'[s] = instant
      /\ \A x \in Slots : x # s => died'[x] = died[x]
  BY <1>types
<1>3. \A u \in Venues : gen[u] > 0 => <<u, gen[u]>> \in Slots
  BY InstalledSlot
<1>4. Alive' = [u \in Venues |-> gen[u] > 0 /\ died'[<<u, gen[u]>>] = None]
  BY <1>types DEF Alive, IsAlive
<1>5. Alive = [u \in Venues |-> gen[u] > 0 /\ died[<<u, gen[u]>>] = None]
  BY DEF Alive, IsAlive
<1>6. \A u \in Venues : u # v => Alive'[u] = Alive[u]
  BY <1>1, <1>2, <1>3, <1>4, <1>5
<1>7. Alive' = [Alive EXCEPT ![v] = Alive'[v]]
  BY <1>4, <1>5, <1>6
<1>8. Alive[v] \in BOOLEAN /\ Alive'[v] \in BOOLEAN
  BY <1>4, <1>5
<1>9. CASE Alive'[v] = Alive[v]
  <2>1. UNCHANGED Alive
    BY <1>4, <1>5, <1>6, <1>9
  <2> QED  BY <1>types, <2>1 DEF Registry!vars
<1>10. CASE Alive[v] /\ ~Alive'[v]
  <2>1. Alive' = [Alive EXCEPT ![v] = FALSE]
    BY <1>7, <1>8, <1>10
  <2>2. gen[v] > 0
    BY <1>5, <1>10
  <2>3. Registry!MarkDead(v)
    BY <1>types, <1>10, <2>1, <2>2 DEF Registry!MarkDead, Registry!Routable
  <2> QED  BY <2>3 DEF Registry!VenueStep
<1>11. CASE ~Alive[v] /\ Alive'[v]
  <2>1. Alive' = [Alive EXCEPT ![v] = TRUE]
    BY <1>7, <1>8, <1>11
  <2>2. gen[v] > 0
    BY <1>4, <1>11
  <2>3. Registry!MarkAlive(v)
    BY <1>types, <1>11, <2>1, <2>2 DEF Registry!MarkAlive
  <2> QED  BY <2>3 DEF Registry!VenueStep
<1> QED  BY <1>8, <1>9, <1>10, <1>11

(* Every step maps to a step of the registry or to a stutter. *)
LEMMA FlakyStep ==
  ASSUME FixtureType, [FlakyNext]_flakyVars
  PROVE  [Registry!Next]_(Registry!vars)
<1>1. ASSUME NEW t \in Tasks, \/ RegistryCall(t) \/ Serves(t) \/ Refuse(t) \/ Accept(t)
                              \/ \E r \in Receipts : Take(t, r)
      PROVE  Registry!Next
  <2>1. Registry!TaskStep(t)
    BY <1>1
    DEF RegistryCall, Serves, Refuse, Take, Accept, Registry!TaskStep, Registry!AdapterAnswers
  <2> QED  BY <2>1 DEF Registry!Next
<1>2. ASSUME NEW t \in Tasks, Kill(t)
      PROVE  Registry!Next \/ UNCHANGED Registry!vars
  <2> DEFINE s == calls[t].slot
  <2>1. /\ died' = [died EXCEPT ![s] = DiedAt(s)] /\ UNCHANGED registry
        /\ died \in [Slots -> Nat \cup {None}]
    BY <1>2 DEF Kill, FixtureType
  <2>2. CASE s \notin Slots
    BY <2>1, <2>2, AliveStays
  <2>3. CASE s \in Slots
    <3>1. ASSUME NEW x \in Slots, NEW instant, died' = [died EXCEPT ![x] = instant]
          PROVE  (\E v \in Venues : Registry!VenueStep(v)) \/ UNCHANGED Registry!vars
      BY <2>1, <3>1, AliveMoves
    <3>2. (\E v \in Venues : Registry!VenueStep(v)) \/ UNCHANGED Registry!vars
      BY <2>1, <2>3, <3>1
    <3> QED  BY <3>2 DEF Registry!Next
  <2> QED  BY <2>2, <2>3
<1>3. ASSUME NEW s \in Slots, SweepRevives(s)
      PROVE  Registry!Next \/ UNCHANGED Registry!vars
  <2>1. died' = [died EXCEPT ![s] = None] /\ UNCHANGED registry
    BY <1>3 DEF SweepRevives
  <2> QED  BY <2>1, AliveMoves DEF Registry!Next
<1>4. ASSUME \/ HeadMoves \/ \E s \in Slots : SweepReads(s)
             \/ \E t \in Tasks : ReadHead(t)
             \/ UNCHANGED flakyVars
      PROVE  UNCHANGED Registry!vars
  BY <1>4, AliveStays DEF HeadMoves, SweepReads, ReadHead, flakyVars, fixture
<1>5. ASSUME NEW v \in Venues, Install(v)
      PROVE  Registry!Next
  BY <1>5 DEF Install, Registry!Next, Registry!VenueStep
<1>6. TimePasses => Registry!Next
  BY DEF TimePasses, Registry!Next
<1> QED
  BY <1>1, <1>2, <1>3, <1>4, <1>5, <1>6 DEF FlakyNext, AdapterSubmit

(* flaky-venue/src/lib.rs:11-28: the fixture's deaths, even in the middle   *)
(* of a call, and its revivals are what the registry expects of a venue:    *)
(* whatever holds of every behaviour of the registry's model holds of the   *)
(* registry with this adapter behind it.                                    *)
THEOREM FlakyVenueIsAVenue == FlakySpec => BehavesAsAVenue
<1>1. FlakyInit => Registry!Init
  BY DEF FlakyInit
<1>2. FixtureType /\ [FlakyNext]_flakyVars => [Registry!Next]_(Registry!vars)
  BY FlakyStep
<1> QED  BY FixtureTypeInvariant, <1>1, <1>2, PTL DEF FlakySpec, BehavesAsAVenue, Registry!Spec

-----------------------------------------------------------------------------
(* Nobody can look at a poisoned head and see a healthy one: of the sweeps  *)
(* of one handle, the one under way is the only one to come too late.       *)
LateSweeps ==
  \A s \in Slots : revived[s] <= 1 /\ (poisoned /\ s \in sweeping => revived[s] = 0)

LEMMA LateSweepsStep ==
  ASSUME FixtureType, LateSweeps, [FlakyNext]_flakyVars
  PROVE  LateSweeps'
<1>types. revived \in [Slots -> 0 .. 2]
  BY DEF FixtureType
<1>1. ASSUME NEW t \in Tasks, Kill(t)
      PROVE  LateSweeps'
  BY <1>1 DEF Kill, LateSweeps, Slots
<1>2. ASSUME NEW s \in Slots, SweepReads(s)
      PROVE  LateSweeps'
  BY <1>2 DEF SweepReads, LateSweeps, Slots
<1>3. ASSUME NEW s \in Slots, SweepRevives(s)
      PROVE  LateSweeps'
  <2>1. /\ s \in sweeping /\ sweeping' = sweeping \ {s} /\ UNCHANGED poisoned
        /\ revived' = [revived EXCEPT ![s] =
                         IF poisoned /\ ~IsAlive(s) /\ @ < 2 THEN @ + 1 ELSE @]
    BY <1>3 DEF SweepRevives
  <2>2. revived'[s] \in {revived[s], revived[s] + 1} /\ (~poisoned => revived'[s] = revived[s])
    BY <1>types, <2>1
  <2>3. \A x \in Slots : x # s => revived'[x] = revived[x]
    BY <1>types, <2>1
  <2>4. revived'[s] <= 1
    BY <1>types, <2>1, <2>2 DEF LateSweeps
  <2>5. \A x \in Slots : revived'[x] <= 1 /\ (poisoned' /\ x \in sweeping' => revived'[x] = 0)
    BY <2>1, <2>3, <2>4 DEF LateSweeps
  <2> QED  BY <2>5 DEF LateSweeps, Slots
<1>4. HeadMoves => LateSweeps'
  BY <1>types DEF HeadMoves, LateSweeps, Slots
<1>5. UNCHANGED <<died, poisoned, sweeping, revived>> => LateSweeps'
  BY DEF LateSweeps, Slots
<1> QED  BY <1>1, <1>2, <1>3, <1>4, <1>5, FixtureMoves

(* flaky-venue/src/lib.rs:255-266: a sweep that read a healthy head may     *)
(* revive the adapter after the head went bad, once: until the head heals   *)
(* the same handle does not revive it again.                                *)
THEOREM RevivesLateOnce == FlakySpec => []OneStaleRevival
<1>1. FlakyInit => LateSweeps
  BY DEF FlakyInit, LateSweeps
<1>2. FixtureType /\ LateSweeps /\ [FlakyNext]_flakyVars => LateSweeps'
  BY LateSweepsStep
<1>3. LateSweeps => OneStaleRevival
  BY DEF LateSweeps, OneStaleRevival
<1> QED  BY FixtureTypeInvariant, <1>1, <1>2, <1>3, PTL DEF FlakySpec
=============================================================================
