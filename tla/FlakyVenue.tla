----------------------------- MODULE FlakyVenue -----------------------------
(***************************************************************************)
(* The flaky-venue adapter behind the venue registry (flaky-venue, lib.rs): *)
(* a submit that reads a poisoned chain head kills the adapter, and a sweep *)
(* that reads a healthy one revives it.  Head and liveness sit behind       *)
(* mutexes of their own, so a submit and a sweep each take two steps, and   *)
(* calls, sweeps and moves of the head interleave between them.             *)
(*                                                                          *)
(* The registry is VenueRegistry, with a liveness that remembers when the   *)
(* adapter died in place of a flag.  The adapter's futures never wait, so a *)
(* call is dropped in front of the slot only.                               *)
(***************************************************************************)
EXTENDS Integers, Sequences, FiniteSets

CONSTANTS
  Venues, MaxGen, Callers, Tasks, CallerOf, Ops, Receipts, MaxCharges, Window,
  MaxEntries, Grace, MaxNow, Responsive, Poller, None

VARIABLES
  gen, owner, ledger, watched, now, calls, (* as in VenueRegistry           *)
  died,     (* per slot: the instant its adapter died, None while it lives  *)
  poisoned, (* the chain head reads the sentinel                            *)
  read,     (* per task: what its submit read of the head                   *)
  sweeping, (* slots whose sweep has read a healthy head                    *)
  revived   (* per slot: revivals since the head was last poisoned          *)

Slots == Venues \X (1 .. MaxGen)

(* Liveness::is_alive *)
IsAlive(s) == died[s] = None

Alive == [v \in Venues |-> gen[v] > 0 /\ IsAlive(<<v, gen[v]>>)]

Registry == INSTANCE VenueRegistry WITH alive <- Alive

registry  == <<gen, owner, ledger, watched, now, calls>>
fixture   == <<died, poisoned, read, sweeping, revived>>
flakyVars == <<registry, fixture>>

ASSUME FlakyConstants == Registry!RegistryConstants /\ None \notin Nat

FlakyTypeOK ==
  /\ Registry!TypeOK
  /\ died \in [Slots -> Nat \cup {None}]
  /\ poisoned \in BOOLEAN
  /\ read \in [Tasks -> {"nothing", "healthy", "poison", "killed"}]
  /\ sweeping \subseteq Slots
  /\ revived \in [Slots -> 0 .. 2]

(* A head is poisoned by default. *)
FlakyInit ==
  /\ Registry!Init
  /\ died = [s \in Slots |-> None]
  /\ poisoned = TRUE
  /\ read = [t \in Tasks |-> "nothing"]
  /\ sweeping = {}
  /\ revived = [s \in Slots |-> 0]

-----------------------------------------------------------------------------
(* The registry's own steps, and the adapter's answers that do not depend   *)
(* on the head.                                                             *)
RegistryCall(t) ==
  /\ UNCHANGED fixture
  /\ \/ \E op \in Ops, v \in Venues : \/ Registry!Resolve(t, op, v)
                                      \/ Registry!ResolveFails(t, op, v)
     \/ Registry!RegistryStep(t)
     \/ Registry!Acquire(t)
     \/ Registry!DeriveHeader(t)
     \/ calls[t].pc = "lock" /\ Registry!Drop(t)

(* quote, status and cancel never fail. *)
Serves(t) ==
  /\ UNCHANGED fixture
  /\ Registry!Served(t)
  /\ calls'[t].result = "served"

(* Is the head poisoned? *)
ReadHead(t) ==
  /\ calls[t].pc = "post" /\ read[t] = "nothing"
  /\ read' = [read EXCEPT ![t] = IF poisoned THEN "poison" ELSE "healthy"]
  /\ UNCHANGED <<registry, died, poisoned, sweeping, revived>>

(* mark_dead keeps the first instant. *)
DiedAt(s) == IF IsAlive(s) THEN now ELSE died[s]

(* Variant: the poisoned submit unwinds, and its call with it. *)
KillUnwinds(t) ==
  /\ read[t] = "poison"
  /\ died' = [died EXCEPT ![calls[t].slot] = DiedAt(calls[t].slot)]
  /\ read' = [read EXCEPT ![t] = "nothing"]
  /\ calls' = [calls EXCEPT ![t] = Registry!Ended(@, "failed")]
  /\ UNCHANGED <<gen, owner, ledger, watched, now, poisoned, sweeping, revived>>

(* The submit kills its own adapter, ... *)
Kill(t) ==
  /\ read[t] = "poison"
  /\ died' = [died EXCEPT ![calls[t].slot] = DiedAt(calls[t].slot)]
  /\ read' = [read EXCEPT ![t] = "killed"]
  /\ UNCHANGED <<registry, poisoned, sweeping, revived>>

(* ... then answers unavailable. *)
Refuse(t) ==
  /\ read[t] = "killed"
  /\ read' = [read EXCEPT ![t] = "nothing"]
  /\ UNCHANGED <<died, poisoned, sweeping, revived>>
  /\ Registry!SubmitNotAccepted(t)
  /\ calls'[t].result = "failed"

(* A healthy head: the receipt is the body. *)
Take(t, r) ==
  /\ read[t] = "healthy"
  /\ UNCHANGED fixture
  /\ Registry!VenueTakes(t, r)

Accept(t) ==
  /\ read' = [read EXCEPT ![t] = "nothing"]
  /\ UNCHANGED <<died, poisoned, sweeping, revived>>
  /\ Registry!SubmitAccepted(t)

-----------------------------------------------------------------------------
(* The handle and the world *)

(* register: a fresh adapter with a liveness of its own, over a head that   *)
(* others may share.                                                        *)
Install(v) == UNCHANGED fixture /\ Registry!Register(v)

Installed(s) == s[2] <= gen[s[1]]

(* Variant: the sweep does not look at the head. *)
SweepBlindly(s) ==
  /\ Installed(s) /\ s \notin sweeping
  /\ sweeping' = sweeping \cup {s}
  /\ UNCHANGED <<registry, died, poisoned, read, revived>>

(* Variant: the test of the head is inverted. *)
SweepReadsPoison(s) ==
  /\ Installed(s) /\ s \notin sweeping /\ poisoned
  /\ sweeping' = sweeping \cup {s}
  /\ UNCHANGED <<registry, died, poisoned, read, revived>>

(* sweep: reads the head; a poisoned one ends it.  Whoever registered the   *)
(* venue keeps its handle and sweeps, one sweep at a time.                  *)
SweepReads(s) ==
  /\ Installed(s) /\ s \notin sweeping /\ ~poisoned
  /\ sweeping' = sweeping \cup {s}
  /\ UNCHANGED <<registry, died, poisoned, read, revived>>

(* mark_alive.  `revived` counts what a sweep undoes while the head is      *)
(* poisoned, to two; it is not in the code.                                 *)
SweepRevives(s) ==
  /\ s \in sweeping
  /\ sweeping' = sweeping \ {s}
  /\ died' = [died EXCEPT ![s] = None]
  /\ revived' = [revived EXCEPT ![s] = IF poisoned /\ ~IsAlive(s) /\ @ < 2 THEN @ + 1 ELSE @]
  /\ UNCHANGED <<registry, poisoned, read>>

(* poison, heal *)
HeadMoves ==
  /\ poisoned' = ~poisoned
  /\ revived' = IF poisoned THEN revived ELSE [s \in Slots |-> 0]
  /\ UNCHANGED <<registry, died, read, sweeping>>

TimePasses == UNCHANGED fixture /\ Registry!Tick

AdapterSubmit(t) ==
  \/ ReadHead(t)
  \/ Kill(t)
  \/ Refuse(t)
  \/ \E r \in Receipts : Take(t, r)
  \/ Accept(t)

FlakyNext ==
  \/ \E t \in Tasks : RegistryCall(t) \/ Serves(t) \/ AdapterSubmit(t)
  \/ \E v \in Venues : Install(v)
  \/ \E s \in Slots : SweepReads(s) \/ SweepRevives(s)
  \/ HeadMoves
  \/ TimePasses

FlakySpec == FlakyInit /\ [][FlakyNext]_flakyVars

(* The tasks run, and whoever holds a handle keeps sweeping. *)
FlakyFairness ==
  /\ \A t \in Tasks : WF_flakyVars(AdapterSubmit(t))
  /\ \A s \in Slots : WF_flakyVars(SweepReads(s)) /\ WF_flakyVars(SweepRevives(s))

FairFlakySpec == FlakySpec /\ FlakyFairness

-----------------------------------------------------------------------------
(* Properties *)

(* flaky-venue/src/lib.rs:11-28, registry.rs:267-276, 315: whatever the     *)
(* fixture does to itself is something the registry's model expects of a    *)
(* venue: it dies and recovers on its own, and no death, not even one in    *)
(* the middle of a call, leaves a slot locked, a call lost or a registry    *)
(* that disagrees with itself.                                              *)
BehavesAsAVenue == Registry!Spec

(* flaky-venue/src/lib.rs:255-266: the sweep looks at the head, then marks  *)
(* the adapter alive, and the head may be poisoned and the adapter die      *)
(* between the two. One revival can come too late in that way; until the    *)
(* head heals the same handle makes no second one, and the venue stays dead. *)
OneStaleRevival == \A s \in Slots : revived[s] <= 1

(* flaky-venue/src/lib.rs:3-6, 29-31: once the head is healthy for good, a  *)
(* venue serves for good, though a call that read the poison earlier kills  *)
(* it late and a sweep may have missed that death.                          *)
RecoversForGood ==
  \A s \in Slots : <>[](~poisoned) => <>[]IsAlive(s)

=============================================================================
