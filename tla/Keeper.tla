-------------------------------- MODULE Keeper --------------------------------
(***************************************************************************)
(* A keeper module (videre-sdk, keeper.rs): at every tick it resolves the   *)
(* reservations earlier ticks left behind, then polls its commitments and   *)
(* submits the bodies they ask for, each reserved in a journal before the   *)
(* venue sees it and committed once the venue accepted it.                  *)
(*                                                                          *)
(* The journal, the commitment set and the gates live in the host's local   *)
(* store and survive; a run may end at any step (a trap, no fuel, the       *)
(* deadline, a store fault), leaving the store and the venue as they are.   *)
(* One action is the code between two writes to the store or two events at  *)
(* the venue.  A body stands for its submission key, and a number for its   *)
(* place in the store's key order.                                          *)
(***************************************************************************)
EXTENDS Integers, FiniteSets

CONSTANTS
  Bodies,      (* encoded intent bodies                                    *)
  Commitments, (* keys of the commitment set                               *)
  Budget,      (* Keeper::max_per_tick                                     *)
  Policy,      (* FaultPolicy::action: a retry action for every fault      *)
  Hints,       (* seconds a venue's rate limit or a source asks to wait    *)
  MaxEpoch,    (* the greatest epoch second (u64::MAX)                     *)
  Ambiguous,   (* faults a venue may answer to a first POST that it took   *)
  Settling,    (* bodies the venue does settle in the end (fairness only)  *)
  None         (* no body, no commitment                                   *)

(* "unavailable" stands also for a timeout and for a rate limit without a   *)
(* hint.  The faults no retry can help are "denied" from the venue's own    *)
(* submit and "unsent" from what comes before it: unknown-venue of a host   *)
(* that has not installed it, a header that does not derive.                *)
Transient == {"throttled", "unavailable"}
Faults    == Transient \cup {"denied", "unsent"}
Refusals  == {"signing", "denied"}
Answers   == {"accepted", "signing"} \cup Faults

ASSUME KeeperConstants ==
  /\ Bodies \subseteq Nat /\ None \notin Bodies /\ None \notin Commitments
  /\ Budget \in Nat /\ MaxEpoch \in Nat /\ Hints \subseteq Nat
  /\ Policy \in [Faults -> {"retry", "backoff", "drop"}]
  /\ Ambiguous \subseteq Faults /\ Settling \subseteq Bodies

VARIABLES
  mark,     (* per body: its mark in the journal                            *)
  eligible, (* per body: the reservation's next_eligible                    *)
  rows,     (* the commitment set                                           *)
  gate,     (* per commitment: the epoch its gate opens at                  *)
  epoch,    (* the clock                                                    *)
  run,      (* the run in progress                                          *)
  held,     (* the bodies the venue holds an order for                      *)
  inflight, (* bodies a cancelled POST may still bring to the venue         *)
  unsure    (* history, not in the code: the bodies whose last answer left  *)
            (* it open whether the venue has them or will                   *)

store == <<mark, eligible, rows, gate>>
venue == <<held, inflight, unsure>>
keeperVars == <<store, epoch, run, venue>>

-----------------------------------------------------------------------------
(* No run.  `kept` collects the bodies this run POSTed and did not release; *)
(* it is not in the code.                                                   *)
Idle == [pc |-> "idle", tick |-> 0, pending |-> {}, listed |-> {}, spent |-> 0,
         body |-> None, for |-> None, answer |-> "none", kept |-> {}]

KeeperTypeOK ==
  /\ mark \in [Bodies -> {"none", "reserved", "committed"}]
  /\ eligible \in [Bodies -> 0 .. MaxEpoch]
  /\ rows \subseteq Commitments
  /\ gate \in [Commitments -> 0 .. MaxEpoch]
  /\ epoch \in 0 .. MaxEpoch
  /\ run \in [pc : {"idle", "reconcile", "loop", "post", "taken", "answer", "apply"},
              tick : 0 .. MaxEpoch, pending : SUBSET Bodies,
              listed : SUBSET Commitments, spent : 0 .. Budget,
              body : Bodies \cup {None}, for : Commitments \cup {None},
              answer : {"none"} \cup Answers,
              kept : SUBSET Bodies]
  /\ held \subseteq Bodies /\ inflight \subseteq Bodies /\ unsure \subseteq Bodies

KeeperInit ==
  /\ mark = [b \in Bodies |-> "none"]
  /\ eligible = [b \in Bodies |-> 0]
  /\ rows = Commitments
  /\ gate = [c \in Commitments |-> 0]
  /\ epoch = 0
  /\ run = Idle
  /\ held = {} /\ inflight = {} /\ unsure = {}

-----------------------------------------------------------------------------
(* retry_action, the default fault policy. *)
retry_action ==
  [f \in Faults |-> CASE f = "throttled"   -> "backoff"
                      [] f = "unavailable" -> "retry"
                      [] OTHER             -> "drop"]

(* Variant: a venue that cannot be reached has refused. *)
EveryFaultEnds(f) == TRUE

(* FaultPolicy::is_terminal *)
IsTerminal(f) == Policy[f] = "drop"

(* Variant: the sum wraps or overflows. *)
PlainAdd(a, s) == a + s

SaturatingAdd(a, s) == IF a + s > MaxEpoch THEN MaxEpoch ELSE a + s

-----------------------------------------------------------------------------
(* Journal *)

SetMark(b, m) == mark' = [mark EXCEPT ![b] = m]

Release(b) == SetMark(b, "none") /\ eligible' = [eligible EXCEPT ![b] = 0]

Commit(b) == SetMark(b, "committed") /\ eligible' = [eligible EXCEPT ![b] = 0]

Reserve(b) == SetMark(b, "reserved") /\ eligible' = [eligible EXCEPT ![b] = 0]

Park(b, until) == UNCHANGED mark /\ eligible' = [eligible EXCEPT ![b] = until]

(* Back to the sweep, which keeps what it POSTed in mind or forgets it. *)
Resume(kept) ==
  run' = [run EXCEPT !.pc = IF run.for = None THEN "reconcile" ELSE "loop",
                     !.body = None, !.for = None, !.answer = "none", !.kept = kept]

ResumeKept     == Resume(run.kept \cup {run.body})
ResumeReleased == Resume(run.kept \ {run.body})

-----------------------------------------------------------------------------
(* The run and its reconcile pass *)

(* Variant: a reservation passes for a duplicate (the design of issue 572). *)
StartRunUnreconciled ==
  /\ run.pc = "idle"
  /\ run' = [Idle EXCEPT !.pc = "reconcile", !.tick = epoch]
  /\ UNCHANGED <<store, epoch, venue>>

(* run: Journal::pending lists the reservations. *)
StartRun ==
  /\ run.pc = "idle"
  /\ run' = [Idle EXCEPT !.pc = "reconcile", !.tick = epoch,
                         !.pending = {b \in Bodies : mark[b] = "reserved"}]
  /\ UNCHANGED <<store, epoch, venue>>

(* The reservation at hand: the first of those left, in key order. *)
IsNext(b) ==
  /\ run.pc = "reconcile" /\ b \in run.pending
  /\ \A x \in run.pending : b <= x

(* Variant: the window of a parked reservation is not looked at. *)
GatedNever(b) == FALSE

Gated(b) == eligible[b] > run.tick

ReconcileGated(b) ==
  /\ IsNext(b) /\ Gated(b)
  /\ run' = [run EXCEPT !.pending = @ \ {b}]
  /\ UNCHANGED <<store, epoch, venue>>

(* The venue sees the stored body again. *)
ReconcilePost(b) ==
  /\ IsNext(b) /\ ~Gated(b)
  /\ run.spent < Budget
  /\ run' = [run EXCEPT !.pc = "post", !.body = b, !.pending = @ \ {b},
                        !.spent = @ + 1]
  /\ UNCHANGED <<store, epoch, venue>>

(* Nothing is left to reconcile, or the budget is spent: CommitmentSet::list. *)
ReconcileEnds ==
  /\ run.pc = "reconcile"
  /\ \/ run.pending = {}
     \/ run.spent >= Budget /\ \E b \in run.pending : IsNext(b) /\ ~Gated(b)
  /\ run' = [run EXCEPT !.pc = "loop", !.pending = {}, !.listed = rows]
  /\ UNCHANGED <<store, epoch, venue>>

Answered(reconciling) == run.pc = "answer" /\ (run.for = None <=> reconciling)

(* Variant: every answer but a fault commits. *)
ReconcileAnyOk ==
  /\ Answered(TRUE) /\ run.answer \in {"accepted", "signing"}
  /\ Commit(run.body)
  /\ ResumeKept
  /\ UNCHANGED <<rows, gate, epoch, venue>>

ReconcileAccepted ==
  /\ Answered(TRUE) /\ run.answer = "accepted"
  /\ Commit(run.body)
  /\ ResumeKept
  /\ UNCHANGED <<rows, gate, epoch, venue>>

(* requires-signing, or a fault the policy calls terminal. *)
ReconcileReleases ==
  /\ Answered(TRUE)
  /\ \/ run.answer = "signing"
     \/ run.answer \in Faults /\ IsTerminal(run.answer)
  /\ Release(run.body)
  /\ ResumeReleased
  /\ UNCHANGED <<rows, gate, epoch, venue>>

(* A rate limit with a hint moves next_eligible. *)
ReconcileParks(s) ==
  /\ Answered(TRUE) /\ run.answer = "throttled" /\ ~IsTerminal(run.answer)
  /\ Park(run.body, SaturatingAdd(run.tick, s))
  /\ ResumeKept
  /\ UNCHANGED <<rows, gate, epoch, venue>>

(* Any other transient fault: the marker stays for the next tick. *)
ReconcilePending ==
  /\ Answered(TRUE) /\ run.answer \in Faults \ {"throttled"} /\ ~IsTerminal(run.answer)
  /\ ResumeKept
  /\ UNCHANGED <<store, epoch, venue>>

-----------------------------------------------------------------------------
(* The loop over the commitments *)

IsListed(c) == run.pc = "loop" /\ c \in run.listed

(* Gated, or gone from the set since it was listed. *)
Skip(c) ==
  /\ IsListed(c)
  /\ gate[c] > run.tick \/ c \notin rows
  /\ run' = [run EXCEPT !.listed = @ \ {c}]
  /\ UNCHANGED <<store, epoch, venue>>

Polls(c) == IsListed(c) /\ gate[c] <= run.tick /\ c \in rows

(* Retrier::apply: a retry leaves the commitment, a backoff gates it, a     *)
(* drop takes it out of the set.                                            *)
Apply(c, action) ==
  CASE action = "retry"   -> UNCHANGED <<rows, gate>>
    [] action = "drop"    -> rows' = rows \ {c} /\ UNCHANGED gate
    [] action = "backoff" ->
         /\ UNCHANGED rows
         /\ \E s \in Hints : gate' = [gate EXCEPT ![c] = SaturatingAdd(run.tick, s)]

(* The source asks to wait, to back off or to drop. *)
PollDefers(c, action) ==
  /\ Polls(c)
  /\ Apply(c, action)
  /\ run' = [run EXCEPT !.listed = @ \ {c}]
  /\ UNCHANGED <<mark, eligible, epoch, venue>>

(* The source retires a commitment while it is polled and asks to wait. *)
PollRetires(c, x) ==
  /\ Polls(c) /\ x \in rows
  /\ rows' = rows \ {x}
  /\ run' = [run EXCEPT !.listed = @ \ {c}]
  /\ UNCHANGED <<mark, eligible, gate, epoch, venue>>

(* Variant: a reservation is not looked for. *)
ReservedIsFresh(b) == mark[b] = "committed"

(* Variant: a committed body is submitted again. *)
CommittedIsFresh(b) == mark[b] = "reserved"

(* A committed body is a duplicate, a reserved one is the reconcile pass's. *)
IsMarked(b) == mark[b] # "none"

PollSubmitsMarked(c, b) ==
  /\ Polls(c) /\ IsMarked(b)
  /\ run' = [run EXCEPT !.listed = @ \ {c}]
  /\ UNCHANGED <<store, epoch, venue>>

(* Variant: the body is POSTed and not reserved. *)
PollSubmitsUnreserved(c, b) ==
  /\ Polls(c) /\ ~IsMarked(b)
  /\ run' = [run EXCEPT !.pc = "post", !.body = b, !.for = c, !.listed = @ \ {c}]
  /\ UNCHANGED <<store, epoch, venue>>

(* The body is reserved, then the venue is called. *)
PollSubmits(c, b) ==
  /\ Polls(c) /\ ~IsMarked(b)
  /\ Reserve(b)
  /\ run' = [run EXCEPT !.pc = "post", !.body = b, !.for = c, !.listed = @ \ {c}]
  /\ UNCHANGED <<rows, gate, epoch, venue>>

(* The commit is best effort: a fault leaves the reservation. *)
SubmitAccepted ==
  /\ Answered(FALSE) /\ run.answer = "accepted"
  /\ Commit(run.body) \/ UNCHANGED <<mark, eligible>>
  /\ ResumeKept
  /\ UNCHANGED <<rows, gate, epoch, venue>>

SubmitSigning ==
  /\ Answered(FALSE) /\ run.answer = "signing"
  /\ Release(run.body)
  /\ ResumeReleased
  /\ UNCHANGED <<rows, gate, epoch, venue>>

(* Any fault releases the reservation; the policy's action is a step of its *)
(* own.                                                                     *)
SubmitRefused ==
  /\ Answered(FALSE) /\ run.answer \in Faults
  /\ Release(run.body)
  /\ run' = [run EXCEPT !.pc = "apply", !.kept = @ \ {run.body}]
  /\ UNCHANGED <<rows, gate, epoch, venue>>

ApplyAction ==
  /\ run.pc = "apply"
  /\ Apply(run.for, Policy[run.answer])
  /\ Resume(run.kept)
  /\ UNCHANGED <<mark, eligible, epoch, venue>>

ReturnReport ==
  /\ run.pc = "loop" /\ run.listed = {}
  /\ run' = Idle
  /\ UNCHANGED <<store, epoch, venue>>

(* The run ends in the middle; a POST it had sent may still arrive. *)
Abort ==
  /\ run.pc # "idle"
  /\ run' = Idle
  /\ \/ UNCHANGED inflight
     \/ run.pc = "post" /\ inflight' = inflight \cup {run.body}
  /\ UNCHANGED <<store, epoch, held, unsure>>

-----------------------------------------------------------------------------
(* The host and the venue                                                   *)

(* The POST reaches the venue's submit, which dedupes what it holds. *)
VenueTakes ==
  /\ run.pc = "post"
  /\ held' = held \cup {run.body}
  /\ run' = [run EXCEPT !.pc = "taken"]
  /\ UNCHANGED <<store, epoch, inflight, unsure>>

VenueTakesLate(b) ==
  /\ b \in inflight
  /\ held' = held \cup {b} /\ inflight' = inflight \ {b}
  /\ UNCHANGED <<store, epoch, run, unsure>>

(* ... or is lost on its way. *)
LateCopyLost(b) ==
  /\ b \in inflight
  /\ inflight' = inflight \ {b}
  /\ UNCHANGED <<store, epoch, run, held, unsure>>

(* VenueReconcile: a body it holds the venue does not refuse.  Nothing is    *)
(* said of one whose late copy is still to come, nor of what the host       *)
(* answers before it asks the venue.                                        *)
Settles(b, a) == a \in Refusals => b \notin held

(* A first POST that was taken is answered a fault only if it is ambiguous. *)
Wavers(a) == a \in Transient /\ (run.for # None => a \in Ambiguous)

MayAnswer(a) ==
  \/ run.pc = "taken" /\ (a = "accepted" \/ Wavers(a))
  \/ run.pc = "post" /\ a # "accepted" /\ Settles(run.body, a)

(* What the answer tells of the venue's book: an acceptance, and a refusal   *)
(* with no copy under way, say what it has.  A refusal next to a late copy,  *)
(* a POST that ended before the venue though an earlier one may not have,    *)
(* and an ambiguous fault to a first POST say nothing.                       *)
Tells(b, a) == a = "accepted" \/ (a \in Refusals /\ b \notin inflight)

Misleads(b, a) ==
  \/ a \in Refusals /\ b \in inflight
  \/ a = "unsent" /\ run.for = None
  \/ a \in Ambiguous /\ run.for # None

Answer(a) ==
  /\ MayAnswer(a)
  /\ run' = [run EXCEPT !.pc = "answer", !.answer = a]
  /\ unsure' = CASE Tells(run.body, a)    -> unsure \ {run.body}
                 [] Misleads(run.body, a) -> unsure \cup {run.body}
                 [] OTHER                 -> unsure
  /\ UNCHANGED <<store, epoch, held, inflight>>

Advance ==
  /\ epoch < MaxEpoch
  /\ epoch' = epoch + 1
  /\ UNCHANGED <<store, run, venue>>

-----------------------------------------------------------------------------
ReconcileKeeps == ReconcilePending \/ \E s \in Hints : ReconcileParks(s)

ReconcileStep ==
  \/ \E b \in Bodies : ReconcileGated(b) \/ ReconcilePost(b)
  \/ ReconcileEnds
  \/ ReconcileAccepted
  \/ ReconcileReleases
  \/ ReconcileKeeps

LoopStep ==
  \/ \E c \in Commitments :
       \/ Skip(c)
       \/ \E action \in {"retry", "backoff", "drop"} : PollDefers(c, action)
       \/ \E x \in Commitments : PollRetires(c, x)
       \/ \E b \in Bodies : PollSubmitsMarked(c, b) \/ PollSubmits(c, b)
  \/ SubmitAccepted
  \/ SubmitSigning
  \/ SubmitRefused
  \/ ApplyAction
  \/ ReturnReport

VenueStep ==
  \/ VenueTakes
  \/ \E b \in Bodies : VenueTakesLate(b) \/ LateCopyLost(b)
  \/ \E a \in Answers : Answer(a)

KeeperNext ==
  \/ StartRun
  \/ ReconcileStep
  \/ LoopStep
  \/ Abort
  \/ VenueStep
  \/ Advance

KeeperSpec == KeeperInit /\ [][KeeperNext]_keeperVars

(* Ticks keep coming and time passes; every run comes to an end, and one    *)
(* that reaches some step of the reconcile pass again and again is not      *)
(* aborted there every time; a late copy arrives or is lost; the venue      *)
(* answers, and does not put off the bodies of Settling forever.            *)
KeeperFairness ==
  /\ WF_keeperVars(StartRun)
  /\ WF_keeperVars(Advance)
  /\ WF_keeperVars(ReconcileStep)
  /\ WF_keeperVars(LoopStep)
  /\ \A b \in Bodies :
       /\ WF_keeperVars(VenueTakesLate(b) \/ LateCopyLost(b))
       /\ SF_keeperVars(ReconcileGated(b) \/ ReconcilePost(b))
  /\ \A b \in Bodies \ Settling :
       /\ SF_keeperVars(run.body = b /\ \E a \in Answers : Answer(a))
       /\ SF_keeperVars(run.body = b /\ ReconcileStep)
  /\ \A b \in Settling :
       /\ SF_keeperVars(run.body = b /\ \E a \in Answers \ Transient : Answer(a))
       /\ SF_keeperVars(run.body = b /\ (ReconcileAccepted \/ ReconcileReleases))

FairKeeperSpec == KeeperSpec /\ KeeperFairness

-----------------------------------------------------------------------------
(* Properties *)

(* keeper.rs:165-170: whenever the venue may see a body its reservation is  *)
(* in the store, on both paths to it, so a run that dies here leaves a      *)
(* marker for the next reconcile pass.                                      *)
PostIsReserved ==
  run.pc \in {"post", "taken", "answer"} => mark[run.body] = "reserved"

(* keeper.rs:99-103, 1274-1278: no order is lost track of by a crash, a     *)
(* store fault or a lost answer. Whatever the venue holds, or may still     *)
(* come to hold, is in the journal, unless the last answer on it gave its   *)
(* reservation up and did not know: the host found no venue to ask again,   *)
(* the venue refused while a late copy was under way, or a first POST was   *)
(* answered an ambiguous fault.                                             *)
HeldIsMarked == \A b \in held \cup inflight : mark[b] # "none" \/ b \in unsure

(* keeper.rs:154-157, 171-174, 264-265: COMMITTED is written only for what the venue *)
(* holds, ...                                                               *)
CommittedIsHeld == \A b \in Bodies : mark[b] = "committed" => b \in held

(* ... and is final: no later tick, poll or fault undoes it.                *)
CommittedIsFinal ==
  [][\A b \in Bodies : mark[b] = "committed" => mark'[b] = "committed"]_keeperVars

(* keeper.rs:103-104, 158-163: in one run a body is POSTed a second time    *)
(* only after its reservation was released.                                 *)
NoSecondPost == run.pc = "post" => run.body \notin run.kept

(* keeper.rs:228, 255-258: a parked reservation is POSTed by nobody before  *)
(* the venue's window has passed.                                           *)
ParkRespected == run.pc = "post" => eligible[run.body] <= run.tick

(* keeper.rs:101-103, 1357-1360: a fault that is not terminal says nothing  *)
(* of the submission, so the run leaves its body RESERVED.                  *)
TransientStaysReserved ==
  [][\A b \in Bodies :
       run.pc = "answer" /\ run.body = b /\ run.answer \in Transient /\ mark'[b] = "none"
         => IsTerminal(run.answer)]_keeperVars

(* keeper.rs:223-226: a reservation is never skipped for good. Once the     *)
(* venue would settle its body, some pass asks it and resolves the mark.    *)
Reconciled == \A b \in Settling : mark[b] = "reserved" ~> mark[b] # "reserved"

(* The order book a keeper keeps: its journal and the venue's orders.       *)
Promise == INSTANCE OrderBook WITH book <- mark, orders <- held, doubt <- unsure

(* keeper.rs:95-104, 222-231: over all runs, aborts, late copies and hosts  *)
(* without the venue, the journal and the venue move together as an order   *)
(* book does: reserved before placed, given up without an order or on an    *)
(* answer that left it open, committed once and on an order.                *)
KeepsTheBook == Promise!BookSpec

=============================================================================
