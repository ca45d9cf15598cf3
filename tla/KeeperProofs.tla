----------------------------- MODULE KeeperProofs -----------------------------
(***************************************************************************)
(* Theorems about Keeper, for every set of bodies and commitments, every    *)
(* budget, policy and clock: what the journal says of the bodies the venue  *)
(* was shown, wherever runs die and stores fault.                           *)
(***************************************************************************)
EXTENDS Keeper, TLAPS

(* What the step of a run says of the journal. *)
Journal ==
  /\ \A b \in run.pending : mark[b] = "reserved"
  /\ \A b \in run.kept : mark[b] # "none" /\ b \notin run.pending
  /\ run.pc \in {"post", "taken", "answer"} =>
       /\ run.body \in Bodies
       /\ mark[run.body] = "reserved"
       /\ run.body \notin run.pending \cup run.kept
  /\ run.pc = "post" => eligible[run.body] <= run.tick
  /\ run.pc = "answer" => run.answer \in Answers
  /\ run.pc = "apply" => run.answer \in Faults /\ run.for \in Commitments

JournalInv == KeeperTypeOK /\ Journal

-----------------------------------------------------------------------------
LEMMA SumFits ==
  ASSUME NEW a \in 0 .. MaxEpoch, NEW s \in Hints
  PROVE  SaturatingAdd(a, s) \in 0 .. MaxEpoch
BY KeeperConstants DEF SaturatingAdd

(* What the retrier does keeps the set and the gates typed. *)
LEMMA ApplyType ==
  ASSUME KeeperTypeOK, NEW c \in Commitments, NEW action \in {"retry", "backoff", "drop"},
         Apply(c, action)
  PROVE  rows' \subseteq Commitments /\ gate' \in [Commitments -> 0 .. MaxEpoch]
<1>1. rows \subseteq Commitments /\ gate \in [Commitments -> 0 .. MaxEpoch]
      /\ run.tick \in 0 .. MaxEpoch
  BY DEF KeeperTypeOK
<1>2. CASE action = "retry"
  BY <1>1, <1>2 DEF Apply
<1>3. CASE action = "drop"
  BY <1>1, <1>3 DEF Apply
<1>4. CASE action = "backoff"
  <2>1. UNCHANGED rows
    BY <1>4 DEF Apply
  <2>2. PICK s \in Hints : gate' = [gate EXCEPT ![c] = SaturatingAdd(run.tick, s)]
    BY <1>4 DEF Apply
  <2> QED  BY <1>1, <2>1, <2>2, SumFits
<1> QED  BY <1>2, <1>3, <1>4

(* The run after an answer: back in its sweep, with what it kept. *)
LEMMA ResumeRun ==
  ASSUME KeeperTypeOK, NEW kept \in SUBSET Bodies, Resume(kept)
  PROVE  /\ run' \in [pc : {"reconcile", "loop"}, tick : 0 .. MaxEpoch,
                      pending : SUBSET Bodies, listed : SUBSET Commitments,
                      spent : 0 .. Budget, body : {None}, for : {None},
                      answer : {"none"}, kept : SUBSET Bodies]
         /\ run'.pending = run.pending /\ run'.kept = kept
BY DEF KeeperTypeOK, Resume

LEMMA JournalInit == KeeperInit => JournalInv
BY KeeperConstants DEF KeeperInit, JournalInv, KeeperTypeOK, Journal, Idle

(* The inductive step, one step per action or per group that writes alike. *)
LEMMA JournalStep ==
  ASSUME JournalInv, [KeeperNext]_keeperVars
  PROVE  JournalInv'
<1> USE DEF JournalInv
<1>types. /\ mark \in [Bodies -> {"none", "reserved", "committed"}]
          /\ eligible \in [Bodies -> 0 .. MaxEpoch]
          /\ rows \subseteq Commitments
          /\ gate \in [Commitments -> 0 .. MaxEpoch]
          /\ epoch \in 0 .. MaxEpoch
          /\ run \in [pc : {"idle", "reconcile", "loop", "post", "taken", "answer", "apply"},
                      tick : 0 .. MaxEpoch, pending : SUBSET Bodies,
                      listed : SUBSET Commitments, spent : 0 .. Budget,
                      body : Bodies \cup {None}, for : Commitments \cup {None},
                      answer : {"none"} \cup Answers,
                      kept : SUBSET Bodies]
          /\ held \subseteq Bodies /\ inflight \subseteq Bodies /\ unsure \subseteq Bodies
  BY DEF KeeperTypeOK
<1>consts. /\ Budget \in Nat /\ MaxEpoch \in Nat /\ Bodies \subseteq Nat
           /\ Policy \in [Faults -> {"retry", "backoff", "drop"}]
           /\ None \notin Bodies /\ None \notin Commitments
  BY KeeperConstants
<1>zero. 0 \in 0 .. MaxEpoch /\ 0 \in 0 .. Budget
  BY <1>consts
<1>quiet. ASSUME UNCHANGED <<mark, eligible, rows, gate, epoch, venue>>,
                 run' \in [pc : {"idle", "reconcile", "loop", "post", "taken", "answer", "apply"},
                           tick : 0 .. MaxEpoch, pending : SUBSET Bodies,
                           listed : SUBSET Commitments, spent : 0 .. Budget,
                           body : Bodies \cup {None}, for : Commitments \cup {None},
                           answer : {"none"} \cup Answers,
                           kept : SUBSET Bodies]
          PROVE  KeeperTypeOK'
  BY <1>quiet, <1>types DEF KeeperTypeOK, venue
<1>a. ASSUME StartRun
      PROVE  JournalInv'
  <2>1. run' = [Idle EXCEPT !.pc = "reconcile", !.tick = epoch,
                            !.pending = {b \in Bodies : mark[b] = "reserved"}]
    BY <1>a DEF StartRun
  <2>2. KeeperTypeOK'
    BY <1>a, <2>1, <1>types, <1>zero, <1>quiet DEF StartRun, Idle, store
  <2>3. Journal'
    BY <1>a, <2>1, <1>types DEF StartRun, Idle, store, Journal
  <2> QED  BY <2>2, <2>3
<1>b. ASSUME NEW b \in Bodies, ReconcileGated(b)
      PROVE  JournalInv'
  <2>1. KeeperTypeOK'
    BY <1>b, <1>types, <1>quiet DEF ReconcileGated, store
  <2>2. Journal'
    BY <1>b, <1>types DEF ReconcileGated, IsNext, store, Journal
  <2> QED  BY <2>1, <2>2
<1>c. ASSUME NEW b \in Bodies, ReconcilePost(b)
      PROVE  JournalInv'
  <2>1. KeeperTypeOK'
    <3>1. run.spent + 1 \in 0 .. Budget
      BY <1>c, <1>types, <1>consts DEF ReconcilePost
    <3> QED  BY <1>c, <3>1, <1>types, <1>quiet DEF ReconcilePost, store
  <2>2. eligible[b] <= run.tick
    BY <1>c, <1>types, <1>consts DEF ReconcilePost, Gated
  <2>3. Journal'
    BY <1>c, <2>2, <1>types DEF ReconcilePost, IsNext, store, Journal
  <2> QED  BY <2>1, <2>3
<1>d. ASSUME ReconcileEnds
      PROVE  JournalInv'
  <2>1. KeeperTypeOK'
    BY <1>d, <1>types, <1>quiet DEF ReconcileEnds, store
  <2>2. Journal'
    BY <1>d, <1>types DEF ReconcileEnds, store, Journal
  <2> QED  BY <2>1, <2>2
(* The answer is in: the body's mark moves, and the run keeps it in mind or *)
(* not.                                                                     *)
<1>marked. ASSUME NEW m \in {"reserved", "committed"}, NEW e \in 0 .. MaxEpoch,
                  run.pc = "answer",
                  mark' = [mark EXCEPT ![run.body] = m],
                  eligible' = [eligible EXCEPT ![run.body] = e],
                  ResumeKept, UNCHANGED <<rows, gate, epoch, venue>>
           PROVE  JournalInv'
  <2>1. run.body \in Bodies /\ run.body \notin run.pending
    BY <1>marked DEF Journal
  <2>2. /\ run' \in [pc : {"reconcile", "loop"}, tick : 0 .. MaxEpoch,
                     pending : SUBSET Bodies, listed : SUBSET Commitments,
                     spent : 0 .. Budget, body : {None}, for : {None},
                     answer : {"none"}, kept : SUBSET Bodies]
        /\ run'.pending = run.pending /\ run'.kept = run.kept \cup {run.body}
    <3>1. run.kept \cup {run.body} \in SUBSET Bodies
      BY <2>1, <1>types
    <3> QED  BY <1>marked, <3>1, ResumeRun DEF ResumeKept
  <2>3. KeeperTypeOK'
    BY <1>marked, <1>types, <2>2 DEF KeeperTypeOK, venue
  <2>4. Journal'
    BY <1>marked, <1>types, <2>1, <2>2 DEF Journal
  <2> QED  BY <2>3, <2>4
<1>released. ASSUME run.pc = "answer", Release(run.body), ResumeReleased,
                    UNCHANGED <<rows, gate, epoch, venue>>
             PROVE  JournalInv'
  <2>1. run.body \in Bodies /\ run.body \notin run.pending
    BY <1>released DEF Journal
  <2>2. /\ run' \in [pc : {"reconcile", "loop"}, tick : 0 .. MaxEpoch,
                     pending : SUBSET Bodies, listed : SUBSET Commitments,
                     spent : 0 .. Budget, body : {None}, for : {None},
                     answer : {"none"}, kept : SUBSET Bodies]
        /\ run'.pending = run.pending /\ run'.kept = run.kept \ {run.body}
    <3>1. run.kept \ {run.body} \in SUBSET Bodies
      BY <1>types
    <3> QED  BY <1>released, <3>1, ResumeRun DEF ResumeReleased
  <2>3. KeeperTypeOK'
    BY <1>released, <1>types, <1>zero, <2>2 DEF KeeperTypeOK, venue, Release, SetMark
  <2>4. Journal'
    BY <1>released, <1>types, <2>1, <2>2 DEF Journal, Release, SetMark
  <2> QED  BY <2>3, <2>4
<1>e. ASSUME ReconcileAccepted \/ SubmitAccepted
      PROVE  JournalInv'
  <2>1. run.pc = "answer" /\ ResumeKept /\ UNCHANGED <<rows, gate, epoch, venue>>
    BY <1>e DEF ReconcileAccepted, SubmitAccepted, Answered
  <2>2. CASE Commit(run.body)
    BY <2>1, <2>2, <1>marked, <1>zero DEF Commit, SetMark
  <2>3. CASE UNCHANGED <<mark, eligible>>
    <3>1. run.body \in Bodies /\ mark[run.body] = "reserved"
      BY <2>1 DEF Journal
    <3>2. /\ mark' = [mark EXCEPT ![run.body] = "reserved"]
          /\ eligible' = [eligible EXCEPT ![run.body] = eligible[run.body]]
          /\ eligible[run.body] \in 0 .. MaxEpoch
      BY <2>3, <3>1, <1>types
    <3> QED  BY <2>1, <3>2, <1>marked
  <2> QED  BY <1>e, <2>2, <2>3 DEF ReconcileAccepted, SubmitAccepted
<1>f. ASSUME ReconcileReleases \/ SubmitSigning
      PROVE  JournalInv'
  BY <1>f, <1>released DEF ReconcileReleases, SubmitSigning, Answered
<1>g. ASSUME ReconcileKeeps
      PROVE  JournalInv'
  <2>1. /\ run.pc = "answer" /\ ResumeKept /\ UNCHANGED <<rows, gate, epoch, venue>>
        /\ UNCHANGED mark
        /\ \E e \in 0 .. MaxEpoch : eligible' = [eligible EXCEPT ![run.body] = e]
    <3>1. CASE ReconcilePending
      <4>1. run.pc = "answer" /\ UNCHANGED <<mark, eligible>> /\ ResumeKept
            /\ UNCHANGED <<rows, gate, epoch, venue>>
        BY <3>1 DEF ReconcilePending, Answered, store
      <4>2. run.body \in Bodies
        BY <4>1 DEF Journal
      <4>3. /\ eligible' = [eligible EXCEPT ![run.body] = eligible[run.body]]
            /\ eligible[run.body] \in 0 .. MaxEpoch
        BY <4>1, <4>2, <1>types
      <4> QED  BY <4>1, <4>3
    <3>2. ASSUME NEW s \in Hints, ReconcileParks(s)
          PROVE  /\ run.pc = "answer" /\ ResumeKept /\ UNCHANGED <<rows, gate, epoch, venue>>
                 /\ UNCHANGED mark
                 /\ \E e \in 0 .. MaxEpoch : eligible' = [eligible EXCEPT ![run.body] = e]
      <4>1. SaturatingAdd(run.tick, s) \in 0 .. MaxEpoch
        BY <1>types, SumFits
      <4> QED  BY <3>2, <4>1 DEF ReconcileParks, Answered, Park
    <3> QED  BY <1>g, <3>1, <3>2 DEF ReconcileKeeps
  <2>2. run.body \in Bodies /\ mark[run.body] = "reserved"
    BY <2>1 DEF Journal
  <2>3. mark' = [mark EXCEPT ![run.body] = "reserved"]
    BY <2>1, <2>2, <1>types
  <2> QED  BY <2>1, <2>3, <1>marked
<1>h. ASSUME NEW c \in Commitments, Skip(c) \/ \E b \in Bodies : PollSubmitsMarked(c, b)
      PROVE  JournalInv'
  <2>1. run' = [run EXCEPT !.listed = @ \ {c}] /\ UNCHANGED <<store, epoch, venue>>
    BY <1>h DEF Skip, PollSubmitsMarked
  <2>2. KeeperTypeOK'
    BY <2>1, <1>types, <1>quiet DEF store
  <2>3. Journal'
    BY <2>1, <1>types DEF store, Journal
  <2> QED  BY <2>2, <2>3
<1>i. ASSUME NEW c \in Commitments, NEW action \in {"retry", "backoff", "drop"},
             PollDefers(c, action)
      PROVE  JournalInv'
  <2>1. run' = [run EXCEPT !.listed = @ \ {c}] /\ UNCHANGED <<mark, eligible, epoch, venue>>
    BY <1>i DEF PollDefers
  <2>2. rows' \subseteq Commitments /\ gate' \in [Commitments -> 0 .. MaxEpoch]
    BY <1>i, ApplyType DEF PollDefers
  <2>3. KeeperTypeOK'
    BY <2>1, <2>2, <1>types DEF KeeperTypeOK, venue
  <2>4. Journal'
    BY <2>1, <1>types DEF Journal
  <2> QED  BY <2>3, <2>4
<1>j. ASSUME NEW c \in Commitments, NEW x \in Commitments, PollRetires(c, x)
      PROVE  JournalInv'
  <2>1. KeeperTypeOK'
    BY <1>j, <1>types DEF PollRetires, KeeperTypeOK, venue
  <2>2. Journal'
    BY <1>j, <1>types DEF PollRetires, Journal
  <2> QED  BY <2>1, <2>2
<1>k. ASSUME NEW c \in Commitments, NEW b \in Bodies, PollSubmits(c, b)
      PROVE  JournalInv'
  <2>1. /\ run' = [run EXCEPT !.pc = "post", !.body = b, !.for = c, !.listed = @ \ {c}]
        /\ mark[b] = "none"
        /\ mark' = [mark EXCEPT ![b] = "reserved"] /\ eligible' = [eligible EXCEPT ![b] = 0]
        /\ UNCHANGED <<rows, gate, epoch, venue>>
    BY <1>k DEF PollSubmits, IsMarked, Reserve, SetMark
  <2>2. KeeperTypeOK'
    BY <2>1, <1>types, <1>zero DEF KeeperTypeOK, venue
  <2>3. Journal'
    <3>1. b \notin run.pending /\ b \notin run.kept
      BY <2>1 DEF Journal
    <3>2. eligible'[b] <= run'.tick
      BY <2>1, <1>types, <1>consts
    <3> QED  BY <2>1, <3>1, <3>2, <1>types DEF Journal
  <2> QED  BY <2>2, <2>3
<1>l. ASSUME SubmitRefused
      PROVE  JournalInv'
  <2>1. /\ run.pc = "answer" /\ run.answer \in Faults /\ run.for # None
        /\ run' = [run EXCEPT !.pc = "apply", !.kept = @ \ {run.body}]
        /\ mark' = [mark EXCEPT ![run.body] = "none"]
        /\ eligible' = [eligible EXCEPT ![run.body] = 0]
        /\ UNCHANGED <<rows, gate, epoch, venue>>
    BY <1>l DEF SubmitRefused, Answered, Release, SetMark
  <2>2. run.body \in Bodies /\ run.body \notin run.pending
    BY <2>1 DEF Journal
  <2>3. KeeperTypeOK'
    BY <2>1, <1>types, <1>zero DEF KeeperTypeOK, venue
  <2>4. Journal'
    BY <2>1, <2>2, <1>types DEF Journal
  <2> QED  BY <2>3, <2>4
<1>m. ASSUME ApplyAction
      PROVE  JournalInv'
  <2>1. run.for \in Commitments /\ Policy[run.answer] \in {"retry", "backoff", "drop"}
    BY <1>m, <1>consts DEF ApplyAction, Journal
  <2>2. rows' \subseteq Commitments /\ gate' \in [Commitments -> 0 .. MaxEpoch]
    BY <1>m, <2>1, ApplyType DEF ApplyAction
  <2>3. /\ run' \in [pc : {"reconcile", "loop"}, tick : 0 .. MaxEpoch,
                     pending : SUBSET Bodies, listed : SUBSET Commitments,
                     spent : 0 .. Budget, body : {None}, for : {None},
                     answer : {"none"}, kept : SUBSET Bodies]
        /\ run'.pending = run.pending /\ run'.kept = run.kept
    BY <1>m, <1>types, ResumeRun DEF ApplyAction
  <2>4. KeeperTypeOK'
    BY <1>m, <1>types, <2>2, <2>3 DEF ApplyAction, KeeperTypeOK, venue
  <2>5. Journal'
    BY <1>m, <1>types, <2>3 DEF ApplyAction, Journal
  <2> QED  BY <2>4, <2>5
<1>n. ASSUME ReturnReport \/ Abort
      PROVE  JournalInv'
  <2>1. /\ run' = Idle /\ UNCHANGED <<store, epoch, held, unsure>>
        /\ inflight' \subseteq Bodies
    BY <1>n, <1>types DEF ReturnReport, Abort, venue, Journal
  <2>2. KeeperTypeOK'
    BY <2>1, <1>types, <1>zero DEF KeeperTypeOK, Idle, store
  <2>3. Journal'
    BY <2>1, <1>types DEF Journal, Idle, store
  <2> QED  BY <2>2, <2>3
<1>o. ASSUME VenueTakes
      PROVE  JournalInv'
  <2>1. /\ run.pc = "post" /\ run' = [run EXCEPT !.pc = "taken"]
        /\ held' = held \cup {run.body} /\ UNCHANGED <<store, epoch, inflight, unsure>>
    BY <1>o DEF VenueTakes
  <2>2. run.body \in Bodies
    BY <2>1 DEF Journal
  <2>3. KeeperTypeOK'
    BY <2>1, <2>2, <1>types DEF KeeperTypeOK, store
  <2>4. Journal'
    BY <2>1, <1>types DEF Journal, store
  <2> QED  BY <2>3, <2>4
<1>r. ASSUME NEW b \in Bodies, VenueTakesLate(b) \/ LateCopyLost(b)
      PROVE  JournalInv'
  <2>1. /\ UNCHANGED <<store, epoch, run, unsure>>
        /\ held' \subseteq Bodies /\ inflight' \subseteq Bodies
    BY <1>r, <1>types DEF VenueTakesLate, LateCopyLost
  <2>2. KeeperTypeOK'
    BY <2>1, <1>types DEF KeeperTypeOK, store
  <2>3. Journal'
    BY <2>1 DEF Journal, store
  <2> QED  BY <2>2, <2>3
<1>p. ASSUME NEW a \in Answers, Answer(a)
      PROVE  JournalInv'
  <2>1. /\ run.pc \in {"post", "taken"} /\ run' = [run EXCEPT !.pc = "answer", !.answer = a]
        /\ UNCHANGED <<store, epoch, held, inflight>>
    BY <1>p DEF Answer, MayAnswer
  <2>2. unsure' \subseteq Bodies
    <3>1. run.body \in Bodies
      BY <2>1 DEF Journal
    <3> QED  BY <1>p, <3>1, <1>types DEF Answer
  <2>3. KeeperTypeOK'
    BY <2>1, <2>2, <1>types DEF KeeperTypeOK, store
  <2>4. Journal'
    BY <2>1, <1>types DEF store, Journal
  <2> QED  BY <2>3, <2>4
<1>q. ASSUME Advance \/ UNCHANGED keeperVars
      PROVE  JournalInv'
  <2>1. UNCHANGED <<store, run, venue>> /\ epoch' \in 0 .. MaxEpoch
    BY <1>q, <1>types, <1>consts DEF Advance, keeperVars
  <2>2. KeeperTypeOK'
    BY <2>1, <1>types DEF KeeperTypeOK, store, venue
  <2>3. Journal'
    BY <2>1 DEF Journal, store
  <2> QED  BY <2>2, <2>3
<1> QED
  BY <1>a, <1>b, <1>c, <1>d, <1>e, <1>f, <1>g, <1>h, <1>i, <1>j, <1>k, <1>l, <1>m, <1>n,
     <1>o, <1>p, <1>q, <1>r
  DEF KeeperNext, ReconcileStep, LoopStep, VenueStep

(* keeper.rs:102-104, 225-232: whatever a tick, a fault or an abort does,   *)
(* the journal has one mark for each body and a run stays inside its budget.*)
THEOREM KeeperTypesHold == KeeperSpec => []KeeperTypeOK
<1>1. JournalInv => KeeperTypeOK
  BY DEF JournalInv
<1> QED  BY <1>1, JournalInit, JournalStep, PTL DEF KeeperSpec

(* keeper.rs:165-170: whenever the venue may see a body its reservation is  *)
(* in the store, for any journal, budget, policy and venue.                 *)
THEOREM PostsAreReserved == KeeperSpec => [](KeeperTypeOK /\ PostIsReserved)
<1>1. JournalInv => KeeperTypeOK /\ PostIsReserved
  BY DEF JournalInv, Journal, PostIsReserved
<1> QED  BY <1>1, JournalInit, JournalStep, PTL DEF KeeperSpec

(* keeper.rs:103-104, 158-163: no run POSTs a body twice unless it was      *)
(* released in between.                                                     *)
THEOREM PostsAreFirst == KeeperSpec => []NoSecondPost
<1>1. JournalInv => NoSecondPost
  BY DEF JournalInv, Journal, NoSecondPost
<1> QED  BY <1>1, JournalInit, JournalStep, PTL DEF KeeperSpec

(* keeper.rs:228, 255-258: no POST, of the pass or of the loop, is made of  *)
(* a body whose window has not passed.                                      *)
THEOREM ParksAreRespected == KeeperSpec => []ParkRespected
<1>1. JournalInv => ParkRespected
  BY DEF JournalInv, Journal, ParkRespected
<1> QED  BY <1>1, JournalInit, JournalStep, PTL DEF KeeperSpec

-----------------------------------------------------------------------------
(* The three ways a mark moves: a body is reserved, an accepted one is      *)
(* committed, one that was not accepted is released.                        *)
LEMMA MarkMoves ==
  ASSUME JournalInv, [KeeperNext]_keeperVars
  PROVE  \/ UNCHANGED mark
         \/ \E b \in Bodies : mark[b] = "none" /\ mark' = [mark EXCEPT ![b] = "reserved"]
         \/ /\ run.pc = "answer" /\ run.answer = "accepted"
            /\ mark' = [mark EXCEPT ![run.body] = "committed"]
         \/ /\ run.pc = "answer" /\ mark' = [mark EXCEPT ![run.body] = "none"]
            /\ \/ run.answer = "signing"
               \/ run.answer \in Faults /\ (run.for # None \/ IsTerminal(run.answer))
<1>1. ASSUME NEW c \in Commitments, NEW b \in Bodies, PollSubmits(c, b)
      PROVE  mark[b] = "none" /\ mark' = [mark EXCEPT ![b] = "reserved"]
  BY <1>1 DEF PollSubmits, IsMarked, Reserve, SetMark
<1>2. ASSUME ReconcileAccepted \/ SubmitAccepted
      PROVE  \/ UNCHANGED mark
             \/ /\ run.pc = "answer" /\ run.answer = "accepted"
                /\ mark' = [mark EXCEPT ![run.body] = "committed"]
  BY <1>2 DEF ReconcileAccepted, SubmitAccepted, Answered, Commit, SetMark
<1>3. ASSUME ReconcileReleases \/ SubmitSigning \/ SubmitRefused
      PROVE  /\ run.pc = "answer" /\ mark' = [mark EXCEPT ![run.body] = "none"]
             /\ \/ run.answer = "signing"
                \/ run.answer \in Faults /\ (run.for # None \/ IsTerminal(run.answer))
  BY <1>3 DEF ReconcileReleases, SubmitSigning, SubmitRefused, Answered, Release, SetMark
<1>4. ASSUME \/ StartRun \/ ReconcileEnds \/ ReconcileKeeps \/ ApplyAction \/ ReturnReport
             \/ Abort \/ VenueStep \/ Advance \/ UNCHANGED keeperVars
             \/ \E b \in Bodies : ReconcileGated(b) \/ ReconcilePost(b)
             \/ \E c \in Commitments :
                  \/ Skip(c)
                  \/ \E action \in {"retry", "backoff", "drop"} : PollDefers(c, action)
                  \/ \E x \in Commitments : PollRetires(c, x)
                  \/ \E b \in Bodies : PollSubmitsMarked(c, b)
      PROVE  UNCHANGED mark
  BY <1>4
  DEF StartRun, ReconcileEnds, ReconcileKeeps, ReconcilePending, ReconcileParks, Park,
      ApplyAction, ReturnReport, Abort, VenueStep, VenueTakes, VenueTakesLate,
      LateCopyLost, Answer, Advance, ReconcileGated, ReconcilePost, Skip, PollDefers,
      PollRetires, PollSubmitsMarked, keeperVars, store
<1> QED
  BY <1>1, <1>2, <1>3, <1>4 DEF KeeperNext, ReconcileStep, LoopStep

(* keeper.rs:154-157: no tick, answer or fault undoes COMMITTED. *)
THEOREM CommitsAreFinal == KeeperSpec => CommittedIsFinal
<1>1. ASSUME JournalInv, [KeeperNext]_keeperVars, NEW b \in Bodies, mark[b] = "committed"
      PROVE  mark'[b] = "committed"
  <2>1. mark \in [Bodies -> {"none", "reserved", "committed"}]
    BY <1>1 DEF JournalInv, KeeperTypeOK
  <2>2. run.pc = "answer" => run.body \in Bodies /\ mark[run.body] = "reserved"
    BY <1>1 DEF JournalInv, Journal
  <2> QED  BY <1>1, <2>1, <2>2, MarkMoves
<1>2. JournalInv /\ [KeeperNext]_keeperVars =>
        [\A b \in Bodies : mark[b] = "committed" => mark'[b] = "committed"]_keeperVars
  BY <1>1
<1> QED  BY <1>2, JournalInit, JournalStep, PTL DEF KeeperSpec, CommittedIsFinal

-----------------------------------------------------------------------------
(* A run begins and ends at no body and for no commitment. *)
LEMMA RunEdges ==
  ASSUME StartRun \/ ReturnReport \/ Abort
  PROVE  run'.pc \in {"idle", "reconcile"} /\ run'.for = None
<1>1. CASE StartRun
  <2> DEFINE reservations == {b \in Bodies : mark[b] = "reserved"}
  <2>1. run' = [Idle EXCEPT !.pc = "reconcile", !.tick = epoch, !.pending = reservations]
    BY <1>1 DEF StartRun
  <2> HIDE DEF reservations
  <2> QED  BY <2>1 DEF Idle
<1>2. CASE ReturnReport \/ Abort
  <2>1. run' = Idle
    BY <1>2 DEF ReturnReport, Abort
  <2> QED  BY <2>1 DEF Idle
<1> QED  BY <1>1, <1>2

(* An answer is news only of the step that gave it, and the venue forgets   *)
(* nothing.                                                                 *)
LEMMA AnswersCome ==
  ASSUME JournalInv, [KeeperNext]_keeperVars
  PROVE  /\ held \subseteq held'
         /\ run'.pc \in {"taken", "answer"} =>
              UNCHANGED run \/ VenueTakes \/ \E a \in Answers : Answer(a)
<1>1. run \in [pc : {"idle", "reconcile", "loop", "post", "taken", "answer", "apply"},
               tick : 0 .. MaxEpoch, pending : SUBSET Bodies,
               listed : SUBSET Commitments, spent : 0 .. Budget,
               body : Bodies \cup {None}, for : Commitments \cup {None},
               answer : {"none"} \cup Answers, kept : SUBSET Bodies]
  BY DEF JournalInv, KeeperTypeOK
<1>2. ASSUME StartRun \/ ReturnReport \/ Abort
      PROVE  held \subseteq held' /\ run'.pc \notin {"taken", "answer"}
  <2>1. held \subseteq held'
    BY <1>2 DEF StartRun, ReturnReport, Abort, venue
  <2>2. run'.pc \notin {"taken", "answer"}
    BY <1>2, RunEdges
  <2> QED  BY <2>1, <2>2
<1>3. ASSUME NEW kept, Resume(kept)
      PROVE  run'.pc \notin {"taken", "answer"}
  BY <1>1, <1>3 DEF Resume
<1>4. ASSUME \/ ReconcileAccepted \/ ReconcileReleases \/ ReconcileKeeps \/ SubmitAccepted
             \/ SubmitSigning \/ ApplyAction
      PROVE  held \subseteq held' /\ run'.pc \notin {"taken", "answer"}
  BY <1>3, <1>4
  DEF ReconcileAccepted, ReconcileReleases, ReconcileKeeps, ReconcilePending,
      ReconcileParks, SubmitAccepted, SubmitSigning, ApplyAction, ResumeKept,
      ResumeReleased, venue
<1>5. ASSUME \/ ReconcileEnds \/ SubmitRefused
             \/ \E b \in Bodies : ReconcileGated(b) \/ ReconcilePost(b)
      PROVE  held \subseteq held' /\ run'.pc \notin {"taken", "answer"}
  BY <1>1, <1>5 DEF ReconcileEnds, SubmitRefused, ReconcileGated, ReconcilePost, IsNext, venue
<1>6. ASSUME NEW c \in Commitments,
             \/ Skip(c)
             \/ \E action \in {"retry", "backoff", "drop"} : PollDefers(c, action)
             \/ \E x \in Commitments : PollRetires(c, x)
             \/ \E b \in Bodies : PollSubmitsMarked(c, b) \/ PollSubmits(c, b)
      PROVE  held \subseteq held' /\ run'.pc \notin {"taken", "answer"}
  <2>1. UNCHANGED held
    BY <1>6 DEF Skip, PollDefers, PollRetires, PollSubmitsMarked, PollSubmits, venue
  <2>2. CASE \E b \in Bodies : PollSubmits(c, b)
    BY <1>1, <2>1, <2>2 DEF PollSubmits
  <2>3. CASE run' = [run EXCEPT !.listed = @ \ {c}] /\ run.pc = "loop"
    BY <1>1, <2>1, <2>3
  <2> QED  BY <1>6, <2>2, <2>3
           DEF Skip, PollDefers, PollRetires, PollSubmitsMarked, Polls, IsListed
<1>7. ASSUME VenueStep \/ Advance \/ UNCHANGED keeperVars
      PROVE  /\ held \subseteq held'
             /\ UNCHANGED run \/ VenueTakes \/ \E a \in Answers : Answer(a)
  BY <1>7 DEF VenueStep, VenueTakes, VenueTakesLate, LateCopyLost, Answer, Advance,
              keeperVars, venue
<1> QED
  BY <1>2, <1>4, <1>5, <1>6, <1>7 DEF KeeperNext, ReconcileStep, LoopStep

(* The venue's word is true: what it answered accepted it holds. *)
Truth ==
  /\ CommittedIsHeld
  /\ run.pc = "taken" \/ (run.pc = "answer" /\ run.answer = "accepted") => run.body \in held

LEMMA TruthStep ==
  ASSUME JournalInv, Truth, [KeeperNext]_keeperVars
  PROVE  Truth'
<1>1. mark \in [Bodies -> {"none", "reserved", "committed"}]
  BY DEF JournalInv, KeeperTypeOK
<1>2. CommittedIsHeld'
  <2> SUFFICES ASSUME NEW b \in Bodies, mark'[b] = "committed" PROVE b \in held'
    BY DEF CommittedIsHeld
  <2>1. \/ mark[b] = "committed"
        \/ run.pc = "answer" /\ run.answer = "accepted" /\ run.body = b
    BY <1>1, MarkMoves DEF JournalInv, Journal
  <2> QED  BY <2>1, AnswersCome DEF Truth, CommittedIsHeld
<1>3. ASSUME run'.pc = "taken" \/ (run'.pc = "answer" /\ run'.answer = "accepted")
      PROVE  run'.body \in held'
  <2>1. CASE UNCHANGED run
    BY <1>3, <2>1, AnswersCome DEF Truth
  <2>2. CASE VenueTakes
    BY <2>2 DEF JournalInv, KeeperTypeOK, VenueTakes
  <2>3. ASSUME NEW a \in Answers, Answer(a)
        PROVE  run'.body \in held'
    <3>1. /\ run'.answer = a /\ run'.body = run.body /\ run'.pc = "answer"
          /\ UNCHANGED held
      BY <2>3 DEF JournalInv, KeeperTypeOK, Answer
    <3>2. run.pc = "taken"
      BY <1>3, <2>3, <3>1 DEF Answer, MayAnswer
    <3> QED  BY <3>1, <3>2 DEF Truth
  <2> QED  BY <1>3, <2>1, <2>2, <2>3, AnswersCome
<1> QED  BY <1>2, <1>3 DEF Truth

(* keeper.rs:171-174, 264-265: COMMITTED is written of what the venue holds *)
(* and nothing else.                                                        *)
THEOREM CommitsAreHeld == KeeperSpec => []CommittedIsHeld
<1>1. KeeperInit => Truth
  BY DEF KeeperInit, Truth, CommittedIsHeld, Idle
<1>2. Truth => CommittedIsHeld
  BY DEF Truth
<1> QED  BY <1>1, <1>2, TruthStep, JournalInit, JournalStep, PTL DEF KeeperSpec

-----------------------------------------------------------------------------
(* A policy that gives up on no fault which says nothing of the submission,  *)
(* as retry_action does.                                                     *)
Cautious == \A f \in Transient : Policy[f] # "drop"

LEMMA DefaultPolicyIsCautious == Policy = retry_action => Cautious
BY DEF Cautious, retry_action, Faults, Transient

(* An answer on which the run releases a body is given of a body the venue  *)
(* has not, or leaves it unsure; and a body first POSTed by this run was    *)
(* nowhere before, unless an earlier answer left it unsure.                 *)
Accounted ==
  /\ HeldIsMarked
  /\ run.pc = "reconcile" => run.for = None
  /\ run.pc = "post" /\ run.for # None /\ run.body \in held \cup inflight =>
       run.body \in unsure
  /\ run.pc = "answer" /\ run.body \in held \cup inflight =>
       \/ run.answer = "accepted"
       \/ run.answer \in Transient /\ run.for = None
       \/ run.body \in unsure

(* A mark that goes is the mark of a body the venue has not, or the answer   *)
(* left that open.                                                           *)
LEMMA ReleasedIsNotHeld ==
  ASSUME JournalInv, Accounted, Cautious, [KeeperNext]_keeperVars,
         NEW b \in held \cup inflight, mark[b] # "none", mark'[b] = "none"
  PROVE  b \in unsure
<1>1. mark \in [Bodies -> {"none", "reserved", "committed"}]
  BY DEF JournalInv, KeeperTypeOK
<1>2. b \in Bodies
  BY DEF JournalInv, KeeperTypeOK
<1>3. /\ run.pc = "answer" /\ run.body = b
      /\ \/ run.answer = "signing"
         \/ run.answer \in Faults /\ (run.for # None \/ IsTerminal(run.answer))
  BY <1>1, <1>2, MarkMoves DEF JournalInv, Journal
<1>4. run.answer # "accepted" /\ ~(run.answer \in Transient /\ run.for = None)
  BY <1>3 DEF Cautious, IsTerminal, Faults, Transient
<1> QED  BY <1>3, <1>4 DEF Accounted

(* Only an answer leaves one unsure or sure, and only of the body it is for. *)
LEMMA DoubtsCome ==
  ASSUME JournalInv, [KeeperNext]_keeperVars
  PROVE  \/ UNCHANGED unsure
         \/ /\ run.pc \in {"post", "taken"} /\ UNCHANGED <<mark, held>>
            /\ unsure' \in {unsure \cup {run.body}, unsure \ {run.body}}
<1>1. ASSUME NEW a \in Answers, Answer(a)
      PROVE  /\ run.pc \in {"post", "taken"} /\ UNCHANGED <<mark, held>>
             /\ UNCHANGED unsure \/ unsure' \in {unsure \cup {run.body}, unsure \ {run.body}}
  BY <1>1 DEF Answer, MayAnswer, store
<1>2. CASE StartRun \/ Abort \/ Advance \/ UNCHANGED keeperVars
  BY <1>2 DEF StartRun, Abort, Advance, keeperVars, venue
<1>3. CASE ReconcileStep
  BY <1>3 DEF ReconcileStep, ReconcileGated, ReconcilePost, ReconcileEnds, ReconcileAccepted,
              ReconcileReleases, ReconcileKeeps, ReconcilePending, ReconcileParks, venue
<1>4. CASE LoopStep
  BY <1>4 DEF LoopStep, Skip, PollDefers, PollRetires, PollSubmitsMarked, PollSubmits,
              SubmitAccepted, SubmitSigning, SubmitRefused, ApplyAction, ReturnReport, venue
<1>5. CASE VenueTakes \/ \E b \in Bodies : VenueTakesLate(b) \/ LateCopyLost(b)
  BY <1>5 DEF VenueTakes, VenueTakesLate, LateCopyLost
<1> QED  BY <1>1, <1>2, <1>3, <1>4, <1>5 DEF KeeperNext, VenueStep

LEMMA AccountedStep ==
  ASSUME JournalInv, Accounted, Cautious, [KeeperNext]_keeperVars
  PROVE  Accounted'
<1>types. /\ mark \in [Bodies -> {"none", "reserved", "committed"}]
          /\ run \in [pc : {"idle", "reconcile", "loop", "post", "taken", "answer", "apply"},
                      tick : 0 .. MaxEpoch, pending : SUBSET Bodies,
                      listed : SUBSET Commitments, spent : 0 .. Budget,
                      body : Bodies \cup {None}, for : Commitments \cup {None},
                      answer : {"none"} \cup Answers, kept : SUBSET Bodies]
          /\ held \subseteq Bodies /\ inflight \subseteq Bodies /\ unsure \subseteq Bodies
  BY DEF JournalInv, KeeperTypeOK
(* The marks stay, or go from bodies the venue has not or one is unsure of. *)
<1>kept. ASSUME held' \cup inflight' \subseteq held \cup inflight, UNCHANGED unsure
         PROVE  HeldIsMarked'
  <2> SUFFICES ASSUME NEW b \in held' \cup inflight', b \notin unsure PROVE mark'[b] # "none"
    BY <1>kept DEF HeldIsMarked
  <2>1. b \in held \cup inflight /\ mark[b] # "none"
    BY <1>kept DEF Accounted, HeldIsMarked
  <2> QED  BY <2>1, ReleasedIsNotHeld
(* A run between its POSTs expects nothing of the venue. *)
<1>sweeping. ASSUME UNCHANGED venue, run'.pc \notin {"post", "answer"},
                    run'.pc = "reconcile" => run'.for = None
             PROVE  Accounted'
  BY <1>sweeping, <1>kept DEF Accounted, venue
<1>a. ASSUME StartRun \/ ReturnReport
      PROVE  Accounted'
  <2>1. run'.pc \notin {"post", "answer"} /\ run'.for = None
    BY <1>a, RunEdges
  <2> QED  BY <1>a, <2>1, <1>sweeping DEF StartRun, ReturnReport
<1>b. ASSUME ReconcileEnds \/ SubmitRefused \/ \E b \in Bodies : ReconcileGated(b)
      PROVE  Accounted'
  <2>1. /\ run'.pc \notin {"post", "answer"}
        /\ run'.pc = "reconcile" => run'.for = None
    <3>1. CASE ReconcileEnds
      BY <3>1, <1>types DEF ReconcileEnds
    <3>2. CASE SubmitRefused
      BY <3>2, <1>types DEF SubmitRefused
    <3>3. CASE \E b \in Bodies : ReconcileGated(b)
      BY <3>3, <1>types DEF ReconcileGated, IsNext, Accounted
    <3> QED  BY <1>b, <3>1, <3>2, <3>3
  <2> QED  BY <1>b, <2>1, <1>sweeping DEF ReconcileEnds, SubmitRefused, ReconcileGated
<1>c. ASSUME NEW b \in Bodies, ReconcilePost(b)
      PROVE  Accounted'
  <2>1. run'.pc = "post" /\ run'.for = None
    BY <1>c, <1>types DEF ReconcilePost, IsNext, Accounted
  <2>2. UNCHANGED venue
    BY <1>c DEF ReconcilePost
  <2> QED  BY <2>1, <2>2, <1>kept DEF Accounted, venue
<1>d. ASSUME \/ ReconcileAccepted \/ ReconcileReleases \/ ReconcileKeeps \/ SubmitAccepted
             \/ SubmitSigning \/ ApplyAction
      PROVE  Accounted'
  <2>1. UNCHANGED venue /\ \E kept : Resume(kept)
    BY <1>d
    DEF ReconcileAccepted, ReconcileReleases, ReconcileKeeps, ReconcilePending,
        ReconcileParks, SubmitAccepted, SubmitSigning, ApplyAction, ResumeKept,
        ResumeReleased
  <2>2. run'.pc \in {"reconcile", "loop"} /\ run'.for = None
    BY <2>1, <1>types DEF Resume
  <2> QED  BY <2>1, <2>2, <1>sweeping
<1>e. ASSUME NEW c \in Commitments,
             \/ Skip(c)
             \/ \E action \in {"retry", "backoff", "drop"} : PollDefers(c, action)
             \/ \E x \in Commitments : PollRetires(c, x)
             \/ \E b \in Bodies : PollSubmitsMarked(c, b)
      PROVE  Accounted'
  <2>1. UNCHANGED venue /\ run' = [run EXCEPT !.listed = @ \ {c}] /\ run.pc = "loop"
    BY <1>e DEF Skip, PollDefers, PollRetires, PollSubmitsMarked, Polls, IsListed
  <2>2. run'.pc = "loop"
    BY <2>1, <1>types
  <2> QED  BY <2>1, <2>2, <1>sweeping
<1>f. ASSUME NEW c \in Commitments, NEW b \in Bodies, PollSubmits(c, b)
      PROVE  Accounted'
  <2>1. run'.pc = "post" /\ run'.body = b /\ UNCHANGED venue /\ mark[b] = "none"
    BY <1>f, <1>types DEF PollSubmits, IsMarked
  <2>2. b \in held \cup inflight => b \in unsure
    BY <2>1 DEF Accounted, HeldIsMarked
  <2> QED  BY <2>1, <2>2, <1>kept DEF Accounted, venue
<1>g. ASSUME Abort
      PROVE  Accounted'
  <2>1. run'.pc = "idle"
    BY <1>g DEF Abort, Idle
  <2>2. UNCHANGED <<mark, held, unsure>>
    BY <1>g DEF Abort, store
  <2>3. \A b \in inflight' : mark[b] # "none" \/ b \in unsure
    BY <1>g DEF Abort, Accounted, HeldIsMarked, JournalInv, Journal
  <2> QED  BY <2>1, <2>2, <2>3 DEF Accounted, HeldIsMarked
<1>h. ASSUME VenueTakes
      PROVE  Accounted'
  <2>1. /\ run.pc = "post" /\ UNCHANGED <<mark, inflight, unsure>> /\ run'.pc = "taken"
        /\ held' = held \cup {run.body} /\ mark[run.body] = "reserved"
    BY <1>h, <1>types DEF VenueTakes, store, JournalInv, Journal
  <2> QED  BY <2>1 DEF Accounted, HeldIsMarked
<1>i. ASSUME NEW b \in Bodies, VenueTakesLate(b) \/ LateCopyLost(b)
      PROVE  Accounted'
  <2>1. /\ b \in inflight /\ inflight' = inflight \ {b} /\ UNCHANGED <<mark, run, unsure>>
        /\ held' \subseteq held \cup {b}
    BY <1>i DEF VenueTakesLate, LateCopyLost, store
  <2>2. HeldIsMarked'
    BY <2>1, <1>kept
  <2> QED  BY <2>1, <2>2 DEF Accounted
<1>j. ASSUME NEW a \in Answers, Answer(a)
      PROVE  Accounted'
  <2>1. /\ UNCHANGED <<mark, held, inflight>>
        /\ run'.pc = "answer" /\ run'.body = run.body /\ run'.for = run.for
        /\ run'.answer = a /\ mark[run.body] = "reserved"
    BY <1>j, <1>types DEF Answer, MayAnswer, store, JournalInv, Journal
  <2>2. HeldIsMarked'
    BY <2>1, <1>j DEF Answer, Accounted, HeldIsMarked
  <2>3. ASSUME run.body \in held \cup inflight, a # "accepted",
               ~(a \in Transient /\ run.for = None), run.body \notin unsure'
        PROVE  FALSE
    <3>1. ~Tells(run.body, a)
      BY <1>j, <2>3 DEF Answer, MayAnswer, Settles, Tells, Wavers, Transient, Refusals
    <3>2. ~Misleads(run.body, a) /\ run.body \notin unsure
      BY <1>j, <2>3, <3>1 DEF Answer
    <3>3. run.pc = "post"
      BY <1>j, <2>3, <3>2 DEF Answer, MayAnswer, Wavers, Misleads
    <3>4. run.for = None
      BY <2>3, <3>2, <3>3 DEF Accounted
    <3>5. a \in Refusals
      BY <2>3, <3>2, <3>4 DEF Misleads, Answers, Faults, Refusals
    <3> QED  BY <3>1, <3>2, <3>5 DEF Tells, Misleads
  <2> QED  BY <2>1, <2>2, <2>3 DEF Accounted
<1>k. ASSUME Advance \/ UNCHANGED keeperVars
      PROVE  Accounted'
  <2>1. UNCHANGED <<mark, run, held, inflight, unsure>>
    BY <1>k DEF Advance, keeperVars, store, venue
  <2> QED  BY <2>1 DEF Accounted, HeldIsMarked
<1> QED
  BY <1>a, <1>b, <1>c, <1>d, <1>e, <1>f, <1>g, <1>h, <1>i, <1>j, <1>k
  DEF KeeperNext, ReconcileStep, LoopStep, VenueStep

(* keeper.rs:99-103, 1274-1278: whatever the venue holds or may still come  *)
(* to hold is in the journal, wherever runs die and stores fault, unless    *)
(* its reservation was given up on an answer that left it open.             *)
THEOREM NoOrderIsLost == Cautious => (KeeperSpec => []HeldIsMarked)
<1>1. KeeperInit => Accounted
  BY DEF KeeperInit, Accounted, HeldIsMarked, Idle
<1>2. Accounted => HeldIsMarked
  BY DEF Accounted
<1> SUFFICES ASSUME Cautious PROVE KeeperSpec => []HeldIsMarked
  OBVIOUS
<1>3. JournalInv /\ Accounted /\ [KeeperNext]_keeperVars => Accounted'
  BY AccountedStep
<1> QED  BY <1>1, <1>2, <1>3, JournalInit, JournalStep, PTL DEF KeeperSpec

-----------------------------------------------------------------------------
(* The venue gains one order at a time, of a body that was on its way, and   *)
(* the journal is not written in that step.                                  *)
LEMMA OrdersCome ==
  ASSUME JournalInv, [KeeperNext]_keeperVars
  PROVE  \/ UNCHANGED held
         \/ /\ UNCHANGED mark
            /\ \E b \in Bodies : /\ held' = held \cup {b}
                                 /\ b \in inflight \/ (run.pc = "post" /\ b = run.body)
<1>1. ASSUME \/ StartRun \/ ReconcileStep \/ LoopStep \/ Abort \/ Advance
             \/ UNCHANGED keeperVars
             \/ \E b \in Bodies : LateCopyLost(b)
             \/ \E a \in Answers : Answer(a)
      PROVE  UNCHANGED held
  <2>1. CASE StartRun \/ Abort \/ Advance \/ UNCHANGED keeperVars
    BY <2>1 DEF StartRun, Abort, Advance, keeperVars, venue
  <2>2. CASE ReconcileStep
    BY <2>2 DEF ReconcileStep, ReconcileGated, ReconcilePost, ReconcileEnds, ReconcileAccepted,
                ReconcileReleases, ReconcileKeeps, ReconcilePending, ReconcileParks, venue
  <2>3. CASE LoopStep
    BY <2>3 DEF LoopStep, Skip, PollDefers, PollRetires, PollSubmitsMarked, PollSubmits,
                SubmitAccepted, SubmitSigning, SubmitRefused, ApplyAction, ReturnReport, venue
  <2>4. CASE (\E b \in Bodies : LateCopyLost(b)) \/ \E a \in Answers : Answer(a)
    BY <2>4 DEF LateCopyLost, Answer, venue
  <2> QED  BY <1>1, <2>1, <2>2, <2>3, <2>4
<1>2. ASSUME VenueTakes
      PROVE  /\ UNCHANGED mark
             /\ \E b \in Bodies : held' = held \cup {b} /\ run.pc = "post" /\ b = run.body
  BY <1>2 DEF VenueTakes, store, JournalInv, Journal
<1>3. ASSUME NEW b \in Bodies, VenueTakesLate(b)
      PROVE  UNCHANGED mark /\ held' = held \cup {b} /\ b \in inflight
  BY <1>3 DEF VenueTakesLate, store
<1>4. CASE VenueTakes
  BY <1>2, <1>4
<1>5. CASE \E b \in Bodies : VenueTakesLate(b)
  <2>1. PICK b \in Bodies : VenueTakesLate(b)
    BY <1>5
  <2>2. UNCHANGED mark /\ held' = held \cup {b} /\ b \in inflight
    BY <1>3, <2>1
  <2> QED  BY <2>2
<1>6. \/ StartRun \/ ReconcileStep \/ LoopStep \/ Abort \/ Advance
      \/ UNCHANGED keeperVars
      \/ \E b \in Bodies : LateCopyLost(b)
      \/ \E a \in Answers : Answer(a)
      \/ VenueTakes
      \/ \E b \in Bodies : VenueTakesLate(b)
  BY DEF KeeperNext, VenueStep
<1> QED  BY <1>1, <1>4, <1>5, <1>6

(* Every step of a run, of the venue or of the clock is a step of the order  *)
(* book, or none.                                                            *)
LEMMA BookStep ==
  ASSUME JournalInv, Truth, Accounted, Cautious, [KeeperNext]_keeperVars
  PROVE  [Promise!BookNext]_(Promise!bookVars)
<1>types. /\ mark \in [Bodies -> {"none", "reserved", "committed"}]
          /\ held \subseteq Bodies
  BY DEF JournalInv, KeeperTypeOK
<1>at. run.pc \in {"post", "taken", "answer"} =>
         run.body \in Bodies /\ mark[run.body] = "reserved"
  BY DEF JournalInv, Journal
<1>1. ASSUME UNCHANGED <<mark, held>>
      PROVE  [Promise!BookNext]_(Promise!bookVars)
  <2>1. CASE UNCHANGED unsure
    BY <1>1, <2>1 DEF Promise!bookVars
  <2>2. CASE /\ run.pc \in {"post", "taken"}
             /\ unsure' \in {unsure \cup {run.body}, unsure \ {run.body}}
    <3>1. run.body \in Bodies /\ Promise!Hear(run.body)
      BY <1>1, <2>2, <1>at DEF Promise!Hear
    <3> QED  BY <3>1 DEF Promise!BookNext
  <2> QED  BY <2>1, <2>2, DoubtsCome
<1>2. ASSUME UNCHANGED mark
      PROVE  [Promise!BookNext]_(Promise!bookVars)
  <2>1. CASE UNCHANGED held
    BY <1>1, <1>2, <2>1
  <2>2. CASE held' # held
    <3>1. PICK b \in Bodies : /\ held' = held \cup {b}
                              /\ b \in inflight \/ (run.pc = "post" /\ b = run.body)
      BY <2>2, OrdersCome
    <3>2. UNCHANGED unsure
      BY <2>2, DoubtsCome
    <3>3. b \notin held
      BY <2>2, <3>1
    <3>4. mark[b] = "reserved" \/ b \in unsure
      BY <3>1, <3>3, <1>at, <1>types DEF Accounted, HeldIsMarked, Truth, CommittedIsHeld
    <3> QED  BY <1>2, <3>1, <3>2, <3>4 DEF Promise!BookNext, Promise!Place
  <2> QED  BY <2>1, <2>2
<1>3. ASSUME mark' # mark
      PROVE  Promise!BookNext
  <2>1. UNCHANGED <<held, unsure>>
    BY <1>3, OrdersCome, DoubtsCome
  <2>2. ASSUME NEW b \in Bodies, mark[b] = "none", mark' = [mark EXCEPT ![b] = "reserved"]
        PROVE  Promise!BookNext
    <3>1. b \in held => b \in unsure
      BY <2>2 DEF Accounted, HeldIsMarked
    <3> QED  BY <2>1, <2>2, <3>1 DEF Promise!BookNext, Promise!Reserve, Promise!SetBook
  <2>3. ASSUME run.pc = "answer", run.answer = "accepted",
               mark' = [mark EXCEPT ![run.body] = "committed"]
        PROVE  Promise!BookNext
    <3>1. run.body \in held
      BY <2>3 DEF Truth
    <3> QED  BY <2>1, <2>3, <3>1, <1>at
             DEF Promise!BookNext, Promise!Confirm, Promise!SetBook
  <2>4. ASSUME run.pc = "answer", mark' = [mark EXCEPT ![run.body] = "none"]
        PROVE  Promise!BookNext
    <3>1. run.body \in Bodies /\ mark[run.body] = "reserved" /\ mark'[run.body] = "none"
      BY <2>4, <1>at, <1>types
    <3>2. run.body \in held => run.body \in unsure
      BY <3>1, ReleasedIsNotHeld
    <3> QED  BY <2>1, <2>4, <3>1, <3>2 DEF Promise!BookNext, Promise!GiveUp, Promise!SetBook
  <2> QED  BY <1>3, <2>2, <2>3, <2>4, MarkMoves
<1> QED  BY <1>2, <1>3

(* keeper.rs:95-104, 222-231: a keeper that gives up on no transient fault,  *)
(* and the venue behind it, implement the order book, wherever runs die and  *)
(* whatever host, venue and late copies do: reserved before placed, given up *)
(* without an order or on an answer that left it open, committed once and    *)
(* only of an order.                                                         *)
THEOREM KeeperKeepsTheBook == Cautious => (KeeperSpec => KeepsTheBook)
<1>1. KeeperInit => Truth /\ Accounted /\ Promise!BookInit
  BY DEF KeeperInit, Truth, CommittedIsHeld, Accounted, HeldIsMarked, Idle, Promise!BookInit
<1> SUFFICES ASSUME Cautious PROVE KeeperSpec => KeepsTheBook
  OBVIOUS
<1>2. JournalInv /\ Truth /\ Accounted /\ [KeeperNext]_keeperVars =>
        Truth' /\ Accounted' /\ [Promise!BookNext]_(Promise!bookVars)
  BY TruthStep, AccountedStep, BookStep
<1> QED  BY <1>1, <1>2, JournalInit, JournalStep, PTL
         DEF KeeperSpec, KeepsTheBook, Promise!BookSpec

=============================================================================
