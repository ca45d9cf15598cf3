----------------------------- MODULE ReportProofs -----------------------------
(***************************************************************************)
(* Theorems about KeeperReport, for every set of bodies, every finite set   *)
(* of commitments and every budget, policy and clock: at every step of a    *)
(* run the report balances, that is, what was counted, what the run has     *)
(* before it and the one body it has in hand add up to what it began with.  *)
(***************************************************************************)
EXTENDS KeeperReport, KeeperProofs, FiniteSetTheorems

(* The three sums of a report: reservations the reconcile pass asked the    *)
(* venue about, commitments the sweep came to, commitments whose poll ended.*)
Tried(n) == n.reconciled_committed + n.reconciled_released
              + n.reconciled_pending + n.reconciled_unsigned
Seen(n)  == n.polled + n.gated + n.skipped
Ended(n) == n.submitted + n.duplicates + n.retried + n.dropped
              + (n.unsigned - n.reconciled_unsigned)

(* The halves of a run, and the body between its POST and its count. *)
AtVenue == run.pc \in {"post", "taken", "answer"}
InPass  == run.pc = "reconcile" \/ (AtVenue /\ run.for = None)
InLoop  == run.pc \in {"loop", "apply"} \/ (AtVenue /\ run.for # None)
InHand  == IF AtVenue \/ run.pc = "apply" THEN 1 ELSE 0

ReportTyped == report \in [done : BOOLEAN, rows : Nat, stranded : Nat, tally : [Buckets -> Nat]]

(* The pass has spent its budget on what it tried, and has counted nothing  *)
(* of the loop.                                                             *)
PassBalances ==
  InPass =>
    /\ run.spent = Tried(report.tally) + InHand
    /\ report.stranded = Tried(report.tally) + report.tally.reconciled_gated
                           + Cardinality(run.pending) + InHand
    /\ Seen(report.tally) = 0 /\ Ended(report.tally) = 0

(* The outcome of the pass, from its end on. *)
PassEnded ==
  /\ Tried(report.tally) <= Budget
  /\ Tried(report.tally) + report.tally.reconciled_gated <= report.stranded
  /\ Tried(report.tally) < Budget =>
       Tried(report.tally) + report.tally.reconciled_gated = report.stranded

LoopBalances ==
  InLoop =>
    /\ PassEnded
    /\ report.rows = Seen(report.tally) + Cardinality(run.listed)
    /\ report.tally.polled = Ended(report.tally) + InHand

Balance ==
  /\ ReportTyped
  /\ IsFiniteSet({b \in Bodies : mark[b] # "none"})
  /\ run.pc \in {"reconcile", "loop"} => run.for = None
  /\ PassBalances
  /\ LoopBalances
  /\ report.done => run.pc = "idle" /\ ReportAddsUp

-----------------------------------------------------------------------------
(* A step of a run that reports is a step of the run. *)
LEMMA ReportStepsKeeper == [ReportNext]_reportVars => [KeeperNext]_keeperVars
BY DEF ReportNext, reportVars, Begin, ReconcileCounts, PollCounts, SubmitCounts, Return,
       KeeperNext, ReconcileStep, LoopStep

(* The bodies with a mark stay finitely many. *)
LEMMA FewMarks ==
  ASSUME JournalInv, IsFiniteSet({b \in Bodies : mark[b] # "none"}), [KeeperNext]_keeperVars
  PROVE  IsFiniteSet({b \in Bodies : mark'[b] # "none"})
<1> DEFINE M == {b \in Bodies : mark[b] # "none"}
<1>1. mark \in [Bodies -> {"none", "reserved", "committed"}]
  BY DEF JournalInv, KeeperTypeOK
<1>2. \E x : {b \in Bodies : mark'[b] # "none"} \subseteq M \cup {x}
  <2>1. CASE UNCHANGED mark
    BY <2>1
  <2>2. ASSUME NEW x, NEW m, mark' = [mark EXCEPT ![x] = m]
        PROVE  {b \in Bodies : mark'[b] # "none"} \subseteq M \cup {x}
    BY <1>1, <2>2
  <2> QED  BY <2>1, <2>2, MarkMoves
<1>3. \A x : IsFiniteSet(M \cup {x})
  BY FS_AddElement
<1> QED  BY <1>2, <1>3, FS_Subset

(* What one count does to the report. *)
LEMMA CountMoves ==
  ASSUME ReportTyped, NEW ks \in SUBSET Buckets, Count(ks)
  PROVE  /\ ReportTyped'
         /\ report'.done = report.done /\ report'.rows = report.rows
         /\ report'.stranded = report.stranded
         /\ \A k \in Buckets :
              report'.tally[k] = report.tally[k] + IF k \in ks THEN 1 ELSE 0
<1>1. report' = [report EXCEPT !.tally = [k \in Buckets |->
                   report.tally[k] + IF k \in ks THEN 1 ELSE 0]]
  BY DEF Count
<1>2. [k \in Buckets |-> report.tally[k] + IF k \in ks THEN 1 ELSE 0] \in [Buckets -> Nat]
  BY DEF ReportTyped
<1> QED  BY <1>1, <1>2 DEF ReportTyped

(* The sums after a count: each is the sum before and the buckets of ks it  *)
(* is made of.                                                              *)
LEMMA SumsMove ==
  ASSUME ReportTyped, NEW ks \in SUBSET Buckets, Count(ks)
  PROVE  LET One(k) == IF k \in ks THEN 1 ELSE 0
             n == report.tally
             m == report'.tally
         IN  /\ Tried(m) = Tried(n) + One("reconciled_committed") + One("reconciled_released")
                             + One("reconciled_pending") + One("reconciled_unsigned")
             /\ Seen(m) = Seen(n) + One("polled") + One("gated") + One("skipped")
             /\ Ended(m) = Ended(n) + One("submitted") + One("duplicates") + One("retried")
                             + One("dropped") + One("unsigned") - One("reconciled_unsigned")
             /\ m.polled = n.polled + One("polled")
             /\ m.reconciled_gated = n.reconciled_gated + One("reconciled_gated")
             /\ {Tried(n), Seen(n), n.polled, n.reconciled_gated} \subseteq Nat
             /\ Ended(n) \in Int
<1> DEFINE One(k) == IF k \in ks THEN 1 ELSE 0
           n == report.tally
           m == report'.tally
<1>1. \A k \in Buckets : m[k] = n[k] + One(k) /\ n[k] \in Nat /\ One(k) \in {0, 1}
  BY CountMoves DEF ReportTyped
<1> HIDE DEF One, n, m
<1>2. Buckets = {"polled", "gated", "skipped", "submitted", "duplicates", "retried", "dropped",
            "reconciled_committed", "reconciled_released", "reconciled_pending",
            "reconciled_gated", "reconciled_unsigned", "unsigned"}
  BY DEF Buckets
<1>3. Tried(m) = Tried(n) + One("reconciled_committed") + One("reconciled_released")
                             + One("reconciled_pending") + One("reconciled_unsigned")
      /\ Tried(n) \in Nat
  BY <1>1, <1>2 DEF Tried
<1>4. Seen(m) = Seen(n) + One("polled") + One("gated") + One("skipped") /\ Seen(n) \in Nat
  BY <1>1, <1>2 DEF Seen
<1>5. Ended(m) = Ended(n) + One("submitted") + One("duplicates") + One("retried")
                             + One("dropped") + One("unsigned") - One("reconciled_unsigned")
      /\ Ended(n) \in Int
  BY <1>1, <1>2 DEF Ended
<1>6. m.polled = n.polled + One("polled") /\ n.polled \in Nat
      /\ m.reconciled_gated = n.reconciled_gated + One("reconciled_gated")
      /\ n.reconciled_gated \in Nat
  BY <1>1, <1>2
<1> QED  BY <1>3, <1>4, <1>5, <1>6 DEF One, n, m

-----------------------------------------------------------------------------
LEMMA BalanceInit == ReportInit => JournalInv /\ Balance
<1> SUFFICES ASSUME ReportInit  PROVE JournalInv /\ Balance
  OBVIOUS
<1>1. KeeperInit /\ run.pc = "idle" /\ {b \in Bodies : mark[b] # "none"} = {}
  BY DEF ReportInit, KeeperInit, Idle
<1>2. report = [done |-> FALSE, rows |-> 0, stranded |-> 0, tally |-> Nothing]
      /\ Nothing \in [Buckets -> Nat]
  BY DEF ReportInit, Nothing
<1> HIDE DEF ReportInit
<1> QED
  BY <1>1, <1>2, JournalInit, FS_EmptySet
  DEF Balance, ReportTyped, PassBalances, LoopBalances, InPass, InLoop, AtVenue

(* A run begins with what the journal lists before it, ... *)
LEMMA BeginBalances ==
  ASSUME JournalInv, Balance, Begin
  PROVE  Balance'
<1> DEFINE pending == {b \in Bodies : mark[b] = "reserved"}
<1>1. /\ run' = [Idle EXCEPT !.pc = "reconcile", !.tick = epoch, !.pending = pending]
      /\ report' = [done |-> FALSE, rows |-> 0, stranded |-> Cardinality(pending),
                    tally |-> Nothing]
      /\ mark' = mark
  BY DEF Begin, StartRun, Idle, store
<1>2. IsFiniteSet(pending) /\ Cardinality(pending) \in Nat
  <2>1. pending \subseteq {b \in Bodies : mark[b] # "none"}
    OBVIOUS
  <2> QED  BY <2>1, FS_Subset, FS_CardinalityType DEF Balance
<1> HIDE DEF pending
<1>3. /\ run'.pc = "reconcile" /\ run'.for = None /\ run'.spent = 0
      /\ run'.pending = pending
  BY <1>1 DEF Idle
<1>4. Nothing \in [Buckets -> Nat] /\ \A k \in Buckets : Nothing[k] = 0
  BY DEF Nothing
<1>5. Tried(Nothing) = 0 /\ Seen(Nothing) = 0 /\ Ended(Nothing) = 0
      /\ Nothing.reconciled_gated = 0
  BY <1>4 DEF Tried, Seen, Ended, Buckets
<1>6. ReportTyped'
  BY <1>1, <1>2, <1>4 DEF ReportTyped
<1>7. PassBalances' /\ LoopBalances'
  BY <1>1, <1>2, <1>3, <1>5 DEF PassBalances, LoopBalances, InPass, InLoop, InHand, AtVenue
<1> QED  BY <1>1, <1>3, <1>6, <1>7 DEF Balance

(* ... and ends by an abort with nothing, or with a report that adds up. *)
LEMMA ReturnBalances ==
  ASSUME JournalInv, Balance, Return
  PROVE  Balance'
<1>1. /\ run.pc = "loop" /\ run.listed = {} /\ run' = Idle /\ mark' = mark
      /\ report' = [report EXCEPT !.done = TRUE]
  BY DEF Return, ReturnReport, store
<1>2. run'.pc = "idle"
  BY <1>1 DEF Idle
<1>3. /\ report'.rows = report.rows /\ report'.stranded = report.stranded
      /\ report'.tally = report.tally /\ ReportTyped'
  BY <1>1 DEF Balance, ReportTyped
<1>4. /\ PassEnded /\ report.rows = Seen(report.tally) + 0
      /\ report.tally.polled = Ended(report.tally) + 0
  BY <1>1, FS_EmptySet DEF Balance, LoopBalances, InLoop, InHand, AtVenue
<1>5. ReportAddsUp'
  <2>1. report.tally \in [Buckets -> Nat]
    BY DEF Balance, ReportTyped
  <2>2. \A k \in Buckets : report.tally[k] \in Nat
    BY <2>1
  <2>3. /\ report.rows = report.tally.polled + report.tally.gated + report.tally.skipped
        /\ report.tally.polled = report.tally.submitted + report.tally.duplicates
             + report.tally.retried + report.tally.dropped
             + (report.tally.unsigned - report.tally.reconciled_unsigned)
    BY <1>4, <2>2 DEF Seen, Ended, Buckets
  <2> QED  BY <1>3, <1>4, <2>3 DEF ReportAddsUp, PassEnded, Tried
<1> QED
  BY <1>1, <1>2, <1>3, <1>5
  DEF Balance, PassBalances, LoopBalances, InPass, InLoop, AtVenue

LEMMA AbortBalances ==
  ASSUME JournalInv, Balance, Abort,
         report' = [report EXCEPT !.tally = Nothing, !.rows = 0, !.stranded = 0]
  PROVE  Balance'
<1>1. run.pc # "idle" /\ run' = Idle /\ mark' = mark
  BY DEF Abort, store
<1>2. run'.pc = "idle"
  BY <1>1 DEF Idle
<1>3. ReportTyped' /\ report'.done = FALSE
  <2>1. Nothing \in [Buckets -> Nat]
    BY DEF Nothing
  <2> QED  BY <1>1, <2>1 DEF Balance, ReportTyped
<1> QED
  BY <1>1, <1>2, <1>3
  DEF Balance, PassBalances, LoopBalances, InPass, InLoop, AtVenue

-----------------------------------------------------------------------------
(* The reservations a pass has before it are finitely many. *)
LEMMA PendingIsFinite ==
  ASSUME JournalInv, Balance
  PROVE  IsFiniteSet(run.pending) /\ Cardinality(run.pending) \in Nat
<1>1. run.pending \subseteq {b \in Bodies : mark[b] # "none"}
  BY DEF JournalInv, KeeperTypeOK, Journal
<1> QED  BY <1>1, FS_Subset, FS_CardinalityType DEF Balance

LEMMA ListedIsFinite ==
  ASSUME JournalInv
  PROVE  IsFiniteSet(run.listed) /\ Cardinality(run.listed) \in Nat
<1>1. run.listed \subseteq Commitments
  BY DEF JournalInv, KeeperTypeOK
<1> QED  BY <1>1, ReportConstants, FS_Subset, FS_CardinalityType

(* What every step keeps is left out below: the marks are finitely many by  *)
(* FewMarks, and a step that is neither Begin nor Return leaves `done` as   *)
(* it is in a run that is not idle.                                         *)
InRun == run.pc # "idle" /\ run'.pc # "idle" /\ report'.done = report.done

LEMMA RunBalances ==
  ASSUME JournalInv, Balance, [ReportNext]_reportVars, InRun, ReportTyped',
         (run.pc \in {"reconcile", "loop"} => run.for = None)',
         PassBalances', LoopBalances'
  PROVE  Balance'
<1>1. IsFiniteSet({b \in Bodies : mark'[b] # "none"})
  BY FewMarks, ReportStepsKeeper DEF Balance
<1>2. ~report'.done
  BY DEF InRun, Balance, ReportTyped
<1> QED  BY <1>1, <1>2 DEF Balance

(* The pass: a reservation leaves the list gated, ... *)
LEMMA GatedBalances ==
  ASSUME JournalInv, Balance, NEW b \in Bodies,
         ReconcileGated(b), Count({"reconciled_gated"})
  PROVE  /\ InRun /\ ReportTyped' /\ (run.pc \in {"reconcile", "loop"} => run.for = None)'
         /\ PassBalances' /\ LoopBalances'
<1>1. /\ run.pc = "reconcile" /\ b \in run.pending
      /\ run' = [run EXCEPT !.pending = @ \ {b}]
  BY DEF ReconcileGated, IsNext
<1>2. /\ run'.pc = "reconcile" /\ run'.for = None /\ run.for = None /\ run'.spent = run.spent
      /\ run'.pending = run.pending \ {b} /\ run.spent \in Nat
  BY <1>1, KeeperConstants DEF JournalInv, KeeperTypeOK, Balance
<1>3. Cardinality(run'.pending) = Cardinality(run.pending) - 1
      /\ Cardinality(run.pending) \in Nat
  BY <1>1, <1>2, PendingIsFinite, FS_RemoveElement
<1>4. ReportTyped' /\ report'.done = report.done /\ report'.stranded = report.stranded
      /\ report.stranded \in Nat
  BY CountMoves DEF Balance, Buckets, ReportTyped
<1>5. /\ Tried(report'.tally) = Tried(report.tally) /\ Tried(report.tally) \in Nat
      /\ Seen(report'.tally) = Seen(report.tally)
      /\ Ended(report'.tally) = Ended(report.tally)
      /\ report'.tally.reconciled_gated = report.tally.reconciled_gated + 1
      /\ report.tally.reconciled_gated \in Nat
  BY SumsMove DEF Balance, Buckets
<1>6. /\ run.spent = Tried(report.tally) + 0
      /\ report.stranded = Tried(report.tally) + report.tally.reconciled_gated
                             + Cardinality(run.pending) + 0
      /\ Seen(report.tally) = 0 /\ Ended(report.tally) = 0
  BY <1>1 DEF Balance, PassBalances, InPass, InHand, AtVenue
<1>7. PassBalances' /\ LoopBalances'
  BY <1>2, <1>3, <1>4, <1>5, <1>6
  DEF PassBalances, LoopBalances, InPass, InLoop, InHand, AtVenue
<1> QED  BY <1>1, <1>2, <1>4, <1>7 DEF InRun

(* ... or is POSTed, ... *)
LEMMA PostBalances ==
  ASSUME JournalInv, Balance, NEW b \in Bodies, ReconcilePost(b), UNCHANGED report
  PROVE  /\ InRun /\ ReportTyped' /\ (run.pc \in {"reconcile", "loop"} => run.for = None)'
         /\ PassBalances' /\ LoopBalances'
<1>1. /\ run.pc = "reconcile" /\ b \in run.pending
      /\ run' = [run EXCEPT !.pc = "post", !.body = b, !.pending = @ \ {b}, !.spent = @ + 1]
  BY DEF ReconcilePost, IsNext
<1>2. /\ run'.pc = "post" /\ run'.for = None /\ run'.spent = run.spent + 1
      /\ run'.pending = run.pending \ {b} /\ run.spent \in Nat
  BY <1>1, KeeperConstants DEF JournalInv, KeeperTypeOK, Balance
<1>3. Cardinality(run'.pending) = Cardinality(run.pending) - 1
      /\ Cardinality(run.pending) \in Nat
  BY <1>1, <1>2, PendingIsFinite, FS_RemoveElement
<1>4. ReportTyped' /\ report.stranded \in Nat /\ \A k \in Buckets : report.tally[k] \in Nat
  BY DEF Balance, ReportTyped
<1>5. Tried(report.tally) \in Nat /\ report.tally.reconciled_gated \in Nat
  BY <1>4 DEF Tried, Buckets
<1>6. /\ run.spent = Tried(report.tally) + 0
      /\ report.stranded = Tried(report.tally) + report.tally.reconciled_gated
                             + Cardinality(run.pending) + 0
      /\ Seen(report.tally) = 0 /\ Ended(report.tally) = 0
  BY <1>1 DEF Balance, PassBalances, InPass, InHand, AtVenue
<1>7. PassBalances' /\ LoopBalances'
  BY <1>2, <1>3, <1>5, <1>6
  DEF PassBalances, LoopBalances, InPass, InLoop, InHand, AtVenue
<1> QED  BY <1>1, <1>2, <1>4, <1>7 DEF InRun

(* ... and has one of four outcomes; ... *)
LEMMA OutcomeBalances ==
  ASSUME JournalInv, Balance, NEW kept \in SUBSET Bodies, Answered(TRUE), Resume(kept),
         NEW ks \in {{"reconciled_committed"}, {"reconciled_released"},
                     {"reconciled_pending"}, {"reconciled_unsigned", "unsigned"}},
         Count(ks)
  PROVE  /\ InRun /\ ReportTyped' /\ (run.pc \in {"reconcile", "loop"} => run.for = None)'
         /\ PassBalances' /\ LoopBalances'
<1>1. run.pc = "answer" /\ run.for = None
  BY DEF Answered
<1>2. /\ run'.pc = "reconcile" /\ run'.for = None /\ run'.spent = run.spent
      /\ run'.pending = run.pending /\ run.spent \in Nat
  BY <1>1, KeeperConstants DEF JournalInv, KeeperTypeOK, Resume
<1>3. Cardinality(run.pending) \in Nat
  BY PendingIsFinite
<1>4. ks \in SUBSET Buckets
  BY DEF Buckets
<1>5. ReportTyped' /\ report'.done = report.done /\ report'.stranded = report.stranded
      /\ report.stranded \in Nat
  BY <1>4, CountMoves DEF Balance, ReportTyped
<1>6. /\ Tried(report'.tally) = Tried(report.tally) + 1 /\ Tried(report.tally) \in Nat
      /\ Seen(report'.tally) = Seen(report.tally)
      /\ Ended(report'.tally) = Ended(report.tally)
      /\ report'.tally.reconciled_gated = report.tally.reconciled_gated
      /\ report.tally.reconciled_gated \in Nat
  BY <1>4, SumsMove DEF Balance
<1>7. /\ run.spent = Tried(report.tally) + 1
      /\ report.stranded = Tried(report.tally) + report.tally.reconciled_gated
                             + Cardinality(run.pending) + 1
      /\ Seen(report.tally) = 0 /\ Ended(report.tally) = 0
  BY <1>1 DEF Balance, PassBalances, InPass, InHand, AtVenue
<1>8. PassBalances' /\ LoopBalances'
  BY <1>2, <1>3, <1>5, <1>6, <1>7
  DEF PassBalances, LoopBalances, InPass, InLoop, InHand, AtVenue
<1> QED  BY <1>1, <1>2, <1>5, <1>8 DEF InRun

(* ... the pass ends with everything tried, or with its budget spent. *)
LEMMA PassEndBalances ==
  ASSUME JournalInv, Balance, ReconcileEnds,
         report' = [report EXCEPT !.rows = Cardinality(rows)]
  PROVE  /\ InRun /\ ReportTyped' /\ (run.pc \in {"reconcile", "loop"} => run.for = None)'
         /\ PassBalances' /\ LoopBalances'
<1>1. /\ run.pc = "reconcile"
      /\ run.pending = {} \/ run.spent >= Budget
      /\ run' = [run EXCEPT !.pc = "loop", !.pending = {}, !.listed = rows]
  BY DEF ReconcileEnds
<1>2. /\ run'.pc = "loop" /\ run'.for = None /\ run'.listed = rows
      /\ run.spent \in Nat /\ run.spent <= Budget /\ Budget \in Nat
      /\ rows \subseteq Commitments /\ run.pc = "reconcile"
  BY <1>1, KeeperConstants DEF JournalInv, KeeperTypeOK, Balance, ReconcileEnds
<1>3. Cardinality(rows) \in Nat /\ Cardinality(run.pending) \in Nat
      /\ (run.pending = {} => Cardinality(run.pending) = 0)
  BY <1>2, ReportConstants, FS_Subset, FS_CardinalityType, FS_EmptySet, PendingIsFinite
<1>4. /\ ReportTyped' /\ report'.done = report.done /\ report'.stranded = report.stranded
      /\ report'.tally = report.tally /\ report'.rows = Cardinality(rows)
      /\ report.stranded \in Nat /\ \A k \in Buckets : report.tally[k] \in Nat
  BY <1>3 DEF Balance, ReportTyped
<1>5. Tried(report.tally) \in Nat /\ report.tally.reconciled_gated \in Nat
      /\ Ended(report.tally) \in Int /\ report.tally.polled \in Nat
      /\ (Seen(report.tally) = 0 => report.tally.polled = 0)
  BY <1>4 DEF Tried, Seen, Ended, Buckets
<1>6. /\ run.spent = Tried(report.tally) + 0
      /\ report.stranded = Tried(report.tally) + report.tally.reconciled_gated
                             + Cardinality(run.pending) + 0
      /\ Seen(report.tally) = 0 /\ Ended(report.tally) = 0
  BY <1>2 DEF Balance, PassBalances, InPass, InHand, AtVenue
<1>7. PassEnded'
  BY <1>1, <1>2, <1>3, <1>4, <1>5, <1>6 DEF PassEnded
<1>8. PassBalances' /\ LoopBalances'
  BY <1>2, <1>3, <1>4, <1>5, <1>6, <1>7
  DEF PassBalances, LoopBalances, InPass, InLoop, InHand, AtVenue
<1> QED  BY <1>2, <1>4, <1>8 DEF InRun

(* The loop: a commitment leaves the list counted, or polled and ended, ... *)
LEMMA SweptBalances ==
  ASSUME JournalInv, Balance, NEW c \in Commitments, IsListed(c),
         run' = [run EXCEPT !.listed = @ \ {c}],
         NEW ks \in {{"gated"}, {"skipped"}, {"polled", "retried"}, {"polled", "dropped"},
                     {"polled", "duplicates"}},
         Count(ks)
  PROVE  /\ InRun /\ ReportTyped' /\ (run.pc \in {"reconcile", "loop"} => run.for = None)'
         /\ PassBalances' /\ LoopBalances'
<1>1. run.pc = "loop" /\ c \in run.listed
  BY DEF IsListed
<1>2. /\ run'.pc = "loop" /\ run'.for = None
      /\ run'.listed = run.listed \ {c}
  BY <1>1 DEF JournalInv, KeeperTypeOK, Balance
<1>3. /\ Cardinality(run'.listed) = Cardinality(run.listed) - 1
      /\ Cardinality(run.listed) \in Nat
  BY <1>1, <1>2, ListedIsFinite, FS_RemoveElement
<1>4. ks \in SUBSET Buckets
  BY DEF Buckets
<1>5. /\ ReportTyped' /\ report'.done = report.done /\ report'.stranded = report.stranded
      /\ report'.rows = report.rows /\ report.rows \in Nat
  BY <1>4, CountMoves DEF Balance, ReportTyped
<1>6. /\ Tried(report'.tally) = Tried(report.tally)
      /\ Seen(report'.tally) = Seen(report.tally) + 1 /\ Seen(report.tally) \in Nat
      /\ \/ /\ Ended(report'.tally) = Ended(report.tally) + 1
            /\ report'.tally.polled = report.tally.polled + 1
         \/ /\ Ended(report'.tally) = Ended(report.tally)
            /\ report'.tally.polled = report.tally.polled
      /\ Ended(report.tally) \in Int /\ report.tally.polled \in Nat
      /\ report'.tally.reconciled_gated = report.tally.reconciled_gated
  <2>1. Tried(report.tally) \in Nat /\ report.tally.reconciled_gated \in Nat
        /\ Seen(report.tally) \in Nat
        /\ Ended(report.tally) \in Int /\ report.tally.polled \in Nat
    BY <1>4, SumsMove DEF Balance
  <2> QED  BY <1>4, <2>1, SumsMove DEF Balance
<1>7. /\ PassEnded /\ report.rows = Seen(report.tally) + Cardinality(run.listed)
      /\ report.tally.polled = Ended(report.tally) + 0
  BY <1>1 DEF Balance, LoopBalances, InLoop, InHand, AtVenue
<1>8. PassBalances' /\ LoopBalances'
  BY <1>2, <1>3, <1>5, <1>6, <1>7
  DEF PassBalances, LoopBalances, PassEnded, InPass, InLoop, InHand, AtVenue
<1> QED  BY <1>1, <1>2, <1>5, <1>8 DEF InRun

(* ... or polled and POSTed, ... *)
LEMMA PolledBalances ==
  ASSUME JournalInv, Balance, NEW c \in Commitments, NEW b \in Bodies,
         PollSubmits(c, b), Count({"polled"})
  PROVE  /\ InRun /\ ReportTyped' /\ (run.pc \in {"reconcile", "loop"} => run.for = None)'
         /\ PassBalances' /\ LoopBalances'
<1>1. /\ run.pc = "loop" /\ c \in run.listed
      /\ run' = [run EXCEPT !.pc = "post", !.body = b, !.for = c, !.listed = @ \ {c}]
  BY DEF PollSubmits, Polls, IsListed
<1>2. /\ run'.pc = "post" /\ run'.for # None
      /\ run'.listed = run.listed \ {c}
  BY <1>1, KeeperConstants DEF JournalInv, KeeperTypeOK
<1>3. /\ Cardinality(run'.listed) = Cardinality(run.listed) - 1
      /\ Cardinality(run.listed) \in Nat
  BY <1>1, <1>2, ListedIsFinite, FS_RemoveElement
<1>4. {"polled"} \in SUBSET Buckets
  BY DEF Buckets
<1>5. /\ ReportTyped' /\ report'.done = report.done /\ report'.stranded = report.stranded
      /\ report'.rows = report.rows /\ report.rows \in Nat
  BY <1>4, CountMoves DEF Balance, ReportTyped
<1>6. /\ Tried(report'.tally) = Tried(report.tally)
      /\ Seen(report'.tally) = Seen(report.tally) + 1 /\ Seen(report.tally) \in Nat
      /\ Ended(report'.tally) = Ended(report.tally)
      /\ report'.tally.polled = report.tally.polled + 1
      /\ Ended(report.tally) \in Int /\ report.tally.polled \in Nat
      /\ report'.tally.reconciled_gated = report.tally.reconciled_gated
  BY <1>4, SumsMove DEF Balance
<1>7. /\ PassEnded /\ report.rows = Seen(report.tally) + Cardinality(run.listed)
      /\ report.tally.polled = Ended(report.tally) + 0
  BY <1>1 DEF Balance, LoopBalances, InLoop, InHand, AtVenue
<1>8. PassBalances' /\ LoopBalances'
  BY <1>2, <1>3, <1>5, <1>6, <1>7
  DEF PassBalances, LoopBalances, PassEnded, InPass, InLoop, InHand, AtVenue
<1> QED  BY <1>1, <1>2, <1>5, <1>8 DEF InRun

(* ... whose answer ends it, ... *)
LEMMA AnswerBalances ==
  ASSUME JournalInv, Balance, Answered(FALSE) \/ run.pc = "apply",
         NEW kept \in SUBSET Bodies, Resume(kept),
         NEW ks \in {{"submitted"}, {"unsigned"}, {"retried"}, {"dropped"}}, Count(ks)
  PROVE  /\ InRun /\ ReportTyped' /\ (run.pc \in {"reconcile", "loop"} => run.for = None)'
         /\ PassBalances' /\ LoopBalances'
<1>1. run.pc \in {"answer", "apply"} /\ run.for # None
  BY KeeperConstants DEF Answered, JournalInv, Journal
<1>2. run'.pc = "loop" /\ run'.for = None /\ run'.listed = run.listed
  BY <1>1 DEF JournalInv, KeeperTypeOK, Resume
<1>3. Cardinality(run.listed) \in Nat
  BY ListedIsFinite
<1>4. ks \in SUBSET Buckets
  BY DEF Buckets
<1>5. /\ ReportTyped' /\ report'.done = report.done /\ report'.stranded = report.stranded
      /\ report'.rows = report.rows /\ report.rows \in Nat
  BY <1>4, CountMoves DEF Balance, ReportTyped
<1>6. /\ Tried(report'.tally) = Tried(report.tally)
      /\ Seen(report'.tally) = Seen(report.tally)
      /\ Ended(report'.tally) = Ended(report.tally) + 1
      /\ report'.tally.polled = report.tally.polled
      /\ Ended(report.tally) \in Int /\ report.tally.polled \in Nat
      /\ report'.tally.reconciled_gated = report.tally.reconciled_gated
  BY <1>4, SumsMove DEF Balance
<1>7. /\ PassEnded /\ report.rows = Seen(report.tally) + Cardinality(run.listed)
      /\ report.tally.polled = Ended(report.tally) + 1
  BY <1>1 DEF Balance, LoopBalances, InLoop, InHand, AtVenue
<1>8. PassBalances' /\ LoopBalances'
  BY <1>2, <1>3, <1>5, <1>6, <1>7
  DEF PassBalances, LoopBalances, PassEnded, InPass, InLoop, InHand, AtVenue
<1> QED  BY <1>1, <1>2, <1>5, <1>8 DEF InRun

(* ... and nothing is counted while a body stays in hand: the venue answers *)
(* or a refused body waits for its action.                                  *)
LEMMA WaitBalances ==
  ASSUME JournalInv, Balance, UNCHANGED report,
         SubmitRefused \/ VenueTakes \/ \E a \in Answers : Answer(a)
  PROVE  /\ InRun /\ ReportTyped' /\ (run.pc \in {"reconcile", "loop"} => run.for = None)'
         /\ PassBalances' /\ LoopBalances'
<1>1. ReportTyped'
  BY DEF Balance, ReportTyped
<1>2. CASE SubmitRefused
  <2>1. run.pc = "answer" /\ run.for # None /\ run'.pc = "apply" /\ run'.for = run.for
        /\ run'.listed = run.listed
    BY <1>2 DEF SubmitRefused, Answered, JournalInv, KeeperTypeOK
  <2> QED
    BY <1>1, <2>1
    DEF Balance, PassBalances, LoopBalances, PassEnded, InPass, InLoop, InHand, AtVenue, InRun
<1>3. CASE \E a \in Answers : Answer(a)
  <2>1. /\ run.pc \in {"post", "taken"} /\ run'.pc = "answer" /\ run'.for = run.for
        /\ run'.listed = run.listed /\ run'.pending = run.pending /\ run'.spent = run.spent
    BY <1>3 DEF Answer, MayAnswer, JournalInv, KeeperTypeOK
  <2> QED
    BY <1>1, <2>1
    DEF Balance, PassBalances, LoopBalances, PassEnded, InPass, InLoop, InHand, AtVenue, InRun
<1>4. CASE VenueTakes
  <2>1. /\ run.pc = "post" /\ run'.pc = "taken" /\ run'.for = run.for
        /\ run'.listed = run.listed /\ run'.pending = run.pending /\ run'.spent = run.spent
    BY <1>4 DEF VenueTakes, JournalInv, KeeperTypeOK
  <2> QED
    BY <1>1, <2>1
    DEF Balance, PassBalances, LoopBalances, PassEnded, InPass, InLoop, InHand, AtVenue, InRun
<1> QED  BY <1>2, <1>3, <1>4

-----------------------------------------------------------------------------
LEMMA BalanceStep ==
  ASSUME JournalInv, Balance, [ReportNext]_reportVars
  PROVE  Balance'
<1> DEFINE Balanced == /\ InRun /\ ReportTyped'
                       /\ (run.pc \in {"reconcile", "loop"} => run.for = None)'
                       /\ PassBalances' /\ LoopBalances'
<1>kept. /\ run.kept \cup {run.body} \in SUBSET Bodies \/ run.pc # "answer"
         /\ run.kept \ {run.body} \in SUBSET Bodies /\ run.kept \in SUBSET Bodies
  BY DEF JournalInv, KeeperTypeOK, Journal
<1>balanced. Balanced => Balance'
  BY RunBalances
<1> HIDE DEF Balanced
<1>a. CASE Begin
  BY <1>a, BeginBalances
<1>b. ASSUME NEW b \in Bodies, ReconcileGated(b) /\ Count({"reconciled_gated"})
      PROVE  Balance'
  BY <1>b, <1>balanced, GatedBalances DEF Balanced
<1>c. ASSUME NEW b \in Bodies, ReconcilePost(b) /\ UNCHANGED report
      PROVE  Balance'
  BY <1>c, <1>balanced, PostBalances DEF Balanced
<1>d. CASE ReconcileEnds /\ report' = [report EXCEPT !.rows = Cardinality(rows)]
  BY <1>d, <1>balanced, PassEndBalances DEF Balanced
<1>e. CASE ReconcileAccepted /\ Count({"reconciled_committed"})
  <2>1. Answered(TRUE) /\ Resume(run.kept \cup {run.body})
        /\ run.kept \cup {run.body} \in SUBSET Bodies
    BY <1>e, <1>kept DEF ReconcileAccepted, ResumeKept, Answered
  <2> QED  BY <1>e, <2>1, <1>balanced, OutcomeBalances DEF Balanced
<1>f. CASE ReconcileReleases
           /\ Count(IF run.answer = "signing" THEN {"reconciled_unsigned", "unsigned"}
                                              ELSE {"reconciled_released"})
  <2>1. Answered(TRUE) /\ Resume(run.kept \ {run.body})
    BY <1>f DEF ReconcileReleases, ResumeReleased
  <2>2. PICK ks \in {{"reconciled_released"}, {"reconciled_unsigned", "unsigned"}} : Count(ks)
    BY <1>f
  <2> QED  BY <2>1, <2>2, <1>kept, <1>balanced, OutcomeBalances DEF Balanced
<1>g. CASE ReconcileKeeps /\ Count({"reconciled_pending"})
  <2>1. Answered(TRUE) /\ Resume(run.kept \cup {run.body})
    BY <1>g DEF ReconcileKeeps, ReconcilePending, ReconcileParks, ResumeKept
  <2>2. run.kept \cup {run.body} \in SUBSET Bodies
    BY <2>1, <1>kept DEF Answered
  <2> QED  BY <1>g, <2>1, <2>2, <1>balanced, OutcomeBalances DEF Balanced
<1>h. ASSUME NEW c \in Commitments, PollCounts(c)
      PROVE  Balance'
  <2>swept. ASSUME NEW ks \in {{"gated"}, {"skipped"}, {"polled", "retried"},
                               {"polled", "dropped"}, {"polled", "duplicates"}},
                   IsListed(c), run' = [run EXCEPT !.listed = @ \ {c}], Count(ks)
            PROVE  Balance'
    BY <2>swept, <1>balanced, SweptBalances DEF Balanced
  <2>1. CASE Skip(c) /\ Count({IF gate[c] > run.tick THEN "gated" ELSE "skipped"})
    <3>1. Count({"gated"}) \/ Count({"skipped"})
      BY <2>1
    <3> QED  BY <2>1, <3>1, <2>swept DEF Skip
  <2>2. ASSUME NEW action \in {"retry", "backoff", "drop"},
               PollDefers(c, action) /\ CountByEffect(c, action, {"polled"})
        PROVE  Balance'
    <3>1. Count({"polled", "retried"}) \/ Count({"polled", "dropped"})
      BY <2>2 DEF CountByEffect
    <3> QED  BY <2>2, <3>1, <2>swept DEF PollDefers, Polls
  <2>3. ASSUME NEW x \in Commitments,
               PollRetires(c, x) /\ CountByEffect(c, "retry", {"polled"})
        PROVE  Balance'
    <3>1. Count({"polled", "retried"}) \/ Count({"polled", "dropped"})
      BY <2>3 DEF CountByEffect
    <3> QED  BY <2>3, <3>1, <2>swept DEF PollRetires, Polls
  <2>4. ASSUME NEW b \in Bodies, PollSubmitsMarked(c, b) /\ Count(Marked(b))
        PROVE  Balance'
    <3>1. Count({"polled", "retried"}) \/ Count({"polled", "duplicates"})
      BY <2>4 DEF Marked
    <3> QED  BY <2>4, <3>1, <2>swept DEF PollSubmitsMarked, Polls
  <2>5. ASSUME NEW b \in Bodies, PollSubmits(c, b) /\ Count({"polled"})
        PROVE  Balance'
    BY <2>5, <1>balanced, PolledBalances DEF Balanced
  <2> QED  BY <1>h, <2>1, <2>2, <2>3, <2>4, <2>5 DEF PollCounts
<1>i. CASE SubmitAccepted /\ Count({"submitted"})
  <2>1. Answered(FALSE) /\ Resume(run.kept \cup {run.body})
        /\ run.kept \cup {run.body} \in SUBSET Bodies
    BY <1>i, <1>kept DEF SubmitAccepted, ResumeKept, Answered
  <2> QED  BY <1>i, <2>1, <1>balanced, AnswerBalances DEF Balanced
<1>j. CASE SubmitSigning /\ Count({"unsigned"})
  <2>1. Answered(FALSE) /\ Resume(run.kept \ {run.body})
    BY <1>j DEF SubmitSigning, ResumeReleased
  <2> QED  BY <1>j, <2>1, <1>kept, <1>balanced, AnswerBalances DEF Balanced
<1>k. CASE ApplyAction /\ CountByEffect(run.for, Policy[run.answer], {})
  <2>1. run.pc = "apply" /\ Resume(run.kept) /\ (Count({"retried"}) \/ Count({"dropped"}))
    BY <1>k DEF ApplyAction, CountByEffect
  <2> QED  BY <2>1, <1>kept, <1>balanced, AnswerBalances DEF Balanced
<1>l. CASE (SubmitRefused \/ VenueTakes \/ \E a \in Answers : Answer(a)) /\ UNCHANGED report
  BY <1>l, <1>balanced, WaitBalances DEF Balanced
<1>m. CASE Return
  BY <1>m, ReturnBalances
<1>n. CASE Abort /\ report' = [report EXCEPT !.tally = Nothing, !.rows = 0, !.stranded = 0]
  BY <1>n, AbortBalances
<1>o. CASE /\ UNCHANGED <<mark, run, report>>
  BY <1>o
  DEF Balance, ReportTyped, PassBalances, LoopBalances, PassEnded, InPass, InLoop, InHand,
      AtVenue, ReportAddsUp
<1>p. ASSUME Advance \/ \E b \in Bodies : VenueTakesLate(b) \/ LateCopyLost(b)
      PROVE  UNCHANGED <<mark, run>>
  BY <1>p DEF VenueTakesLate, LateCopyLost, Advance, store
<1>q. UNCHANGED reportVars => UNCHANGED <<mark, run, report>>
  BY DEF reportVars, keeperVars, store
<1> QED
  BY <1>a, <1>b, <1>c, <1>d, <1>e, <1>f, <1>g, <1>h, <1>i, <1>j, <1>k, <1>l, <1>m, <1>n,
     <1>o, <1>p, <1>q
  DEF ReportNext, ReconcileCounts, SubmitCounts, VenueStep

(* keeper.rs:290-343: counting changes nothing of a run, so all that holds  *)
(* of Keeper holds of a run that reports: ...                               *)
THEOREM ReportingIsKeeping == ReportSpec => KeeperSpec
<1>1. ReportInit => KeeperInit
  BY DEF ReportInit
<1> QED  BY <1>1, ReportStepsKeeper, PTL DEF ReportSpec, KeeperSpec

(* ... keeper.rs:102-104, 158-174: the journal's promises without any       *)
(* assumption on the venue or the policy, ...                               *)
THEOREM ReportingRunsAreSafe ==
  ReportSpec => /\ [](PostIsReserved /\ NoSecondPost /\ ParkRespected /\ CommittedIsHeld)
                /\ CommittedIsFinal
<1> QED  BY ReportingIsKeeping, PostsAreReserved, PostsAreFirst, ParksAreRespected,
            CommitsAreHeld, CommitsAreFinal, PTL

(* ... keeper.rs:95-104, 222-231: and the order book, if no policy gives up  *)
(* on a transient fault.                                                     *)
THEOREM ReportingKeepsTheBook ==
  Cautious => (ReportSpec => []HeldIsMarked /\ KeepsTheBook)
<1> SUFFICES ASSUME Cautious
             PROVE  ReportSpec => []HeldIsMarked /\ KeepsTheBook
  OBVIOUS
<1>1. KeeperSpec => []HeldIsMarked
  BY NoOrderIsLost
<1>2. KeeperSpec => KeepsTheBook
  BY KeeperKeepsTheBook
<1> QED  BY ReportingIsKeeping, <1>1, <1>2, PTL

(* keeper.rs:290-343: every report a run returns accounts for what the run  *)
(* had before it, once, whatever the journal held and the venue answered,   *)
(* for any budget and policy.                                               *)
THEOREM ReportsAddUp == ReportSpec => []ReportAddsUp
<1>1. Balance => ReportAddsUp
  BY DEF Balance, ReportAddsUp
<1>2. JournalInv /\ Balance /\ [ReportNext]_reportVars => (JournalInv /\ Balance)'
  BY BalanceStep, JournalStep, ReportStepsKeeper
<1> QED  BY <1>1, <1>2, BalanceInit, PTL DEF ReportSpec

=============================================================================
