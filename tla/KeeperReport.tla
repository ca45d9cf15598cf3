----------------------------- MODULE KeeperReport -----------------------------
(***************************************************************************)
(* The report of a keeper run (videre-sdk, keeper.rs): every reservation of *)
(* the reconcile pass and every commitment of the sweep is tallied by what  *)
(* became of it, and the transactions a venue wants signed ride along.  A   *)
(* run that ends early takes its report with it.                            *)
(***************************************************************************)
EXTENDS Keeper

(* The rows of a store are finitely many. *)
ASSUME ReportConstants == IsFiniteSet(Commitments)

VARIABLE report

Buckets == {"polled", "gated", "skipped", "submitted", "duplicates", "retried", "dropped",
            "reconciled_committed", "reconciled_released", "reconciled_pending",
            "reconciled_gated", "reconciled_unsigned", "unsigned"}

reportVars == <<keeperVars, report>>

-----------------------------------------------------------------------------
Nothing == [k \in Buckets |-> 0]

(* Add one to each bucket of ks. *)
Count(ks) ==
  report' = [report EXCEPT !.tally = [k \in Buckets |-> @[k] + IF k \in ks THEN 1 ELSE 0]]

(* The bucket goes by whether the row is still in the set, and by the       *)
(* action where that cannot be read.                                        *)
CountByEffect(c, action, ks) ==
  \E present \in {(c \in rows'), action # "drop"} :
    Count(ks \cup {IF present THEN "retried" ELSE "dropped"})

(* `rows` and `stranded` are what the run has before it; they are not in    *)
(* the code.                                                                *)
ReportInit == KeeperInit /\ report = [done |-> FALSE, rows |-> 0, stranded |-> 0, tally |-> Nothing]

Begin ==
  /\ StartRun
  /\ report' = [done |-> FALSE, rows |-> 0, stranded |-> Cardinality(run'.pending),
                tally |-> Nothing]

ReconcileCounts ==
  \/ \E b \in Bodies : \/ ReconcileGated(b) /\ Count({"reconciled_gated"})
                       \/ ReconcilePost(b) /\ UNCHANGED report
  \/ ReconcileEnds /\ report' = [report EXCEPT !.rows = Cardinality(rows)]
  \/ ReconcileAccepted /\ Count({"reconciled_committed"})
  \/ /\ ReconcileReleases
     /\ Count(IF run.answer = "signing" THEN {"reconciled_unsigned", "unsigned"}
                                        ELSE {"reconciled_released"})
  \/ ReconcileKeeps /\ Count({"reconciled_pending"})

(* Variant: a body the reconcile pass owns is counted nowhere. *)
OnlyDuplicates(b) == IF mark[b] = "committed" THEN {"polled", "duplicates"} ELSE {"polled"}

Marked(b) == {"polled", IF mark[b] = "committed" THEN "duplicates" ELSE "retried"}

PollCounts(c) ==
  \/ Skip(c) /\ Count({IF gate[c] > run.tick THEN "gated" ELSE "skipped"})
  \/ \E action \in {"retry", "backoff", "drop"} :
       PollDefers(c, action) /\ CountByEffect(c, action, {"polled"})
  \/ \E x \in Commitments : PollRetires(c, x) /\ CountByEffect(c, "retry", {"polled"})
  \/ \E b \in Bodies : \/ PollSubmitsMarked(c, b) /\ Count(Marked(b))
                       \/ PollSubmits(c, b) /\ Count({"polled"})

SubmitCounts ==
  \/ SubmitAccepted /\ Count({"submitted"})
  \/ SubmitSigning /\ Count({"unsigned"})
  \/ SubmitRefused /\ UNCHANGED report
  \/ ApplyAction /\ CountByEffect(run.for, Policy[run.answer], {})

Return == ReturnReport /\ report' = [report EXCEPT !.done = TRUE]

ReportNext ==
  \/ Begin
  \/ ReconcileCounts
  \/ \E c \in Commitments : PollCounts(c)
  \/ SubmitCounts
  \/ Return
  \/ Abort /\ report' = [report EXCEPT !.tally = Nothing, !.rows = 0, !.stranded = 0]
  \/ (VenueStep \/ Advance) /\ UNCHANGED report

ReportSpec == ReportInit /\ [][ReportNext]_reportVars

-----------------------------------------------------------------------------
(* Properties *)

(* keeper.rs:290-343: a report that is returned accounts for everything the *)
(* run had before it, once: each commitment is polled, gated or skipped,    *)
(* each polled one is submitted, a duplicate, retried, dropped or its       *)
(* transaction surfaced, and each reservation has its outcome unless the    *)
(* budget ran out first. What is under way between two counts (a body that  *)
(* is refused before its action is applied) is in no returned report.       *)
ReportAddsUp ==
  report.done =>
    LET n      == report.tally
        tried  == n.reconciled_committed + n.reconciled_released
                    + n.reconciled_pending + n.reconciled_unsigned
    IN  /\ report.rows = n.polled + n.gated + n.skipped
        /\ n.polled = n.submitted + n.duplicates + n.retried + n.dropped
                        + (n.unsigned - n.reconciled_unsigned)
        /\ tried <= Budget
        /\ tried + n.reconciled_gated <= report.stranded
        /\ tried < Budget => tried + n.reconciled_gated = report.stranded

=============================================================================
