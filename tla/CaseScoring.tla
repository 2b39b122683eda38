---------------------------- MODULE CaseScoring ----------------------------
(***************************************************************************)
(* One case of a run: the adapter's query answers or fails, and the case   *)
(* is scored and assessed (execution.py, execute_case and                  *)
(* execute_benchmark_case).  The metrics of a case and its failure labels  *)
(* are computed by different code from the same result; the properties     *)
(* relate the two.                                                         *)
(***************************************************************************)
EXTENDS CaseEvaluation

CONSTANTS StageValues,   \* strict stages: None or [empty, loc]
          TraceValues,   \* segment stages: [status, pinned, items]
          KnownSegments  \* segments of the benchmark dataset

\* Ranks count from one.
ASSUME RanksAssumption ==
    /\ \A s \in StageValues : s # None =>
          \A g \in Golds : s.loc[g].status = "matched" => s.loc[g].rank \in Nat \ {0}
    /\ \A s \in TraceValues : \A i \in s.items : i.rank \in Nat \ {0}

VARIABLES result,  \* the RAGResult of the query, None before it returns
          case     \* the CaseResult: kind, status, metrics, labels

vars == <<result, case>>

Verdicts == {"pass", "fail", "needs_review"}

Init ==
    /\ result = None
    /\ case = None

\* The adapter shows the stages it has; what it answers is scored later.
QueryStrict ==
    /\ result = None /\ case = None
    /\ \E raw, ranked, context \in StageValues, verdict \in Verdicts, wanted \in BOOLEAN :
          result' = [kind |-> "strict", raw |-> raw, ranked |-> ranked, context |-> context,
                     verdict |-> verdict, wanted |-> wanted]
    /\ UNCHANGED case

\* An empty answer never passes the rule of a positive Gold (score_answer).
QuerySegment ==
    /\ result = None /\ case = None
    /\ \E raw, ranked, context \in TraceValues, verdict \in Verdicts,
          wanted, blank, abstain \in BOOLEAN :
          /\ blank => verdict = "fail"
          /\ result' = [kind |-> "segment", raw |-> raw, ranked |-> ranked,
                        context |-> context, verdict |-> verdict, wanted |-> wanted,
                        blank |-> blank, abstain |-> abstain]
    /\ UNCHANGED case

ScoreStrict ==
    /\ result # None /\ case = None /\ result.kind = "strict"
    /\ LET metrics == EvaluateCase(result)
       IN  case' = [kind |-> "strict", status |-> "completed", metrics |-> metrics,
                    labels |-> AssessLabels(result, metrics)]
    /\ UNCHANGED result

ScoreSegment ==
    /\ result # None /\ case = None /\ result.kind = "segment"
    /\ LET outcome == Outcomes(result, KnownSegments)
           metrics == SegmentRetrieval(result, outcome) ++ SegmentAnswer(result, outcome["context"])
       IN  case' = [kind |-> "segment", status |-> "completed", metrics |-> metrics,
                    labels |-> SegmentLabels(outcome, metrics)]
    /\ UNCHANGED result

\* The query raises; a raise that follows a cancellation is one.
QueryFails ==
    /\ result = None /\ case = None
    /\ \E status \in {"timeout", "system_error", "cancelled"}, wanted, abstain \in BOOLEAN :
          case' \in {[kind |-> "strict", status |-> status, metrics |-> FailedMetrics(wanted),
                      labels |-> FailedLabels(status)],
                     [kind |-> "segment", status |-> status,
                      metrics |-> FailedSegmentMetrics(wanted, abstain),
                      labels |-> FailedSegmentLabels(status)]}
    /\ UNCHANGED result

Next == QueryStrict \/ QuerySegment \/ ScoreStrict \/ ScoreSegment \/ QueryFails

Spec == Init /\ [][Next]_vars

-----------------------------------------------------------------------------
Scoring(kind) == case # None /\ case.kind = kind /\ case.status = "completed"

Metric(id) == case.metrics[id]

(* BlameMatchesMetrics: failures.py and metrics.py tell one story.  A stage *)
(* is blamed for losing the evidence exactly when its difference metric is  *)
(* observed and negative from a whole stage before it, and retrieval        *)
(* exactly when its recall is observed and short; a verdict that needs no   *)
(* review has a stage to blame for a context that misses the evidence.      *)
BlameMatchesMetrics ==
    Scoring("strict") =>
        LET raw == Metric(<<"raw", "recall">>)
            ranked == Metric(<<"ranked", "recall">>)
            delta == Metric(<<"ranked", "delta">>)
            loss == Metric(<<"context", "loss">>)
        IN  /\ "retrieval_missing" \in case.labels
                 <=> raw.status = "observed" /\ ~ Whole(raw)
            /\ "ranking_failure" \in case.labels
                 <=> Whole(raw) /\ delta.status = "observed" /\ delta.hits < 0
            /\ "context_selection_loss" \in case.labels <=> Whole(ranked) /\ Positive(loss)
            /\ Certainty(case.labels) = "deterministic" /\ ~ Whole(Metric(<<"context", "recall">>))
                 => case.labels \cap {"retrieval_missing", "ranking_failure",
                                      "context_selection_loss"} # {}

(* SupportIsEarned: an answer is called free of unsupported claims only if  *)
(* the rule passed it on a context that completes the evidence (or it       *)
(* claims nothing), so never together with a generation failure or with a   *)
(* context nobody could judge.                                              *)
SupportIsEarned ==
    Scoring("strict") \/ Scoring("segment") =>
        LET support == Metric(<<"answer", "unsupported">>)
            quiet == result.kind = "segment" /\ (result.blank \/ result.abstain)
        IN  support.status = "observed" =>
              /\ ~ Positive(support)
              /\ \/ quiet
                 \/ /\ Whole(Metric(<<"answer", "accuracy">>))
                    /\ Whole(Metric(<<"answer", "grounded">>))
              /\ "generation_failure" \in case.labels => quiet

(* CutoffsAgree: the three segment metrics of a stage are three readings of *)
(* one list: recall never falls as k grows, it is whole exactly when the    *)
(* evidence is complete at k, and that is exactly when the rank behind the  *)
(* mrr is within k.                                                         *)
CutoffsAgree ==
    Scoring("segment") =>
        \A name \in {"raw", "ranked"}, k \in Cutoffs :
            LET recall(n) == Metric(<<name, "recall", n>>)
                first == Metric(<<name, "mrr">>)
            IN  first.status = "observed" =>
                  /\ Whole(recall(k)) <=> Whole(Metric(<<name, "complete", k>>))
                  /\ Whole(recall(k)) <=> first.hits \in 1..k
                  /\ \A n \in Cutoffs : n <= k =>
                        recall(n).hits * recall(k).of <= recall(k).hits * recall(n).of

=============================================================================
