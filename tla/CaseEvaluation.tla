--------------------------- MODULE CaseEvaluation ---------------------------
(***************************************************************************)
(* What one evaluated case records: its metrics and its failure            *)
(* assessment.  A case of a legacy bundle is scored by strict localization *)
(* (evaluation/engine.py, failures.py), one of a benchmark contract by the *)
(* segments its chunks name (segment_metrics.py, segment_answers.py).      *)
(*                                                                         *)
(* A metric is a status with a quotient hits/of, its id a pair such as     *)
(* <<"raw", "recall">>.  Abstracted: scorer identities, reasons, and the   *)
(* grammar of answers (score_answer gives one of its three verdicts).      *)
(* Bound: a strict list is not longer than its largest cutoff, so recall@k *)
(* and the localization of the whole list agree.                           *)
(***************************************************************************)
EXTENDS RetrievalMetrics

CONSTANTS Golds,   \* Gold evidence, and the segments that are its alternatives
          Paths,   \* the evidence set
          Cutoffs, \* the k values of segment metrics
          None     \* a stage the adapter does not show

ASSUME EvaluationAssumption ==
    /\ Cutoffs \subseteq Nat \ {0} /\ Cutoffs # {}
    /\ Paths \in Seq(Seq((SUBSET Golds) \ {{}}) \ {<<>>}) \ {<<>>}

Stages == {"raw", "ranked", "context"}

Status(s)     == [status |-> s, hits |-> 0, of |-> 1]
NotApplicable == Status("not_applicable")
NeedsReview   == Status("needs_review")
ErrorMetric   == Status("error")

Positive(m) == m.status = "observed" /\ m.hits > 0
Whole(m)    == m.status = "observed" /\ m.hits = m.of

\* Metrics beside each other, by their ids.
f ++ g == [id \in DOMAIN f \cup DOMAIN g |-> IF id \in DOMAIN f THEN f[id] ELSE g[id]]

-----------------------------------------------------------------------------
\* Strict localization.  A shown stage is [empty, loc]: whether the list is
\* empty, and the status of every Gold object in it.

Completed(stage) == stage # None /\ CompletePath(stage.loc, Paths)

Undecided(stage) == stage # None /\ Unobservable(stage.loc, Paths)

Localizations == {"matched", "partial", "provenance_missing", "retrieval_missed"}

\* evaluate_stage; the context has no mrr.
StageMetrics(name, stage) ==
    LET ids == {"recall"} \cup (IF name = "context" THEN {} ELSE {"mrr"})
    IN  IF stage = None THEN [id \in {name} \X ids |-> Unavailable]
        ELSE [id \in {name} \X ids |->
                 IF id[2] = "recall" THEN Recall(stage.loc, Paths) ELSE FirstRank(stage.loc, Paths)]
             ++ [id \in {name} \X Localizations |->
                    Observed(StatusCount(stage.loc, Paths, id[2]),
                             Len(Paths[BestPath(stage.loc, Paths)]))]

\* evaluate_retrieval_stages.
RetrievalStages(result) ==
    LET raw     == StageMetrics("raw", result.raw)
        ranked  == StageMetrics("ranked", result.ranked)
        context == StageMetrics("context", result.context)
    IN  raw ++ ranked ++ context
        ++ [id \in {<<"ranked", "delta">>, <<"context", "loss">>} |->
               Difference(ranked[<<"ranked", "recall">>],
                          IF id[1] = "ranked" THEN raw[<<"raw", "recall">>]
                          ELSE context[<<"context", "recall">>])]

AnswerIds == {<<"answer", "accuracy">>, <<"answer", "grounded">>, <<"answer", "unsupported">>}

Accuracy(verdict) ==
    CASE verdict = "pass" -> Observed(1, 1)
      [] verdict = "fail" -> Observed(0, 1)
      [] OTHER            -> NeedsReview

\* The answer half of evaluate_case.
AnswerMetrics(result) ==
    LET decided == result.context # None /\ ~ Undecided(result.context)
        grounded    == IF ~ decided THEN Unavailable
                       ELSE Observed(IF Completed(result.context) THEN 1 ELSE 0, 1)
        unsupported == IF decided /\ Completed(result.context) /\ result.verdict = "pass"
                       THEN Observed(0, 1) ELSE NeedsReview
    IN  IF ~ result.wanted THEN [id \in AnswerIds |-> NotApplicable]
        ELSE [id \in AnswerIds |->
                 CASE id[2] = "accuracy"    -> Accuracy(result.verdict)
                   [] id[2] = "grounded"    -> grounded
                   [] id[2] = "unsupported" -> unsupported]

EvaluateCase(result) == RetrievalStages(result) ++ AnswerMetrics(result)

\* assess_failure for a query that answered.
AssessLabels(result, metrics) ==
    LET grounded == metrics[<<"answer", "grounded">>]
        accuracy == metrics[<<"answer", "accuracy">>]
        lost(from, to) == /\ from # None /\ to # None
                          /\ ~ Undecided(to) /\ Completed(from) /\ ~ Completed(to)
        blind == \/ Undecided(result.raw)
                 \/ result.raw # None /\ Undecided(result.ranked)
                 \/ result.ranked # None /\ Undecided(result.context)
        holds ==
            [provenance_unavailable |-> blind,
             retrieval_missing |-> result.raw # None /\ ~ Undecided(result.raw)
                                   /\ ~ Completed(result.raw),
             ranking_failure |-> lost(result.raw, result.ranked),
             context_selection_loss |-> lost(result.ranked, result.context),
             generation_failure |-> Completed(result.context)
                                    /\ accuracy.status = "observed" /\ accuracy.hits = 0,
             unsupported_answer |-> result.context # None /\ result.context.empty
                                    /\ grounded.status = "observed" /\ grounded.hits = 0,
             needs_review |-> \/ blind
                              \/ None \in {result.raw, result.ranked, result.context}
                              \/ \E id \in DOMAIN metrics : metrics[id].status = "needs_review"]
    IN  {l \in DOMAIN holds : holds[l]}

Certainty(labels) == IF "needs_review" \in labels THEN "unknown" ELSE "deterministic"

\* failed_case: every metric is an error, or not applicable to a run without
\* answers; assess_failure names a timeout and an error, and leaves a
\* cancellation to a review.
FailedMetrics(wanted) ==
    [id \in (Stages \X {"recall"}) \cup ({"raw", "ranked"} \X {"mrr"})
            \cup {<<"ranked", "delta">>, <<"context", "loss">>} |-> ErrorMetric]
    ++ [id \in AnswerIds |-> IF wanted THEN ErrorMetric ELSE NotApplicable]

FailedLabels(status) ==
    CASE status = "timeout"      -> {"timeout"}
      [] status = "system_error" -> {"adapter_error"}
      [] OTHER                   -> {"needs_review"}

-----------------------------------------------------------------------------
\* Segments.  A trace stage is [status, pinned, items]; an item names a chunk,
\* its rank, its segments and whether the receipt it carries is the right one.

\* _validate_observed_stage; segments outside Golds are unknown.
Corrupted(stage, known) ==
    \/ ~ stage.pinned
    \/ \E i, j \in stage.items : i # j /\ i.chunk = j.chunk
    \/ \E i \in stage.items : ~ (i.segs \subseteq known) \/ ~ i.receipt

Strict(stage) == \A i \in stage.items : Cardinality(i.segs) = 1

\* _rank_map, in the form the metrics of a localization take.
RankMap(items) ==
    [g \in Golds |->
        LET ranks == {i.rank : i \in {j \in items : j.segs = {g}}}
        IN  IF ranks = {} THEN [status |-> "retrieval_missed", rank |-> 0]
                          ELSE [status |-> "matched", rank |-> Min(ranks)]]

(* Mutated form: the cutoff itself is left out.                            *)
Below(stage, k) == {i \in stage.items : i.rank < k}

UpTo(stage, k) == {i \in stage.items : i.rank <= k}

\* _best_path_coverage: an incomplete path has no completion rank.
CompletionRank(loc, path) == IF IsComplete(loc, path) THEN LastRank(loc, path) ELSE 0

Coverage(loc) ==
    LET rank == [p \in ToSet(Paths) |-> CompletionRank(loc, p)]
        best == Paths[BestBy(loc, Paths, rank)]
    IN  [hits |-> Cardinality(HitClauses(loc, best)), of |-> Len(best),
         rank |-> IF IsComplete(loc, best) THEN LastRank(loc, best) ELSE 0]

\* The outcome evaluate_segment_stage gives a stage.
Outcome(stage, abstain, known) ==
    LET whole == Coverage(RankMap(stage.items))
    IN  IF abstain THEN "not_applicable"
        ELSE IF stage.status # "observed" THEN stage.status
        ELSE IF Corrupted(stage, known) THEN "mapping_corrupted"
        ELSE IF ~ Strict(stage) THEN "unsupported_stage"
        ELSE IF whole.rank # 0 THEN "complete"
        ELSE IF whole.hits # 0 THEN "partial_coverage"
        ELSE "retrieval_missing"

Scored == {"complete", "partial_coverage", "retrieval_missing"}

\* _non_observed_metrics gives every metric of the stage one status.
Unscored(outcome) ==
    IF outcome \in {"runtime_error", "mapping_corrupted"} THEN ErrorMetric ELSE NotApplicable

SegmentStageMetrics(name, stage, outcome) ==
    LET at(k) == Coverage(RankMap(UpTo(stage, k)))
        ids   == {name} \X {"recall", "complete"} \X Cutoffs
        mrr   == IF name = "context" THEN {} ELSE {<<name, "mrr">>}
    IN  IF outcome \notin Scored THEN [id \in ids \cup mrr |-> Unscored(outcome)]
        ELSE [id \in ids |->
                 IF id[2] = "recall" THEN Observed(at(id[3]).hits, at(id[3]).of)
                 ELSE Observed(IF at(id[3]).rank # 0 THEN 1 ELSE 0, 1)]
             ++ [id \in mrr |-> Observed(Coverage(RankMap(stage.items)).rank, 1)]

\* _stage_loss is never negative.
StageLoss(left, right) ==
    LET lost == left.hits * right.of - right.hits * left.of
    IN  IF left.status # "observed" \/ right.status # "observed" THEN NotApplicable
        ELSE Observed(IF lost > 0 THEN lost ELSE 0, left.of * right.of)

Outcomes(result, known) ==
    [name \in Stages |-> Outcome(result[name], result.abstain, known)]

SegmentRetrieval(result, outcome) ==
    LET metrics(name) == SegmentStageMetrics(name, result[name], outcome[name])
        all == metrics("raw") ++ metrics("ranked") ++ metrics("context")
        before == [ranked |-> "raw", context |-> "ranked"]
    IN  all ++ [id \in {"ranked", "context"} \X {"loss"} \X Cutoffs |->
                   StageLoss(all[<<before[id[1]], "recall", id[3]>>],
                             all[<<id[1], "recall", id[3]>>])]

\* _grounding_metric.
Grounding(result, context) ==
    IF result.abstain THEN NotApplicable
    ELSE CASE context = "complete" -> Observed(1, 1)
           [] context \in {"partial_coverage", "retrieval_missing"} -> Observed(0, 1)
           [] context \in {"unsupported_stage", "not_applicable"} -> NotApplicable
           [] OTHER -> ErrorMetric

(* Mutated form: a complete context vouches for any answer.                *)
HallucinationByCoverage(result, context) ==
    IF context \in {"runtime_error", "mapping_corrupted"} THEN ErrorMetric
    ELSE IF result.blank \/ result.abstain \/ Whole(Grounding(result, context)) THEN Observed(0, 1)
    ELSE NeedsReview

\* _hallucination_metric.
Hallucination(result, context) ==
    LET earned == result.verdict = "pass" /\ (result.abstain \/ Whole(Grounding(result, context)))
    IN  IF context \in {"runtime_error", "mapping_corrupted"} THEN ErrorMetric
        ELSE IF result.blank \/ earned THEN Observed(0, 1)
        ELSE NeedsReview

\* evaluate_segment_answer.
SegmentAnswer(result, context) ==
    IF ~ result.wanted THEN [id \in AnswerIds |-> NotApplicable]
    ELSE [id \in AnswerIds |->
             CASE id[2] = "accuracy"    -> Accuracy(result.verdict)
               [] id[2] = "grounded"    -> Grounding(result, context)
               [] id[2] = "unsupported" -> Hallucination(result, context)]

\* assess_segment_failure.
SegmentLabels(outcome, metrics) ==
    LET reported == {"retrieval_missing", "partial_coverage", "unsupported_stage",
                     "runtime_error", "mapping_corrupted"}
        accuracy == metrics[<<"answer", "accuracy">>]
        holds ==
            [ranking_failure |-> outcome["raw"] = "complete" /\ outcome["ranked"] # "complete",
             context_selection_loss |-> outcome["ranked"] = "complete"
                                        /\ outcome["context"] # "complete",
             generation_failure |-> outcome["context"] = "complete"
                                    /\ accuracy.status = "observed" /\ accuracy.hits = 0,
             unsupported_answer |-> Positive(metrics[<<"answer", "unsupported">>]),
             needs_review |-> \E id \in AnswerIds : metrics[id].status = "needs_review"]
    IN  ({outcome[name] : name \in Stages} \cap reported)
        \cup {l \in DOMAIN holds : holds[l]}

\* failed_benchmark_case scores three failed stages and answers as errors.
FailedTrace == [status |-> "runtime_error", pinned |-> FALSE, items |-> {}]

FailedSegmentMetrics(wanted, abstain) ==
    LET result  == [raw |-> FailedTrace, ranked |-> FailedTrace, context |-> FailedTrace,
                    abstain |-> abstain]
    IN  SegmentRetrieval(result, Outcomes(result, {}))
        ++ [id \in AnswerIds |-> IF wanted THEN ErrorMetric ELSE NotApplicable]

FailedSegmentLabels(status) == IF status = "timeout" THEN {"timeout"} ELSE {"runtime_error"}
=============================================================================
