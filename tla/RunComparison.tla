--------------------------- MODULE RunComparison ---------------------------
(***************************************************************************)
(* Runs are evaluated one after the other, their cases aggregated into a   *)
(* summary (execution.py), and finished runs compared (comparison.py,      *)
(* statistics.py).  A run is scored over slots, the pairs of a case and a  *)
(* repetition in execution order; the repetition stands for its seed, for  *)
(* the seeds follow from the seed that case_selection_id pins.             *)
(*                                                                         *)
(* A profile is what a manifest says of its run.  Config paths are         *)
(* sequences; the digests of the spec and of the locks are entries of the  *)
(* declared config.  Abstracted: values of metrics beyond their quotient,  *)
(* the weights and the resampling of the bootstrap.                        *)
(***************************************************************************)
EXTENDS Integers, Sequences, FiniteSets, FiniteSetsExt, SequencesExt

CONSTANTS Runs,         \* the queue of experiments, a sequence of names
          Slots,        \* <<case, repetition>> in execution order
          CaseMetrics,  \* what a case may record: [metric id -> [status, hits, of]]
          MetricIds,
          Profiles,     \* manifests: [native, task, config, effective, models, build, tracked]
          Specs,        \* ComparisonSpecs
          MaxStopped,   \* bound: runs that fail or are cancelled
          Absent

ASSUME ComparisonAssumption ==
    /\ Runs \in Seq(ToSet(Runs)) /\ Slots \in Seq(ToSet(Slots))
    /\ Len(Slots) > 0 /\ MaxStopped \in Nat
    /\ \A m \in CaseMetrics : DOMAIN m \subseteq MetricIds
    /\ \A s \in Specs : /\ s.controlled \cap s.treatment = {}
                        /\ s.tier = "strict_controlled" => s.controlled # {} /\ s.primary # {}

VARIABLES manifest,  \* [run -> profile with its status]
          results,   \* [run -> the metrics of the slots scored so far]
          summary,   \* [run -> aggregate, Absent before the run is sealed]
          decision   \* the ComparisonDecision just returned, or Absent

comparisonVars == <<manifest, results, summary, decision>>

Started == {r \in ToSet(Runs) : manifest[r] # Absent}
Stopped == {r \in Started : manifest[r].status \in {"failed", "cancelled"}}
Current == {r \in Started : manifest[r].status = "running"}

-----------------------------------------------------------------------------
\* aggregate_metrics

Recorded(cases, id, status) == {i \in DOMAIN cases : id \in DOMAIN cases[i] /\ cases[i][id].status = status}

\* Only a metric that some case recorded has an entry.
AggregateStatus(cases, id) ==
    IF Recorded(cases, id, "observed") # {} THEN "observed"
    ELSE IF Recorded(cases, id, "needs_review") # {} THEN "needs_review"
    ELSE IF Recorded(cases, id, "not_applicable") # {} THEN "not_applicable"
    ELSE IF Recorded(cases, id, "error") # {} THEN "error"
    ELSE "unavailable"

\* The coverage of an entry is covered/of, of being the expected cases.
AggregateMetrics(cases) ==
    [id \in UNION {DOMAIN cases[i] : i \in DOMAIN cases} |->
        [status  |-> AggregateStatus(cases, id),
         covered |-> Cardinality(Recorded(cases, id, "observed")),
         of      |-> Len(Slots)]]

-----------------------------------------------------------------------------
\* The executor

ComparisonInit ==
    /\ manifest = [r \in ToSet(Runs) |-> Absent]
    /\ results = [r \in ToSet(Runs) |-> <<>>]
    /\ summary = [r \in ToSet(Runs) |-> Absent]
    /\ decision = Absent

\* The dispatcher takes the next experiment when no run is under way.
StartRun ==
    /\ Current = {} /\ Cardinality(Started) < Len(Runs)
    /\ \E p \in Profiles :
          manifest' = [manifest EXCEPT ![Runs[Cardinality(Started) + 1]] = [status |-> "running", profile |-> p]]
    /\ decision' = Absent
    /\ UNCHANGED <<results, summary>>

ScoreSlot(r) ==
    /\ Len(results[r]) < Len(Slots)
    /\ \E m \in CaseMetrics : results' = [results EXCEPT ![r] = Append(@, m)]
    /\ decision' = Absent
    /\ UNCHANGED <<manifest, summary>>

\* A run is completed after its last slot and cancelled before any; both are
\* summarised over the slots they scored.
SealRun(r) ==
    /\ \E status \in {"completed", "cancelled"} :
          /\ status = "completed" => Len(results[r]) = Len(Slots)
          /\ status = "cancelled" => Cardinality(Stopped) < MaxStopped
          /\ manifest' = [manifest EXCEPT ![r].status = status]
    /\ summary' = [summary EXCEPT ![r] = AggregateMetrics(results[r])]
    /\ decision' = Absent
    /\ UNCHANGED <<results>>

\* An exception leaves the manifest failed; history summarises its cases.
FailRun(r) ==
    /\ Cardinality(Stopped) < MaxStopped
    /\ manifest' = [manifest EXCEPT ![r].status = "failed"]
    /\ summary' = [summary EXCEPT ![r] = AggregateMetrics(results[r])]
    /\ decision' = Absent
    /\ UNCHANGED <<results>>

-----------------------------------------------------------------------------
\* validate_comparison of a sequence of runs

Differ(values) == Cardinality(values) > 1

Profile(r) == manifest[r].profile

BaseReasons(runs) ==
    {r \in {"status"} : \E x \in ToSet(runs) : manifest[x].status # "completed"}
    \cup {r \in {"native"} : \E x \in ToSet(runs) : Profile(x).native}
    \cup {r \in {"task"} : Differ({Profile(x).task : x \in ToSet(runs)})}

Under(path, factor) == IsPrefix(factor, path)

(* Mutated form: only the first two runs are compared.                     *)
DriftOfPair(runs, spec) ==
    LET base == Profile(runs[1]).config
        next == Profile(runs[2]).config
        at(config, path) == IF path \in DOMAIN config THEN config[path] ELSE Absent
    IN  {path \in DOMAIN base \cup DOMAIN next :
            /\ at(base, path) # at(next, path)
            /\ \A factor \in spec.treatment : ~ Under(path, factor)}

\* _undeclared_treatment_reasons: the first run is the baseline.
Drift(runs, spec) ==
    LET base == Profile(runs[1]).config
        paths(x) == DOMAIN base \cup DOMAIN Profile(x).config
        at(config, path) == IF path \in DOMAIN config THEN config[path] ELSE Absent
    IN  {path \in UNION {paths(x) : x \in ToSet(runs)} :
            /\ \E x \in ToSet(runs) : at(base, path) # at(Profile(x).config, path)
            /\ \A factor \in spec.treatment : ~ Under(path, factor)}

\* What a strict comparison asks beyond the factors.
StrictReasons(runs, spec) ==
    {r \in {"spec"} : \E x \in ToSet(runs) : Profile(x).config[<<"comparison_spec_digest">>] # spec.name}
    \cup {r \in {"drift"} : Drift(runs, spec) # {}}
    \cup {r \in {"untracked"} : \E x \in ToSet(runs) : ~ Profile(x).tracked}
    \cup {r \in {"models"} : \/ \E x \in ToSet(runs) : Profile(x).models \in {Absent, "unverified"}
                             \/ Differ({Profile(x).models : x \in ToSet(runs)})}
    \cup {r \in {"lock"} : \E x \in ToSet(runs) : Profile(x).config[<<"model_lock_digest">>] # spec.lock}
    \cup {r \in {"build"} : /\ ~ Differ({Profile(x).system : x \in ToSet(runs)})
                            /\ Differ({Profile(x).build : x \in ToSet(runs)})}

SpecReasons(runs, requested, spec) ==
    {r \in {"tier"} : spec.tier # requested}
    \cup {r \in {"experiments"} : spec.experiments # ToSet(runs)}
    \cup {r \in {"controlled"} : \E f \in spec.controlled :
             \/ \E x \in ToSet(runs) : f \notin DOMAIN Profile(x).effective
             \/ Differ({Profile(x).effective[f] : x \in ToSet(runs)})}
    \cup (IF requested = "strict_controlled" THEN StrictReasons(runs, spec) ELSE {})

Reasons(runs, requested, spec) ==
    BaseReasons(runs)
    \cup (IF spec # Absent THEN SpecReasons(runs, requested, spec)
          ELSE {r \in {"no spec"} : requested = "strict_controlled"})

\* _metric_decisions: a metric is decided when some run has an entry for it.
Decided(runs) == UNION {DOMAIN summary[x] : x \in ToSet(runs)}

(* Mutated form: an observed metric is enough, whatever its coverage.      *)
SufficientByStatus(x, id, spec) ==
    id \in DOMAIN summary[x] /\ summary[x][id].status = "observed"

Sufficient(x, id, spec) ==
    LET least == IF spec = Absent THEN <<1, 1>> ELSE spec.coverage
    IN  /\ id \in DOMAIN summary[x]
        /\ summary[x][id].status = "observed"
        /\ summary[x][id].covered * least[2] >= least[1] * summary[x][id].of

Comparable(runs, spec, reasons) ==
    IF reasons # {} THEN {}
    ELSE {id \in Decided(runs) : \A x \in ToSet(runs) : Sufficient(x, id, spec)}

\* A winner may be declared when every decided primary metric is comparable.
ValidateComparison(runs, requested, spec) ==
    LET reasons == Reasons(runs, requested, spec)
        primary == IF spec = Absent THEN {} ELSE spec.primary \cap Decided(runs)
    IN  IF Len(runs) < 2
        THEN [runs |-> runs, spec |-> spec, tier |-> requested, compatible |-> FALSE,
              winner |-> FALSE, comparable |-> {}]
        ELSE [runs |-> runs, spec |-> spec, tier |-> requested,
              compatible |-> requested = "exploratory" \/ reasons = {},
              winner |-> /\ reasons = {} /\ requested = "strict_controlled"
                         /\ primary # {} /\ primary \subseteq Comparable(runs, spec, reasons),
              comparable |-> Comparable(runs, spec, reasons)]

Tiers == {"exploratory", "task_comparable", "strict_controlled"}

\* A user compares runs of the history.  The last run is among them: without
\* it the same decision was possible before that run was started.  They are
\* picked in the order they ran: profiles and outcomes are drawn freely, so
\* that another order is the same comparison of other runs.
Before(left, right) ==
    \E i, j \in DOMAIN Runs : i < j /\ Runs[i] = left /\ Runs[j] = right

Selections ==
    {runs \in UNION {[1..n -> Started] : n \in 0..Len(Runs)} :
        /\ \A i, j \in DOMAIN runs : i < j => Before(runs[i], runs[j])
        /\ Started # {} => Runs[Cardinality(Started)] \in ToSet(runs)}

Compare ==
    /\ Current = {} /\ decision = Absent
    /\ \E runs \in Selections, tier \in Tiers, spec \in Specs \cup {Absent} :
          decision' = ValidateComparison(runs, tier, spec)
    /\ UNCHANGED <<manifest, results, summary>>

ComparisonNext ==
    \/ StartRun
    \/ \E r \in Current : ScoreSlot(r) \/ SealRun(r) \/ FailRun(r)
    \/ Compare

ComparisonSpec == ComparisonInit /\ [][ComparisonNext]_comparisonVars

-----------------------------------------------------------------------------
\* statistics.py: the paired analysis of a metric over two runs.

Observations(r, id) == {Slots[i] : i \in Recorded(results[r], id, "observed")}

\* case_mean_deltas raises unless both have the same cases with the same seeds.
PairedAnalysisRaises(left, right, id) ==
    \/ {s[1] : s \in Observations(left, id)} # {s[1] : s \in Observations(right, id)}
    \/ Observations(left, id) # Observations(right, id)
    \/ Observations(left, id) = {}

Declared == decision # Absent /\ decision.winner

(* WinnerIsPaired: where a winner may be declared at full coverage, every   *)
(* decided primary metric was observed in every case and repetition of      *)
(* every run, so the paired analysis of any two of them has its pairs.      *)
WinnerIsPaired ==
    Declared /\ decision.spec.coverage = <<1, 1>> =>
        \A id \in decision.spec.primary \cap Decided(decision.runs),
           left, right \in ToSet(decision.runs) :
              /\ Observations(left, id) = ToSet(Slots)
              /\ ~ PairedAnalysisRaises(left, right, id)

(* WinnerIsTreatment: any two runs of a declared comparison, not just the   *)
(* first and another, differ in their declared config by treatment factors *)
(* only, ran to the end, and agree on the controls they really applied.     *)
WinnerIsTreatment ==
    Declared =>
        \A left, right \in ToSet(decision.runs) :
            /\ manifest[left].status = "completed"
            /\ Drift(<<left, right>>, decision.spec) = {}
            /\ \A f \in decision.spec.controlled :
                  Profile(left).effective[f] = Profile(right).effective[f]
            /\ Profile(left).models = Profile(right).models
=============================================================================
