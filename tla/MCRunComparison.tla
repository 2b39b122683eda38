-------------------------- MODULE MCRunComparison --------------------------
(* Three experiments of two cases; a baseline manifest and what may differ. *)
EXTENDS RunComparison, TLC

CONSTANTS r1, r2, r3, accuracy, recall

MCRuns == <<r1, r2, r3>>
MCSlots == <<(<<"case", 1>>), <<"case", 2>>>>
MCMetricIds == {accuracy, recall}

Seen(h) == [status |-> "observed", hits |-> h, of |-> 1]
Not(status) == [status |-> status, hits |-> 0, of |-> 1]

MCCaseMetrics ==
    {accuracy :> Seen(1) @@ recall :> Seen(1), accuracy :> Not("needs_review") @@ recall :> Seen(0)}

Base ==
    [native |-> FALSE, task |-> "bundle", system |-> "system", build |-> "build",
     models |-> "weights", tracked |-> TRUE,
     effective |-> <<"query">> :> 5,
     config |-> <<"comparison_spec_digest">> :> "registered" @@ <<"model_lock_digest">> :> "lock"
                @@ <<"adapter", "chunk">> :> 1 @@ <<"query", "k">> :> 5]

MCProfiles ==
    {Base, [Base EXCEPT !.config[<<"adapter", "chunk">>] = 2],
     [Base EXCEPT !.config = @ @@ <<"query", "rerank">> :> 1],
     [Base EXCEPT !.effective[<<"query">>] = 6]}

MCSpecs ==
    LET spec == [name |-> "registered", tier |-> "strict_controlled", experiments |-> {r1, r2, r3},
                 controlled |-> {<<"query">>}, treatment |-> {<<"adapter">>},
                 primary |-> {accuracy}, coverage |-> <<1, 1>>, lock |-> "lock"]
    IN  {spec, [spec EXCEPT !.experiments = {r1, r2}, !.coverage = <<1, 2>>, !.primary = {accuracy, recall}]}
=============================================================================
