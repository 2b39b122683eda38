-------------------------- MODULE RetrievalMetrics --------------------------
(***************************************************************************)
(* The retrieval metrics of one stage (rag_eval/evaluation/metrics.py) over*)
(* the status of every Gold object.  An evidence set is a sequence of      *)
(* alternative paths, a path a sequence of clauses, and a clause a set of  *)
(* Golds any one of which satisfies it.  The contract admits no empty path *)
(* and no empty clause.  A rank is 0 where the code has None.              *)
(* Abstracted: quotients (hits and clauses are kept), scorer identities.   *)
(***************************************************************************)
EXTENDS Integers, FiniteSets, SequencesExt

ClauseRank(loc, clause) ==
    LET ranks == {loc[g].rank : g \in {h \in clause : loc[h].status = "matched"}}
    IN  IF ranks = {} THEN 0 ELSE Min(ranks)

HitClauses(loc, path) == {i \in DOMAIN path : ClauseRank(loc, path[i]) # 0}

IsComplete(loc, path) == HitClauses(loc, path) = DOMAIN path

CompletePath(loc, paths) == \E i \in DOMAIN paths : IsComplete(loc, paths[i])

(* Mutated form: an undecided clause hides the stage although another path *)
(* is complete.                                                            *)
UnobservableAnywhere(loc, paths) ==
    \E i \in DOMAIN paths : \E c \in DOMAIN paths[i] :
        /\ ClauseRank(loc, paths[i][c]) = 0
        /\ \E g \in paths[i][c] : loc[g].status = "provenance_missing"

\* evidence_observability: no path is complete and provenance leaves one of
\* the open clauses undecided.
Unobservable(loc, paths) ==
    /\ ~ CompletePath(loc, paths)
    /\ \E i \in DOMAIN paths : \E c \in DOMAIN paths[i] :
          /\ ClauseRank(loc, paths[i][c]) = 0
          /\ \E g \in paths[i][c] : loc[g].status = "provenance_missing"

\* The rank that completes the clauses a path hits.  It is compared between
\* paths that hit the same share: what it is of a path that hits none is the
\* same for all of them.
LastRank(loc, path) ==
    LET ranks == {ClauseRank(loc, path[i]) : i \in HitClauses(loc, path)}
    IN  IF ranks = {} THEN 0 ELSE Max(ranks)

\* Complete paths first, then the share of hit clauses, then the earliest
\* rank, then the shorter path, then the first one.
Better(loc, p, q, rank) ==
    LET hits(x) == Cardinality(HitClauses(loc, x))
        left    == hits(p) * Len(q)
        right   == hits(q) * Len(p)
    IN  \/ left > right
        \/ /\ left = right
           /\ \/ rank[p] < rank[q]
              \/ rank[p] = rank[q] /\ Len(p) < Len(q)

BestBy(loc, paths, rank) ==
    CHOOSE i \in DOMAIN paths :
        /\ \A j \in DOMAIN paths : ~ Better(loc, paths[j], paths[i], rank)
        /\ \A j \in 1..(i - 1) : Better(loc, paths[i], paths[j], rank)

BestPath(loc, paths) == BestBy(loc, paths, [p \in ToSet(paths) |-> LastRank(loc, p)])

Observed(hits, of) == [status |-> "observed", hits |-> hits, of |-> of]
Unavailable        == [status |-> "unavailable", hits |-> 0, of |-> 1]

\* {stage}_recall@k over the localization of the items up to rank k.
Recall(loc, paths) ==
    LET best == paths[BestPath(loc, paths)]
    IN  IF Unobservable(loc, paths) THEN Unavailable
        ELSE Observed(Cardinality(HitClauses(loc, best)), Len(best))

\* {stage}_mrr as the rank whose reciprocal it is, 0 for the value 0.
FirstRank(loc, paths) ==
    LET last == {LastRank(loc, paths[i]) : i \in {j \in DOMAIN paths : IsComplete(loc, paths[j])}}
    IN  IF Unobservable(loc, paths) THEN Unavailable
        ELSE Observed(IF last = {} THEN 0 ELSE Min(last), 1)

\* retrieval_stage_delta@k and context_selection_loss@k.
Difference(left, right) ==
    IF "unavailable" \in {left.status, right.status} THEN Unavailable
    ELSE Observed(left.hits * right.of - right.hits * left.of, left.of * right.of)

\* _best_clause_status and the counts of _localization_metrics.
ClauseStatus(loc, clause) ==
    LET found == {loc[g].status : g \in clause}
    IN  IF "matched" \in found THEN "matched"
        ELSE IF "partial" \in found THEN "partial"
        ELSE IF "provenance_missing" \in found THEN "provenance_missing"
        ELSE "retrieval_missed"

StatusCount(loc, paths, status) ==
    LET best == paths[BestPath(loc, paths)]
    IN  Cardinality({i \in DOMAIN best : ClauseStatus(loc, best[i]) = status})
=============================================================================
