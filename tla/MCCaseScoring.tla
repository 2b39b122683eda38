--------------------------- MODULE MCCaseScoring ---------------------------
(* Three Golds, a path of two clauses and a path with alternatives; lists of *)
(* up to three chunks.                                                      *)
EXTENDS CaseScoring

CONSTANTS a, b, c, stranger

MCGolds == {a, b, c}
MCPaths == <<(<<{a}, {b}>>), <<{b, c}, {a, c}, {c}>>>>
MCKnown == MCGolds

Loc(x, y, z) ==
    LET one(s, r) == [status |-> s, rank |-> IF s = "retrieval_missed" THEN 0 ELSE r]
    IN  a :> one(x, 2) @@ b :> one(y, 1) @@ c :> one(z, 3)

MCStageValues ==
    {None, [empty |-> TRUE, loc |-> Loc("retrieval_missed", "retrieval_missed", "retrieval_missed")]}
    \cup {[empty |-> FALSE, loc |-> Loc(x, y, z)] :
             x \in Localizations, y, z \in {"matched", "retrieval_missed"}}

Hit(chunk, rank, segs) == [chunk |-> chunk, rank |-> rank, segs |-> segs, receipt |-> TRUE]
Seen(items) == [status |-> "observed", pinned |-> TRUE, items |-> items]
Unseen(status) == [status |-> status, pinned |-> FALSE, items |-> {}]

MCTraceValues ==
    {Unseen(s) : s \in {"unsupported_stage", "runtime_error", "mapping_corrupted"}}
    \cup {Seen({}), [Seen({}) EXCEPT !.pinned = FALSE],
          Seen({[Hit(1, 1, {a}) EXCEPT !.receipt = FALSE]}),
          Seen({Hit(1, 1, {a}), Hit(1, 2, {b})}),
          Seen({Hit(1, 1, {a, b})}),
          Seen({Hit(1, 1, {stranger})}),
          Seen({Hit(1, 1, {b})}),
          Seen({Hit(1, 1, {c}), Hit(2, 2, {b})}),
          Seen({Hit(1, 1, {b}), Hit(2, 3, {a})}),
          Seen({Hit(1, 1, {a}), Hit(2, 2, {a}), Hit(3, 3, {b})}),
          Seen({Hit(1, 2, {b}), Hit(2, 1, {a})})}
=============================================================================
