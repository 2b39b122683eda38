--------------------------- MODULE MCWorkerSession ---------------------------
EXTENDS WorkerSession

\* A paragraph cut in two leaves, and a table whose second row has no text
\* of its own.
Para == [id |-> "p", kind |-> "paragraph", table |-> "none", row |-> 0, col |-> 0,
         len |-> 3, stops |-> {2}, usable |-> TRUE, shows |-> {"p"}]
Cell(id, row, len) == [id |-> id, kind |-> "cell", table |-> "t", row |-> row, col |-> 1,
                       len |-> len, stops |-> {}, usable |-> TRUE, shows |-> {id}]
Row(id, row, len, shows) == [id |-> id, kind |-> "row", table |-> "t", row |-> row, col |-> 0,
                             len |-> len, stops |-> {}, usable |-> TRUE, shows |-> shows]
Table(len) == [id |-> "t", kind |-> "table", table |-> "t", row |-> 0, col |-> 0,
               len |-> len, stops |-> {}, usable |-> TRUE, shows |-> {}]

Object(id, witness) == [by |-> "object", obj |-> id, table |-> "none", row |-> 0, col |-> 0,
                        witness |-> witness]
Gold(evidence, paths) == [abstain |-> FALSE, evidence |-> evidence, paths |-> paths]

Span(from, to) == [from |-> from, to |-> to]

\* The witness straddles the cut.
SplitGold == Gold("e" :> Object("p", Span(1, 3)), << << {"e"} >> >>)
HalfGold == Gold("e" :> Object("p", Span(0, 1)), << << {"e"} >> >>)
EitherGold == Gold("e" :> Object("p", Span(0, 1)) @@ "f" :> Object("p", Span(2, 3)),
                   << << {"e", "f"} >> >>)
RowGold == Gold("e" :> Object("r2", NoWitness), << << {"e"} >> >>)
TableGold == Gold("e" :> Object("t", NoWitness), << << {"e"} >> >>)
CellGold == Gold("e" :> Object("c2", NoWitness), << << {"e"} >> >>)
NoGold == [abstain |-> TRUE, evidence |-> <<>>, paths |-> <<>>]

Rows == <<Table(3), Row("r1", 1, 1, {"r1", "c1"}), Cell("c1", 1, 1),
          Row("r2", 2, 0, {}), Cell("c2", 2, 1)>>

\* The second row's record is missing.
RowLost == <<Table(3), Row("r1", 1, 1, {"r1", "c1"}), Cell("c1", 1, 1), Cell("c2", 2, 1)>>

Setup(system, provider, corpus, doc, gold, cancellable) ==
    [adapter |-> system, provider |-> provider, corpus |-> corpus, doc |-> doc,
     gold |-> gold, cancellable |-> cancellable]

MCSetups ==
    {Setup("lightrag", "local", "benchmark", <<Para>>, g, FALSE) :
        g \in {SplitGold, HalfGold, EitherGold, NoGold}}
    \cup {Setup("lightrag", "docker", "canonical", Rows, g, FALSE) : g \in {RowGold, TableGold}}
    \cup {Setup("lightrag", "local", "canonical", RowLost, g, FALSE) : g \in {TableGold, CellGold}}
    \cup {Setup("lightrag", "local", "benchmark", <<[Para EXCEPT !.len = 2]>>, NoGold, TRUE)}
    \cup {Setup("raganything", "local", "source", <<Para, Para>>, NoGold, TRUE)}
    \cup {Setup("raganything", "docker", "benchmark", <<Para>>, SplitGold, TRUE)}

\* What the theorems say of the setups.
ASSUME MCDocumentsAreCanonical == \A s \in MCSetups : IsCanonical(s.doc)
ASSUME MCBenchmarksAreWitnessed ==
    \A s \in MCSetups : s.corpus = "benchmark" => IsDocument(s.doc) /\ IsWitnessed(s.doc, s.gold)

MCReplies == UNION {[1 .. n -> [chunk : 0 .. 2, same : BOOLEAN]] : n \in 0 .. 2}
=============================================================================
