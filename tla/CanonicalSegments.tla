-------------------------- MODULE CanonicalSegments --------------------------
(***************************************************************************)
(* The canonical segment corpus (rag_eval/datasets/canonical_segments.py): *)
(* complete paragraphs and table rows of a document, packed into batches   *)
(* of which each becomes one ingestion input, with typed edges from every  *)
(* segment to the canonical objects it holds.                              *)
(*                                                                         *)
(* Records are those of BenchmarkContract; shows names the objects whose   *)
(* text the record's own text shows.  A segment is                         *)
(*     [root, at, size, shows, full, partial]                              *)
(* with its place in document order, and the objects its edges hold fully  *)
(* and in part.                                                            *)
(***************************************************************************)
EXTENDS BenchmarkContract, SequencesExt

CONSTANT BatchRoom \* characters of one physical batch

Order(doc, id) == CHOOSE i \in DOMAIN doc : doc[i].id = id

Tables(doc) == {r \in Records(doc) : r.kind = "table" /\ r.usable}
RowsOf(doc, t) == {r \in Records(doc) : r.kind = "row" /\ r.table = t.id}
RowCells(doc, r) == {c \in Records(doc) : c.kind = "cell" /\ c.table = r.table /\ c.row = r.row}

Ids(records) == {r.id : r \in records}
Usable(records) == {r \in records : r.usable}
Length(records) == MapThenSumSet(LAMBDA r : r.len, records)
Shown(records) == UNION {r.shows : r \in records}

\* A row's own text, or the texts of its cells when it has none.
RowText(doc, r) ==
    IF r.len > 0 THEN [size |-> r.len, shows |-> r.shows]
    ELSE [size |-> Length(RowCells(doc, r)), shows |-> Shown(RowCells(doc, r))]

\* Rows are rendered below the text of the table's first row; an empty row
\* is left out.
RowSegments(doc, t) ==
    LET rows   == RowsOf(doc, t)
        header == CHOOSE r \in rows : \A o \in rows : r.row <= o.row
        text(r) == RowText(doc, r)
        above(r) == IF r = header THEN [size |-> 0, shows |-> {}]
                    ELSE [size |-> header.len, shows |-> header.shows]
    IN  {[root |-> r.id, at |-> Order(doc, r.id),
          size |-> text(r).size + above(r).size,
          shows |-> text(r).shows \cup above(r).shows,
          full |-> Ids(Usable(RowCells(doc, r) \cup {r})),
          partial |-> {t.id}] : r \in {x \in rows : text(x).size > 0}}

WholeSegment(doc, r) ==
    [root |-> r.id, at |-> Order(doc, r.id), size |-> r.len, shows |-> r.shows,
     full |-> {r.id}, partial |-> {}]

\* _document_projection; a table without rows is one segment.
Segments(doc) ==
    LET rowed == {t \in Tables(doc) : RowsOf(doc, t) # {}}
        alone == {r \in Usable(Records(doc)) : r.kind \in RootKinds} \cup (Tables(doc) \ rowed)
    IN  {WholeSegment(doc, r) : r \in {x \in alone : x.len > 0}}
        \cup UNION {RowSegments(doc, t) : t \in rowed}

\* _pack_document_segments: greedy, in document order, a segment never split.
\* begin[n] is the place of the first segment of the batch open at place n.
Batches(doc) ==
    LET segments == Segments(doc)
        upto(n) == {s \in segments : s.at <= n}
        size(from, n) == MapThenSumSet(LAMBDA s : s.size, {s \in upto(n) : from <= s.at})
        begin[n \in 0 .. Len(doc)] ==
            IF n = 0 THEN 1
            ELSE IF size(begin[n - 1], n) <= BatchRoom THEN begin[n - 1] ELSE n
        place(s) == Cardinality({begin[o.at] : o \in upto(s.at)})
    IN  [k \in 1 .. Cardinality({begin[s.at] : s \in segments}) |-> {s \in segments : place(s) = k}]

Mapped(doc) == UNION {s.full \cup s.partial : s \in Segments(doc)}

\* _catalog_evidence_item: a locator to a cell means the last one catalogued.
Catalogued(doc, e) ==
    LET found == {i \in DOMAIN doc : doc[i].id \in Candidates(doc, e)}
    IN  IF found = {} THEN {} ELSE {doc[Max(found)].id}

\* build_canonical_segment_manifest raises.
ManifestFails(doc, gold) ==
    \/ Segments(doc) = {}
    \/ \E s \in Segments(doc) : s.size > BatchRoom
    \/ \E g \in DOMAIN gold.evidence :
          Catalogued(doc, gold.evidence[g]) \cap Mapped(doc) = {}

-----------------------------------------------------------------------------
(* The acceptance gate (rag_eval/execution.py) over the stored segments.    *)

(* Mutated form: an edge to a part of the object is enough.                 *)
DeterministicAnyEdge(doc, e, stored) ==
    Catalogued(doc, e) \subseteq UNION {s.full \cup s.partial : s \in stored}

\* _gold_has_deterministic_canonical_mapping: a full edge to the object, or
\* to every cell of a table.
Deterministic(doc, e, stored) ==
    LET held  == UNION {s.full : s \in stored}
        table == e.by = "object" /\ RecordOf(doc, e.obj).kind = "table"
        cells == {c.id : c \in {r \in Records(doc) : r.kind = "cell" /\ r.table = e.obj}}
    IN  IF table THEN cells # {} /\ cells \subseteq held
        ELSE Candidates(doc, e) # {} /\ Candidates(doc, e) \subseteq held

(* A document as the canonicalizer leaves it: _canonical_records refuses a *)
(* repeated id; a text shows itself, and a row's text those of its cells.   *)
IsCanonical(doc) ==
    /\ \A r, o \in Records(doc) : r.id = o.id => r = o
    /\ \A r \in Records(doc) : r.kind # "table" /\ r.len > 0 => r.id \in r.shows
    /\ \A r \in Records(doc) : r.kind = "row" /\ r.len > 0 =>
          \A c \in RowCells(doc, r) : c.len > 0 => c.id \in r.shows

(* Reference: the object's own text lies in the stored segments; a table's, *)
(* and a row's without a text of its own, is that of its cells.             *)
IsStored(doc, e, stored) ==
    LET r == RecordOf(doc, Target(doc, e))
        parts == CASE r.kind = "table"              -> CellsIn(doc, r.id)
                   [] r.kind = "row" /\ r.len = 0   -> RowCells(doc, r)
                   [] OTHER                         -> {r}
    IN  \A p \in parts : p.len > 0 => \E s \in stored : p.id \in s.shows
=============================================================================
