---------------------------- MODULE NativeLineage ----------------------------
(***************************************************************************)
(* The native bridge (canonical_provenance.py of the LightRAG adapter): a  *)
(* stored chunk of a DOCX carries the lineage its parser wrote, atoms with *)
(* the coordinates and the value of what the chunk shows.  The coordinates *)
(* choose one canonical object, the value and the shown text must confirm  *)
(* it.                                                                     *)
(*                                                                         *)
(* The parser is external: HonestLineage is what it writes for a chunk,    *)
(* Faulty what else the bridge must expect.  Its coordinates are taken to  *)
(* be those of the document.                                               *)
(***************************************************************************)
EXTENDS DocxCanonicalizer

CONSTANTS Chunks,     \* runtime chunks
          Source      \* [Chunks -> the words of the document a chunk holds]

Overlaps(s, t) == s[1] < t[2] /\ t[1] < s[2]
Holds(s, t)    == s[1] <= t[1] /\ t[2] <= s[2]

-----------------------------------------------------------------------------
\* What the parser writes.

\* Where the parser meets a record; a continued cell shows at its row's start.
Met(id) ==
    IF id \in DOMAIN home THEN home[id]
    ELSE <<home[<<"row", id[2], cat[id].row>>][1], home[<<"row", id[2], cat[id].row>>][1] + 1>>

Shows(c, id, value) == IF Holds(Source[c], Met(id)) THEN value ELSE <<"cut">>

Coverage(c, id) == IF Holds(Source[c], Met(id)) THEN "complete" ELSE "partial"

\* python-docx repeats the text of the first cell of a vertical merge.
CellAtom(c, id) ==
    LET value == IF cat[id].merge = "continue" /\ cat[id].origin # None
                 THEN cat[cat[id].origin].value ELSE cat[id].value
    IN  [row |-> cat[id].row, column |-> cat[id].column, value |-> value,
         status |-> Coverage(c, id), span |-> "inside", shows |-> Shows(c, id, value)]

InChunk(c, ids) ==
    SetToSortSeq({id \in ids : Overlaps(Source[c], Met(id))},
                 LAMBDA a, b : Met(a)[1] < Met(b)[1] \/ (Met(a) = Met(b) /\ a[Len(a)] < b[Len(b)]))

Cells(t) == {id \in DOMAIN cat : cat[id].type = "cell" /\ cat[id].table = t
                                 /\ <<"row", t[2], cat[id].row>> \in DOMAIN home}

Atom(c, id) ==
    [kind |-> IF cat[id].type = "block" THEN "paragraph" ELSE "table",
     body |-> cat[id].body, pinned |-> TRUE, value |-> cat[id].value,
     status |-> Coverage(c, id), span |-> "inside", shows |-> Shows(c, id, cat[id].value),
     cells |-> IF cat[id].type = "block" THEN <<>>
               ELSE LET seq == InChunk(c, Cells(id))
                    IN  [i \in DOMAIN seq |-> CellAtom(c, seq[i])]]

HonestLineage(c) ==
    LET seq == InChunk(c, {id \in DOMAIN home : cat[id].type = "block"
                                                \/ cat[id].type = "table"})
    IN  [pinned |-> TRUE, digest |-> TRUE, sameSpan |-> TRUE,
         atoms |-> [i \in DOMAIN seq |-> Atom(c, seq[i])]]

EachSource(lineage, field, value) ==
    [lineage EXCEPT !.atoms = [i \in DOMAIN @ |->
        [@[i] EXCEPT ![field] = value,
                     !.cells = [j \in DOMAIN @ |-> [@[j] EXCEPT ![field] = value]]]]]

SwapColumns(cell) == [cell EXCEPT !.column = 3 - @]

\* The lineage of a chunk under one fault, None when it is not stored.
Faulty(c, fault) ==
    LET honest == HonestLineage(c)
    IN  CASE fault = "missing"  -> None
          [] fault = "unpinned" -> [honest EXCEPT !.pinned = FALSE]
          [] fault = "digest"   -> [honest EXCEPT !.digest = FALSE]
          [] fault = "span"     -> [honest EXCEPT !.sameSpan = FALSE]
          [] fault = "atom"     -> [honest EXCEPT !.atoms =
                                       [i \in DOMAIN @ |-> [@[i] EXCEPT !.pinned = (i = 1)]]]
          [] fault = "outside"  -> EachSource(honest, "span", "outside")
          [] fault = "overstated" -> EachSource(honest, "status", "complete")
          [] fault = "numbered" ->
                [honest EXCEPT !.atoms = [i \in DOMAIN @ |->
                    IF @[i].kind = "table" \/ @[i].status # "complete" THEN @[i]
                    ELSE [@[i] EXCEPT !.value = <<"1.">> \o @, !.shows = <<"1.">> \o @]]]
          [] fault = "swapped" ->
                [honest EXCEPT !.atoms = [i \in DOMAIN @ |->
                    [@[i] EXCEPT !.cells = [j \in DOMAIN @ |-> SwapColumns(@[j])]]]]
          [] OTHER -> honest

-----------------------------------------------------------------------------
\* What the bridge makes of it.

(* Mutated form: the text at the parsed span is not looked at.             *)
WitnessOfValue(source, id) ==
    \/ source.value = cat[id].value
    \/ cat[id].type = "block" /\ source.value = <<"1.">> \o cat[id].value

\* _native_witness_matches.  A paragraph may carry the number Word computes, an
\* empty continued cell the text of its origin; what is shown must agree.
WitnessMatches(source, id) ==
    LET record    == cat[id]
        continued == /\ record.type = "cell" /\ record.value = <<>>
                     /\ record.merge = "continue" /\ record.origin # None
    IN  /\ \/ source.value = record.value
           \/ record.type \in {"block", "text_span"} /\ source.value = <<"1.">> \o record.value
           \/ continued /\ cat[record.origin].value = source.value
        /\ source.span = "inside" /\ source.status = "complete" /\ record.type # "table" =>
              source.shows = source.value

\* _native_candidates_for_atom: the authored block before its text span.
AtomCandidates(atom) ==
    LET at      == {id \in DOMAIN cat : cat[id].body = atom.body}
        authored == {id \in at : cat[id].type = "block"}
    IN  IF atom.kind = "table" THEN {id \in at : cat[id].type = "table" /\ Len(id) = 2}
        ELSE IF authored # {} THEN authored
        ELSE {id \in at : cat[id].type = "text_span"}

\* _native_cell_candidates: the physical cell before the logical one.  The cells
\* of a nested table have the body position of the outer table.
CellCandidates(atom, cell) ==
    LET at       == {id \in DOMAIN cat : /\ cat[id].type \in {"cell", "logical_cell"}
                                         /\ cat[id].body = atom.body
                                         /\ cat[id].row = cell.row /\ cat[id].column = cell.column}
        physical == {id \in at : cat[id].type = "cell"}
    IN  IF physical # {} THEN physical ELSE at

\* _native_runtime_edge: an edge is full only for a complete witness in bounds.
FullWitness(source, id) ==
    source.status = "complete" /\ source.span = "inside" /\ cat[id].status = "supported"

\* One atom or cell.  A complete one that does not match is a failure; a partial
\* one and a table only lose the proof.
AddEdge(acc, source, candidates) ==
    LET id      == CHOOSE o \in candidates : TRUE
        matches == WitnessMatches(source, id)
        firm    == /\ source.status = "complete" /\ cat[id].status = "supported"
                   /\ cat[id].type # "table"
    IN  IF Cardinality(candidates) # 1 \/ (~ matches /\ firm) \/ id \in acc.seen THEN acc
        ELSE [seen |-> acc.seen \cup {id},
              full |-> acc.full \cup (IF matches /\ FullWitness(source, id) THEN {id} ELSE {})]

AddAtom(acc, atom) ==
    FoldLeft(LAMBDA a, cell : AddEdge(a, cell, CellCandidates(atom, cell)),
             AddEdge(acc, atom, AtomCandidates(atom)), atom.cells)

\* _native_lineage_runtime_chunk_mapping: the objects a chunk proves to hold.
TrustedLineage(lineage) ==
    /\ lineage # None
    /\ lineage.pinned /\ lineage.digest /\ lineage.sameSpan
    /\ \A i \in DOMAIN lineage.atoms : lineage.atoms[i].pinned

ProvenObjects(lineage) ==
    IF ~ TrustedLineage(lineage) THEN {}
    ELSE FoldLeft(AddAtom, [seen |-> {}, full |-> {}], lineage.atoms).full
=============================================================================
