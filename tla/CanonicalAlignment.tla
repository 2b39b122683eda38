------------------------- MODULE CanonicalAlignment -------------------------
(***************************************************************************)
(* The source bridge's alignment (canonical_provenance.py of the LightRAG  *)
(* adapter): it finds the canonical objects of a document again in its     *)
(* execution text, by the lines they were rendered to.  The records are    *)
(* those of DocxCanonicalizer; a line is matched as a whole.               *)
(***************************************************************************)
EXTENDS DocxCanonicalizer

LineStart(i) == Length(SubSeq(lines, 1, i - 1))

OfType(type) == {id \in DOMAIN cat : cat[id].type = type}

\* _rendered_block_line: what precedes the value of a block in its line.
Marker(b) ==
    CASE cat[b].kind = "heading" /\ cat[b].level \in 1..9 -> <<"#">>
      [] cat[b].kind = "list_item" -> <<"-">>
      [] OTHER -> <<>>

(* Mutated form: the search for every block starts at the first line.      *)
AlignBlockFromTop(acc, b) ==
    LET found == {i \in DOMAIN lines : lines[i] = Marker(b) \o cat[b].value}
    IN  IF found = {} \/ cat[b].value = <<>> THEN acc
        ELSE [acc EXCEPT !.spans =
                 Only(b, SpanAt(LineStart(Min(found)) + Len(Marker(b)), cat[b].value)) ++ @]

\* A block is the first equal line after the one of the block before it.
AlignBlock(acc, b) ==
    LET found == {i \in DOMAIN lines : /\ lines[i] = Marker(b) \o cat[b].value
                                       /\ LineStart(i) >= acc.cursor}
    IN  IF found = {} \/ cat[b].value = <<>> THEN acc
        ELSE [cursor |-> LineStart(Min(found)) + Len(lines[Min(found)]),
              spans |-> Only(b, SpanAt(LineStart(Min(found)) + Len(Marker(b)), cat[b].value))
                        ++ acc.spans]

BlockSpans ==
    FoldLeft(AlignBlock, [cursor |-> 0, spans |-> <<>>],
             SetToSortSeq(OfType("block"), LAMBDA a, b : cat[a].body < cat[b].body)).spans

\* Text spans, section headings and references take the span of their block.
BlockOf(id) ==
    {b \in OfType("block") : cat[b].body = cat[id].body /\ cat[id].value # <<>>}

Inherited(spans) ==
    [id \in {i \in OfType("text_span") \cup OfType("section") \cup OfType("reference") :
                BlockOf(i) # {} /\ BlockOf(i) \subseteq DOMAIN spans} |->
        spans[CHOOSE b \in BlockOf(id) : TRUE]]

\* A figure or an equation is aligned only if its line is the only one.
LabelledLines(label, id) == {i \in DOMAIN lines : lines[i] = <<label>> \o cat[id].value}

Label(id) == IF cat[id].type = "figure" THEN "Figure:" ELSE "Equation:"

RichSpans ==
    [id \in {i \in OfType("figure") \cup OfType("equation") :
                Cardinality(LabelledLines(Label(i), i)) = 1} |->
        SpanAt(LineStart(CHOOSE i \in LabelledLines(Label(id), id) : TRUE) + 1, cat[id].value)]

\* _align_table: the physical cells must render to a run of lines that occurs
\* once; rows and non-empty cells are found inside it by their offsets.
CellsOf(t) == {id \in OfType("cell") : cat[id].table = t}

PhysicalRow(t, r) ==
    [c \in 1..cat[t].columns |->
        LET here == {id \in CellsOf(t) : cat[id].row = r /\ cat[id].column = c}
        IN  IF here = {} THEN <<>> ELSE cat[CHOOSE id \in here : TRUE].value]

Rendering(t) ==
    IF cat[t].rows = 0 THEN <<>>
    ELSE <<Joined(PhysicalRow(t, 1)), <<"---">>>>
         \o [i \in 1..(cat[t].rows - 1) |-> Joined(PhysicalRow(t, i + 1))]

Occurrences(t) ==
    {i \in 1..(Len(lines) - Len(Rendering(t)) + 1) :
        SubSeq(lines, i, i + Len(Rendering(t)) - 1) = Rendering(t)}

RowLine(t, r) == Min(Occurrences(t)) + (IF r = 1 THEN 0 ELSE r)

RowStart(t, r) == LineStart(RowLine(t, r))

CellStart(id) ==
    RowStart(cat[id].table, cat[id].row) + 1
        + FoldLeft(LAMBDA n, v : n + Len(v) + 1, 0,
                   SubSeq(PhysicalRow(cat[id].table, cat[id].row), 1, cat[id].column - 1))

TableSpans(t) ==
    IF cat[t].rows = 0 \/ cat[t].columns = 0 \/ Cardinality(Occurrences(t)) # 1 THEN <<>>
    ELSE Only(t, <<RowStart(t, 1), RowStart(t, 1) + Length(Rendering(t)) - 1>>)
         ++ [id \in {i \in OfType("row") : cat[i].table = t} |->
                SpanAt(RowStart(t, cat[id].row), Joined(PhysicalRow(t, cat[id].row)))]
         ++ [id \in {i \in CellsOf(t) : /\ cat[i].value # <<>>
                                        /\ cat[i].column <= cat[t].columns} |->
                SpanAt(CellStart(id), cat[id].value)]

\* _align_canonicalizer_v1.
Aligned ==
    LET spans == BlockSpans
        all   == {TableSpans(t) : t \in OfType("table")}
    IN  RichSpans ++ Inherited(spans) ++ spans
        ++ [id \in UNION {DOMAIN s : s \in all} |-> (CHOOSE s \in all : id \in DOMAIN s)[id]]

=============================================================================
