-------------------------- MODULE DocxCanonicalizer --------------------------
(***************************************************************************)
(* DocxCanonicalizer (rag_eval/authoring/canonical.py): one pass over the  *)
(* body of a DOCX that writes the canonical objects and, line by line, the *)
(* execution text.  A step reads one paragraph, opens a table, reads one   *)
(* of its rows or closes it; the last step resolves captions and textual   *)
(* figure references.                                                      *)
(*                                                                         *)
(* A text is a sequence of words, and a bar, a hash or a label such as     *)
(* "Figure:" is a word of its own.  Abstracted: XML, styles, media         *)
(* resources, bookmarks, hyperlinks, fields, notes, VML and OLE objects,   *)
(* digests, and the logical row and column records of a table; a nested    *)
(* table is one cell of one word.                                          *)
(***************************************************************************)
EXTENDS Integers, Sequences, FiniteSets, FiniteSetsExt, SequencesExt

CONSTANTS Paragraphs,  \* paragraphs: [text, level, list, label, number, figures, math, mentions]
          Rows,        \* physical rows: [cells, offset, header]
          Grids,       \* column counts a tblGrid may declare, 0 for none
          MaxSize,     \* bound: elements of the body and rows of its tables
          MaxLong,     \* bound: the same for a document that begins one of Texts
          Texts,       \* execution texts
          None         \* "absent"

ASSUME ParagraphsAssumption ==
    \A p \in Paragraphs : /\ p.figures \in Seq(ToSet(p.figures))
                          /\ p.math \in Seq(ToSet(p.math))

ASSUME TablesAssumption ==
    /\ None \notin Nat
    /\ Grids \subseteq Nat
    /\ \A r \in Rows : /\ r.offset \in Nat
                      /\ r.cells \in Seq(ToSet(r.cells))
                      /\ \A cell \in ToSet(r.cells) : cell.span \in Nat

VARIABLES read,     \* how many elements of the body were read
          cat,      \* the canonical records, by object id
          lines,    \* the execution text
          pending,  \* the caption that waits for the object below it
          last,     \* the object a caption right below would belong to
          section,  \* the section objects are put in
          table,    \* the table being read, None between tables
          done,     \* whether the pass has ended
          home      \* (history) the words of the text an object was written to

canonVars == <<read, cat, lines, pending, last, section, table, done, home>>

Count(type) == Cardinality({id \in DOMAIN cat : id[1] = type /\ Len(id) = 2})
NextId(type) == <<type, Count(type) + 1>>

Position == read + 1

\* Records beside each other, by their ids; one record.
f ++ g == [id \in DOMAIN f \cup DOMAIN g |-> IF id \in DOMAIN f THEN f[id] ELSE g[id]]
Only(object, record) == [id \in {object} |-> record]

\* The text is the lines with one separator after each.
Length(text) == FoldLeft(LAMBDA n, line : n + Len(line) + 1, 0, text)
SpanAt(start, value) == <<start, start + Len(value)>>

\* A cell is declared without a span (0), with one, and with a merge or none.
EmptyTable(g) ==
    [grid |-> g, rows |-> 0, active |-> <<>>, logical |-> <<>>, cells |-> <<>>,
     errors |-> {}, widths |-> {}, headers |-> {}]

-----------------------------------------------------------------------------
\* Captions.

Downgraded(c, ids) == [id \in DOMAIN c |-> IF id \in ids THEN [c[id] EXCEPT !.status = "partial"]
                                           ELSE c[id]]

\* mark_pending_caption_unresolved: the caption and its text span.
Unresolved(c) ==
    IF pending = None THEN c ELSE Downgraded(c, {pending, <<"text_span", pending[2]>>})

\* _record_caption_association: a figure takes the number of its caption.
Attach(c, caption, target) ==
    LET linked == [c EXCEPT ![caption].target = target]
    IN  IF c[target].type # "figure" THEN linked
        ELSE [linked EXCEPT ![target].caption = caption,
                            ![target].number = IF c[caption].number = None THEN @
                                               ELSE c[caption].number]

Fits(caption, target) ==
    caption.label \in {"style", target.type} /\ target.siblings = 1

\* associate_pending_caption: the object that follows the waiting caption.
AssociatePending(c, target) ==
    IF pending = None THEN c
    ELSE IF Fits(c[pending], c[target]) THEN Attach(c, pending, target)
    ELSE Unresolved(c)

-----------------------------------------------------------------------------
\* Paragraphs.

HasRich(p) == p.figures # <<>> \/ p.math # <<>>
IsBlank(p) == p.text = <<>> /\ ~ HasRich(p)

Block(p) ==
    [type |-> "block", status |-> "supported", body |-> Position, section |-> section,
     kind |-> IF p.level > 0 THEN "heading" ELSE IF p.label # None THEN "caption"
              ELSE IF p.list THEN "list_item" ELSE "paragraph",
     level |-> p.level, value |-> p.text, label |-> p.label, number |-> p.number,
     target |-> None]

BlockRecords(p) ==
    LET id == NextId("block")
    IN  Only(id, Block(p))
        ++ (IF p.text = <<>> THEN <<>>
            ELSE Only(<<"text_span", id[2]>>, [type |-> "text_span", status |-> "supported",
                                               body |-> Position, block |-> id, value |-> p.text]))

\* _paragraph_rich_records: figures, equations and textual figure references.
Figures(p) ==
    [id \in {<<"figure", Count("figure") + i>> : i \in DOMAIN p.figures} |->
        LET figure == p.figures[id[2] - Count("figure")]
        IN  [type |-> "figure", status |-> IF figure.stored THEN "supported" ELSE "partial",
             body |-> Position, value |-> figure.value, caption |-> None, number |-> None,
             referenced |-> FALSE, eligible |-> FALSE, siblings |-> Len(p.figures)]]

Equations(p) ==
    [id \in {<<"equation", Count("equation") + i>> : i \in DOMAIN p.math} |->
        [type |-> "equation", status |-> "supported", body |-> Position,
         value |-> p.math[id[2] - Count("equation")]]]

Mentions(p) ==
    [id \in {<<"reference", Count("reference") + i>> : i \in DOMAIN p.mentions} |->
        [type |-> "reference", status |-> "partial", body |-> Position, value |-> p.text,
         number |-> p.mentions[id[2] - Count("reference")], target |-> None]]

RichRecords(p) ==
    Figures(p) ++ Equations(p) ++ Mentions(p)

RichLines(p) ==
    [i \in DOMAIN p.figures |-> <<"Figure:">> \o p.figures[i].value]
    \o [i \in DOMAIN p.math |-> <<"Equation:">> \o p.math[i]]

Prefix(p) ==
    IF p.level > 0 THEN <<"#">> ELSE IF p.list THEN <<"-">> ELSE <<>>

TextLines(p) ==
    IF p.text = <<>> /\ p.level = 0 THEN <<>> ELSE <<Prefix(p) \o p.text>>

\* Where a paragraph and its rich objects go in the text.
Homes(p, written) ==
    LET of    == NextId("block")
        start == Length(lines) + Len(Prefix(p))
        after(i, rich) == Length(lines \o TextLines(p) \o SubSeq(rich, 1, i - 1)) + 1
    IN  (IF p.text = <<>> THEN <<>>
         ELSE [id \in {of, <<"text_span", of[2]>>} |-> SpanAt(start, p.text)])
        ++ (IF written = <<>> THEN <<>>
            ELSE [id \in {<<"figure", Count("figure") + i>> : i \in DOMAIN p.figures} |->
                     SpanAt(after(id[2] - Count("figure"), written),
                            p.figures[id[2] - Count("figure")].value)])

Read == read' = read + 1

Skip(p) ==
    /\ IsBlank(p)
    /\ Read
    /\ UNCHANGED <<cat, lines, pending, last, section, table, done, home>>

(* Mutated form: no heading ends the wait of a caption.                    *)
EndsWaitOnLabel(p) == p.label # None

EndsWait(p) == p.label # None \/ ~ HasRich(p)

\* A heading opens a section.  It ends the wait of a caption only if it holds
\* no rich object, and its own rich objects are not written to the text.
Heading(p) ==
    LET id == NextId("section")
    IN  /\ p.level > 0 /\ ~ IsBlank(p)
        /\ Read
        /\ cat' = RichRecords(p)
                  ++ Only(id, [type |-> "section", status |-> "supported", body |-> Position,
                               level |-> p.level, value |-> p.text])
                  ++ BlockRecords(p)
                  ++ (IF EndsWait(p) THEN Unresolved(cat) ELSE cat)
        /\ pending' = IF EndsWait(p) THEN None ELSE pending
        /\ section' = id
        /\ last' = None
        /\ lines' = lines \o TextLines(p)
        /\ home' = Homes(p, <<>>) ++ Only(id, SpanAt(Length(lines) + 1, p.text)) ++ home
        /\ UNCHANGED <<table, done>>

\* A caption belongs to the object right above it, or waits for the next one.
Caption(p) ==
    LET id     == NextId("block")
        scan   == RichRecords(p) ++ BlockRecords(p) ++ Unresolved(cat)
        above  == last # None /\ Fits(scan[id], scan[last])
    IN  /\ p.level = 0 /\ p.label # None /\ ~ IsBlank(p)
        /\ Read
        /\ cat' = IF above THEN Attach(scan, id, last) ELSE scan
        /\ pending' = IF above THEN None ELSE id
        /\ last' = None
        /\ lines' = lines \o TextLines(p) \o RichLines(p)
        /\ home' = Homes(p, RichLines(p)) ++ home
        /\ UNCHANGED <<section, table, done>>

\* Any other paragraph: only one with a single figure answers the caption.
Prose(p) ==
    LET figures == [i \in DOMAIN p.figures |-> <<"figure", Count("figure") + i>>]
        scan    == RichRecords(p) ++ BlockRecords(p) ++ cat
    IN  /\ p.level = 0 /\ p.label = None /\ ~ IsBlank(p)
        /\ Read
        /\ cat' = IF Len(figures) = 1 THEN AssociatePending(scan, figures[1]) ELSE Unresolved(scan)
        /\ pending' = None
        /\ last' = IF figures = <<>> THEN None ELSE Last(figures)
        /\ lines' = lines \o TextLines(p) \o RichLines(p)
        /\ home' = Homes(p, RichLines(p)) ++ home
        /\ UNCHANGED <<section, table, done>>

-----------------------------------------------------------------------------
\* Tables: physical cells are laid on the grid and merged into logical cells.

OpenTable(g) ==
    /\ table' = EmptyTable(g)
    /\ UNCHANGED <<read, cat, lines, pending, last, section, done, home>>

(* Mutated form: a continuation may be narrower than the cell above.       *)
MisplacedIfUncovered(covers, origins, width) ==
    Cardinality(origins) # 1 \/ ~ covers \subseteq DOMAIN table.active

\* A continuation must lie under one merged cell and be as wide.
Misplaced(covers, origins, width) ==
    \/ Cardinality(origins) # 1
    \/ ~ covers \subseteq DOMAIN table.active
    \/ \E o \in origins : table.logical[o].width # width

\* One physical cell.  A continuation may inherit the width of the cell above;
\* any other cell starts a logical cell.
PlaceCell(acc, cell) ==
    LET inherits == cell.merge = "continue" /\ cell.span = 0 /\ acc.cursor \in DOMAIN table.active
        width    == IF inherits THEN table.logical[table.active[acc.cursor]].width
                    ELSE Max({cell.span, 1})
        covers   == acc.cursor..(acc.cursor + width - 1)
        origins  == {table.active[c] : c \in covers \cap DOMAIN table.active}
        fresh    == Len(acc.logical) + 1
        merges   == cell.merge = "continue"
        wrong    == merges /\ Misplaced(covers, origins, width)
        of       == IF wrong THEN None ELSE IF merges THEN CHOOSE o \in origins : TRUE ELSE fresh
    IN  [acc EXCEPT
            !.cursor = acc.cursor + width,
            !.errors = @ \cup (IF table.grid > 0 /\ acc.cursor + width - 1 > table.grid
                               THEN {"grid_overflow"} ELSE {})
                         \cup (IF wrong THEN {"orphan"} ELSE {}),
            !.logical = CASE of = fresh -> Append(@, [top |-> acc.row, bottom |-> acc.row,
                                  column |-> acc.cursor, width |-> width, text |-> cell.text])
                          [] of = None -> @
                          [] OTHER -> [@ EXCEPT ![of].bottom = acc.row],
            !.next = IF of = None \/ cell.merge = "none" THEN @
                     ELSE [c \in covers |-> of] ++ @,
            !.cells = Append(@, [row |-> acc.row, column |-> acc.cursor, width |-> width,
                                 merge |-> cell.merge, text |-> cell.text, of |-> of,
                                 nested |-> cell.nested])]

\* The cells of a row, from the left.
PlaceCells(r) ==
    LET start == [row |-> table.rows + 1, cursor |-> 1 + r.offset, next |-> <<>>,
                  logical |-> table.logical, cells |-> table.cells, errors |-> table.errors]
        placed[n \in 0..Len(r.cells)] ==
            IF n = 0 THEN start ELSE PlaceCell(placed[n - 1], r.cells[n])
    IN  placed[Len(r.cells)]

ReadRow(r) ==
    LET row   == table.rows + 1
        acc   == PlaceCells(r)
        width == acc.cursor - 1
    IN  table' = [table EXCEPT
            !.rows = row, !.active = acc.next, !.logical = acc.logical, !.cells = acc.cells,
            !.widths = @ \cup {width},
            !.headers = IF r.header THEN @ \cup {row} ELSE @,
            !.errors = acc.errors
                \cup (IF r.offset > 0 THEN {"grid_offset"} ELSE {})
                \cup (IF r.cells = <<>> THEN {"empty_row"} ELSE {})
                \cup (IF table.grid > 0 /\ width # table.grid THEN {"grid_width"} ELSE {})]

Row(r) == ReadRow(r) /\ UNCHANGED <<read, cat, lines, pending, last, section, done, home>>

Headers == IF table.headers = 1..Cardinality(table.headers) THEN Cardinality(table.headers) ELSE 0

Merged == \E i \in DOMAIN table.cells : table.cells[i].width > 1 \/ table.cells[i].merge # "none"

\* A table without a declared grid is complete only if it is a plain rectangle.
TopologyErrors ==
    table.errors
    \cup (IF table.rows = 0 THEN {"missing_rows"} ELSE {})
    \cup (IF table.cells = <<>> /\ table.grid = 0 THEN {"no_columns"} ELSE {})
    \cup (IF table.headers # 1..Cardinality(table.headers) THEN {"header_rows"} ELSE {})
    \cup (IF table.grid = 0 /\ (Merged \/ Cardinality(table.widths) # 1)
          THEN {"no_grid"} ELSE {})

ColumnCount ==
    IF table.grid > 0 THEN table.grid
    ELSE Max({0} \cup {table.cells[i].column + table.cells[i].width - 1 : i \in DOMAIN table.cells})

\* _logical_table_values: a logical cell is written at its upper left corner.
TableValues ==
    [row \in 1..table.rows |-> [column \in 1..ColumnCount |->
        LET here == {i \in DOMAIN table.logical :
                        table.logical[i].top = row /\ table.logical[i].column = column}
        IN  IF here = {} THEN <<>> ELSE table.logical[Max(here)].text]]

Nested == {i \in DOMAIN table.cells : table.cells[i].nested}

TableStatus == IF TopologyErrors = {} /\ Nested = {} THEN "supported" ELSE "partial"

TableRecord ==
    [type |-> "table", status |-> TableStatus, body |-> Position, value |-> TableValues,
     rows |-> table.rows, columns |-> ColumnCount, siblings |-> 1,
     eligible |-> /\ TableStatus = "supported" /\ Headers > 0
                  /\ \E i \in DOMAIN table.logical : table.logical[i].top > Headers]

RowRecords(t) ==
    [id \in {<<"row", t, r>> : r \in 1..table.rows} |->
        [type |-> "row", status |-> TableStatus, body |-> Position, table |-> <<"table", t>>,
         row |-> id[3], value |-> TableValues[id[3]]]]

LogicalRecords(t) ==
    [id \in {<<"logical_cell", t, i>> : i \in DOMAIN table.logical} |->
        LET cell == table.logical[id[3]]
        IN  [type |-> "logical_cell", status |-> TableStatus, body |-> Position,
             table |-> <<"table", t>>, row |-> cell.top, column |-> cell.column,
             bottom |-> cell.bottom, width |-> cell.width, value |-> cell.text]]

\* The physical cell a merge started in, for the cell itself and below it.
Origin(t, i) ==
    IF table.cells[i].of = None THEN None
    ELSE <<"cell", t, Min({j \in DOMAIN table.cells : table.cells[j].of = table.cells[i].of})>>

CellRecords(t) ==
    [id \in {<<"cell", t, i>> : i \in DOMAIN table.cells} |->
        LET cell == table.cells[id[3]]
        IN  [type |-> "cell", status |-> IF cell.of = None THEN "partial" ELSE TableStatus,
             body |-> Position, table |-> <<"table", t>>, row |-> cell.row,
             column |-> cell.column, width |-> cell.width, merge |-> cell.merge,
             logical |-> cell.of, origin |-> Origin(t, id[3]), value |-> cell.text]]

\* The tables inside the cells: their coordinates are those of the outer one.
NestedRecords(t) ==
    [id \in {<<"table", t, i>> : i \in Nested} |->
        [type |-> "table", status |-> "supported", body |-> Position, value |-> <<(<<(<<"w">>)>>)>>,
         rows |-> 1, columns |-> 1, siblings |-> 1, eligible |-> FALSE]]
    ++ [id \in {<<"cell", t, i, 1>> : i \in Nested} |->
        [type |-> "cell", status |-> "supported", body |-> Position,
         table |-> <<"table", t, id[3]>>, row |-> 1, column |-> 1, width |-> 1,
         merge |-> "none", logical |-> 1, origin |-> id, value |-> <<"w">>]]

Joined(values) ==
    <<"|">> \o FoldLeft(LAMBDA acc, v : acc \o v \o <<"|">>, <<>>, values)

\* _table_markdown: the first row, a rule, the other rows.
TableLines ==
    IF table.rows = 0 THEN <<>>
    ELSE <<Joined(TableValues[1]), <<"---">>>>
         \o [i \in 1..(table.rows - 1) |-> Joined(TableValues[i + 1])]

\* Where the table, its rows and its cells go in the text.
LineOf(row) == Length(lines) + Length(SubSeq(TableLines, 1, IF row = 1 THEN 0 ELSE row))

CellHome(cell) ==
    SpanAt(LineOf(cell.row) + 1
               + FoldLeft(LAMBDA n, v : n + Len(v) + 1, 0,
                          SubSeq(TableValues[cell.row], 1, cell.column - 1)), cell.text)

TableHomes(t) ==
    (IF table.rows = 0 THEN <<>>
     ELSE Only(<<"table", t>>, <<Length(lines), Length(lines \o TableLines) - 1>>))
    ++ [id \in {<<"row", t, r>> : r \in 1..table.rows} |->
           SpanAt(LineOf(id[3]), Joined(TableValues[id[3]]))]
    ++ [id \in {<<"cell", t, i>> : i \in {j \in DOMAIN table.cells :
                    table.cells[j].merge # "continue" /\ table.cells[j].text # <<>>}} |->
           CellHome(table.cells[id[3]])]

CloseTable ==
    LET t    == Count("table") + 1
        id   == <<"table", t>>
        scan == NestedRecords(t) ++ CellRecords(t) ++ LogicalRecords(t) ++ RowRecords(t)
                ++ Only(id, TableRecord) ++ cat
    IN  /\ Read
        /\ cat' = AssociatePending(scan, id)
        /\ pending' = None
        /\ last' = id
        /\ lines' = lines \o TableLines
        /\ home' = TableHomes(t) ++ home
        /\ table' = None
        /\ UNCHANGED <<section, done>>

-----------------------------------------------------------------------------
\* The end of the pass: the last caption, and the figures the text refers to.

\* The figure a textual reference means: the only one with its number.
Referred(c, reference) ==
    LET numbered == {id \in DOMAIN c : /\ c[id].type = "figure" /\ c[id].status = "supported"
                                       /\ c[id].number = c[reference].number}
    IN  IF Cardinality(numbered) = 1 THEN CHOOSE id \in numbered : TRUE ELSE None

\* _resolve_rich_content_context.
Resolved(c) ==
    LET references == {id \in DOMAIN c : c[id].type = "reference"}
        linked     == {Referred(c, r) : r \in references}
    IN  [id \in DOMAIN c |->
            CASE id \in references /\ Referred(c, id) # None ->
                    [c[id] EXCEPT !.target = Referred(c, id), !.status = "supported"]
              [] c[id].type = "figure" ->
                    [c[id] EXCEPT !.referenced = id \in linked,
                                  !.eligible = /\ c[id].status = "supported"
                                               /\ c[id].caption # None /\ c[id].number # None
                                               /\ id \in linked]
              [] OTHER -> c[id]]

Finish ==
    /\ cat' = Resolved(Unresolved(cat))
    /\ pending' = None
    /\ done' = TRUE
    /\ UNCHANGED <<read, lines, last, section, table, home>>

-----------------------------------------------------------------------------
CanonInit ==
    /\ read = 0 /\ lines = <<>> /\ home = <<>>
    /\ cat = Only(<<"section", 1>>, [type |-> "section", status |-> "supported", body |-> 0,
                                     level |-> 0, value |-> <<>>])
    /\ section = <<"section", 1>>
    /\ pending = None /\ last = None /\ table = None
    /\ done = FALSE

Size == read + (IF table = None THEN 0 ELSE 1 + table.rows)
             + Cardinality({id \in DOMAIN cat : cat[id].type = "row"})

\* Room for one element more.
Room ==
    LET far == lines \o (IF table = None THEN <<>> ELSE TableLines)
    IN  Size < MaxSize \/ (Size < MaxLong /\ \E text \in Texts : IsPrefix(far, text))

BetweenTables == ~ done /\ table = None /\ Room
InTable       == ~ done /\ table # None

Canonicalize ==
    \/ BetweenTables /\ \E p \in Paragraphs : Skip(p)
    \/ BetweenTables /\ \E p \in Paragraphs : Heading(p)
    \/ BetweenTables /\ \E p \in Paragraphs : Caption(p)
    \/ BetweenTables /\ \E p \in Paragraphs : Prose(p)
    \/ BetweenTables /\ \E g \in Grids : OpenTable(g)
    \/ InTable /\ Room /\ \E r \in Rows : Row(r)
    \/ InTable /\ CloseTable
    \/ ~ done /\ table = None /\ Finish

-----------------------------------------------------------------------------
(* TopologyIsATiling: a table is complete only if its logical cells cover   *)
(* every coordinate of its grid exactly once and each physical cell lies   *)
(* inside the logical cell it is put in, whatever spans and merges the     *)
(* rows declared.                                                          *)
TopologyIsATiling ==
    \A t \in {id \in DOMAIN cat : cat[id].type = "table" /\ Len(id) = 2
                                  /\ cat[id].status = "supported"} :
        LET logical == {id \in DOMAIN cat : cat[id].type = "logical_cell" /\ cat[id].table = t}
            Covers(l, r, c) == /\ cat[l].row <= r /\ r <= cat[l].bottom
                               /\ cat[l].column <= c /\ c < cat[l].column + cat[l].width
        IN  /\ \A r \in 1..cat[t].rows, c \in 1..cat[t].columns :
                  Cardinality({l \in logical : Covers(l, r, c)}) = 1
            /\ \A id \in DOMAIN cat : cat[id].type = "cell" /\ cat[id].table = t =>
                  \A c \in cat[id].column..(cat[id].column + cat[id].width - 1) :
                      Covers(<<"logical_cell", t[2], cat[id].logical>>, cat[id].row, c)

(* CaptionIsAdjacent: a caption belongs to a table or figure that its label *)
(* allows, and nothing lies between the two, except a heading that holds   *)
(* a figure or an equation: that one does not end the wait.                *)
CaptionIsAdjacent ==
    \A b \in {id \in DOMAIN cat : cat[id].type = "block" /\ cat[id].target # None} :
        LET target  == cat[cat[b].target]
            between == {id \in DOMAIN cat :
                          \/ cat[b].body < cat[id].body /\ cat[id].body < target.body
                          \/ target.body < cat[id].body /\ cat[id].body < cat[b].body}
        IN  /\ Fits(cat[b], target)
            /\ \A id \in between : \E h \in between, f \in between :
                  /\ cat[h].body = cat[id].body /\ cat[f].body = cat[id].body
                  /\ cat[h].type = "section" /\ cat[f].type \in {"figure", "equation"}
                  /\ cat[b].body < cat[id].body

=============================================================================
