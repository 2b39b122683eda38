--------------------------- MODULE EvidenceMatch ---------------------------
(***************************************************************************)
(* Strict evidence localization (rag_eval/evaluation/evidence.py): which   *)
(* Gold objects a ranked list of returned items covers.                    *)
(*                                                                         *)
(* A run pins a provenance map: the object catalog, the edges of every     *)
(* runtime chunk to the objects it holds (forward) and of every object to  *)
(* its chunks (reverse).  CorpusEvidenceIndex loads it and trusts it only  *)
(* when the pins, the records and both directions agree.  Localize then    *)
(* gives the status of one Gold object over the items of one cutoff.       *)
(*                                                                         *)
(* Positions count the words of the text; a span <<a, b>> is half open.    *)
(* Abstracted: one document, digests (an item's envelope is legacy, formal *)
(* or invalid), page regions, the parsing of edges and locators, text      *)
(* normalization, and the wording of reasons.                              *)
(***************************************************************************)
EXTENDS CanonicalAlignment, NativeLineage

CONSTANTS Attributed,  \* chunks a rebuilt map records as attributed in every part
          Golds,       \* Gold evidence
          Locator,     \* [Golds -> [type, obj or span]]
          Quoted,      \* [Chunks -> the Golds whose quote the chunk's text contains]
          UniqueQuotes,\* Golds whose quote occurs once in the corpus
          LostChunks   \* bound: chunks whose lineage or edges may be damaged

ASSUME MatchAssumption ==
    /\ Attributed \cup LostChunks \subseteq Chunks
    /\ UniqueQuotes \subseteq Golds
    /\ None \notin Chunks
    /\ \A c \in Chunks : Source[c][1] < Source[c][2]

VARIABLES Record,  \* the object catalog: [objects -> [kind, table, extent]]
          written, \* the manifest the adapter's bridge wrote
          index    \* the CorpusEvidenceIndex in use, None before it is loaded

MinOf(a, b)     == IF a < b THEN a ELSE b
MaxOf(a, b)     == IF a > b THEN a ELSE b
Common(s, t)    == <<MaxOf(s[1], t[1]), MinOf(s[2], t[2])>>

\* _span_from_mapping: what is read from a record as a span.
IsSpan(s) == s \in Nat \X Nat /\ s[1] < s[2]

-----------------------------------------------------------------------------
\* The map the adapter's bridge writes after ingestion.  The "source" bridge
\* intersects the span of a stored chunk with the spans of the aligned objects;
\* the "native" bridge keeps only the objects a chunk's lineage proves whole.
\* A chunk whose stored text does not check out contributes no edge.

Entry(id, extent) ==
    [kind |-> cat[id].type, table |-> IF cat[id].type = "cell" THEN cat[id].table ELSE None,
     status |-> cat[id].status, extent |-> extent]

Catalog(bridge) ==
    IF bridge = "source" THEN [id \in DOMAIN Aligned |-> Entry(id, Aligned[id])]
    ELSE [id \in {i \in DOMAIN cat : i \in DOMAIN home
                                     \/ (cat[i].type = "cell" /\ Len(i) = 3)} |->
             Entry(id, Met(id))]

EdgeOf(record, o, c, full) ==
    [obj |-> o, chunk |-> c, coverage |-> IF full THEN "full" ELSE "partial",
     overlap |-> IF full THEN record[o].extent ELSE Common(Source[c], record[o].extent),
     extent |-> record[o].extent]

IsFull(e) == e.coverage = "full"

BridgeEdges(bridge, record, fault) ==
    LET FaultOf(c) == IF c \in LostChunks THEN fault ELSE "none"
    IN  UNION {IF bridge = "native"
               THEN {EdgeOf(record, o, c, TRUE) :
                        o \in ProvenObjects(Faulty(c, FaultOf(c))) \cap DOMAIN record}
               ELSE IF FaultOf(c) # "none" THEN {}
               ELSE {EdgeOf(record, o, c, Holds(Source[c], record[o].extent)) :
                        o \in {p \in DOMAIN record : Overlaps(record[p].extent, Source[c])}}
               : c \in Chunks}

Faults(bridge) ==
    IF bridge = "source" THEN {"none", "digest"}
    ELSE {"none", "missing", "unpinned", "digest", "span", "atom", "outside", "overstated",
          "numbered", "swapped"}

\* Objects the catalog calls completely mapped.
MappedObjects(bridge, record, edges) ==
    IF bridge = "source" THEN DOMAIN record
    ELSE {o \in DOMAIN record : record[o].status = "supported" /\ \E e \in edges : e.obj = o}

Manifest(bridge, record, fault) ==
    LET edges == BridgeEdges(bridge, record, fault)
    IN  [bridge |-> bridge, faulty |-> fault # "none", edges |-> edges,
         mapped |-> MappedObjects(bridge, record, edges)]

\* What loading can find: the map of the bridge, or one record of it changed.
Intact(w, record) ==
    [wellFormed |-> TRUE, mapPin |-> TRUE, sourcePin |-> TRUE,
     catalog |-> [o \in DOMAIN record |-> record[o].extent], mapped |-> w.mapped,
     forward |-> w.edges, reverse |-> w.edges]

Damaged(m) ==
    {[m EXCEPT !.mapPin = FALSE], [m EXCEPT !.sourcePin = FALSE],
     [m EXCEPT !.wellFormed = FALSE], [m EXCEPT !.reverse = {}]}
    \cup UNION {{[m EXCEPT !.reverse = @ \ {e}], [m EXCEPT !.forward = @ \ {e}],
                 [m EXCEPT !.catalog[e.obj] = <<@[1], @[2] + 1>>]} :
                   e \in {d \in m.forward : d.chunk \in LostChunks}}

-----------------------------------------------------------------------------
\* Loading: every edge must agree with its other direction and the catalog.

\* _edge_round_trip_consistent and _catalog_edge_consistent.
RoundTrips(reverse, forward) ==
    /\ reverse.obj = forward.obj
    /\ reverse.coverage = forward.coverage
    /\ reverse.overlap = forward.overlap
    /\ reverse.extent = forward.extent

AgreesWithCatalog(m, edge) == edge.extent = m.catalog[edge.obj]

Consistent(m, reverse, forward) ==
    /\ reverse.chunk = forward.chunk
    /\ RoundTrips(reverse, forward)
    /\ AgreesWithCatalog(m, reverse) /\ AgreesWithCatalog(m, forward)

\* _derive_forward_edges: the reverse edges that survive.
CheckedEdges(m) == {r \in m.reverse : \E f \in m.forward : Consistent(m, r, f)}

RoundTripOk(m) ==
    /\ m.wellFormed
    /\ m.reverse = CheckedEdges(m)
    /\ \A f \in m.forward : \E r \in CheckedEdges(m) : Consistent(m, r, f)

(* Mutated form: the pins are trusted, the directions are not compared.    *)
CatalogVerifiedByPins(m) == m.mapPin /\ m.sourcePin /\ CheckedEdges(m) # {}

CatalogVerified(m) ==
    /\ m.mapPin /\ m.sourcePin
    /\ CheckedEdges(m) # {}
    /\ RoundTripOk(m)

BuildIndex(m) ==
    [edges |-> CheckedEdges(m), verified |-> CatalogVerified(m), mapped |-> m.mapped]

-----------------------------------------------------------------------------
\* Queries of the index.

RuntimeEdges(o) == IF index.verified THEN {e \in index.edges : e.obj = o} ELSE {}

\* An item names its runtime chunk or not; None matches no edge.
EdgesForItem(item, o) == {e \in RuntimeEdges(o) : e.chunk = item.native}

ObjectsOfRuntime(item) == {e.obj : e \in {d \in index.edges : d.chunk = item.native}}

HasVerifiedObject(o) == index.verified

HasCompleteExtent(o) == o \in index.mapped

TableCells(t) ==
    IF index.verified THEN {o \in DOMAIN Record : Record[o].kind = "cell" /\ Record[o].table = t}
                      ELSE {}

HasTableFootprint(t) ==
    /\ HasVerifiedObject(t)
    /\ TableCells(t) # {}
    /\ \A o \in TableCells(t) :
          HasCompleteExtent(o) /\ \E e \in RuntimeEdges(o) : IsFull(e)

\* The catalog objects a typed locator names (a text span names none here).
ObjectsForLocator(loc) ==
    IF index.verified /\ loc.type # "span" THEN {loc.obj} \cap DOMAIN Record ELSE {}

ProveTrueMiss(o, returned) ==
    /\ HasCompleteExtent(o)
    /\ RuntimeEdges(o) # {}
    /\ {e.chunk : e \in RuntimeEdges(o)} \cap returned = {}

-----------------------------------------------------------------------------
\* One item against one Gold object.

IsTable(g) == Locator[g].type = "object" /\ Locator[g].obj[1] = "table"

LocatorCovers(observed, expected) ==
    /\ observed.type = expected.type
    /\ IF observed.type = "span" THEN Holds(observed.span, expected.span)
                                 ELSE observed.obj = expected.obj

\* The locator of an edge is the one its object has in the catalog.
EdgeLocator(e) ==
    [type |-> IF Record[e.obj].kind = "cell" THEN "cell" ELSE "object", obj |-> e.obj]

\* Whether an edge speaks of the place the Gold names.
EdgeNames(e, g) ==
    IF Locator[g].type = "span" THEN e.extent = Locator[g].span
                                ELSE LocatorCovers(EdgeLocator(e), Locator[g])

\* ... and as a proof: the extent of a cell never stands for a text span.
EdgeProves(e, g) ==
    EdgeNames(e, g) /\ (Locator[g].type = "span" => Record[e.obj].kind # "cell")

AnyOf(S) == CHOOSE x \in S : TRUE

\* _edge_for_gold: the edges an item claims come first, then the catalog's
\* (which is not asked for a span: no object has a span for its locator).
EdgesForGold(item, g) ==
    LET claimed == {e \in item.claims : EdgeNames(e, g)}
        trusted == UNION {EdgesForItem(item, o) : o \in ObjectsForLocator(Locator[g])}
    IN  IF claimed # {} THEN claimed ELSE trusted

EdgeForGold(item, g) ==
    LET edges == EdgesForGold(item, g)
    IN  IF edges = {} THEN None ELSE AnyOf(edges)

\* _table_scope_is_verified: every physical cell is fully in this one chunk.
TableScopeVerified(item, t) ==
    /\ \E e \in EdgesForItem(item, t) : IsFull(e)
    /\ HasCompleteExtent(t)
    /\ TableCells(t) # {}
    /\ \A o \in TableCells(t) :
          HasCompleteExtent(o) /\ \E e \in EdgesForItem(item, o) : IsFull(e)

\* _table_item_is_complete: without an edge, the authored value must be there.
TableItemComplete(item, g, edge) ==
    IF edge = None THEN g \in item.text
    ELSE IsFull(edge) /\ Record[edge.obj].kind = "table"
         /\ TableScopeVerified(item, Locator[g].obj)

\* _formal_edge_supports_locator: a formal claim needs a full catalog edge.
FormalEdgeSupports(item, g, edge) ==
    LET claimed == {e.obj : e \in item.claims}
        targets == IF Locator[g].type = "object" THEN {Locator[g].obj}
                   ELSE claimed \cup ObjectsOfRuntime(item)
    IN  \E o \in targets : \E e \in EdgesForItem(item, o) :
          /\ IsFull(e) /\ HasCompleteExtent(o)
          /\ EdgeProves(e, g)
          /\ edge # None => edge.obj = o
          /\ claimed # {} => o \in claimed

EdgeCoversGold(item, g, edge) ==
    /\ IsFull(edge)
    /\ IF IsTable(g) THEN TableItemComplete(item, g, edge) ELSE EdgeProves(edge, g)

DirectMatch(item, g) ==
    LET edge == EdgeForGold(item, g)
        supported == item.envelope = "formal" => FormalEdgeSupports(item, g, edge)
    IN  IF item.locator # None /\ item.locator.type = Locator[g].type
        THEN /\ LocatorCovers(item.locator, Locator[g])
             /\ IsTable(g) => TableItemComplete(item, g, edge)
             /\ supported
        ELSE edge # None /\ supported /\ EdgeCoversGold(item, g, edge)

\* _quote_match: unique text of the document, for items without an envelope.
QuoteMatch(item, g) ==
    /\ item.envelope = "legacy"
    /\ g \in item.text \cap UniqueQuotes
    /\ item.locator # None => LocatorCovers(item.locator, Locator[g])

MatchEvidence(item, g) ==
    item.envelope # "invalid" /\ (DirectMatch(item, g) \/ QuoteMatch(item, g))

-----------------------------------------------------------------------------
\* Verified parts of a Gold object.

TargetObjects(g) ==
    CASE Locator[g].type = "span"   -> {}
      [] Locator[g].type = "object" -> {Locator[g].obj}
      [] OTHER                      -> ObjectsForLocator(Locator[g])

GoldSpan(g) ==
    IF Locator[g].type = "span" THEN Locator[g].span
    ELSE IF Locator[g].obj \in DOMAIN Record THEN Record[Locator[g].obj].extent
    ELSE None

\* _gold_expected_span: a cell is resolved through the trusted catalog only.
ExpectedSpan(g) ==
    IF Locator[g].type # "span" /\ TargetObjects(g) = {} THEN None ELSE GoldSpan(g)

\* _partial_piece: the part of the Gold object one item proves, or None.
PartialPiece(item, g) ==
    LET edge     == EdgeForGold(item, g)
        observed == IF item.locator # None /\ item.locator.type = "span"
                    THEN item.locator.span ELSE edge.overlap
        trusted  == {e \in EdgesForItem(item, edge.obj) : ~ IsFull(e)}
    IN  IF /\ ExpectedSpan(g) # None /\ IsSpan(ExpectedSpan(g))
           /\ edge # None
           /\ item.envelope = "formal"
           /\ IsSpan(observed)
           /\ Holds(ExpectedSpan(g), observed)
           /\ ~ IsFull(edge)
           /\ edge.overlap = observed
           /\ Locator[g].type # "span" => edge \in trusted
           /\ TargetObjects(g) # {} => edge.obj \in TargetObjects(g)
           /\ item.span # None /\ Holds(item.span, observed)
           /\ edge.extent = ExpectedSpan(g)
        THEN [obj |-> edge.obj, span |-> observed]
        ELSE None

Pieces(sel, g) ==
    {[rank |-> i, obj |-> PartialPiece(sel[i], g).obj, span |-> PartialPiece(sel[i], g).span] :
        i \in {j \in DOMAIN sel : PartialPiece(sel[j], g) # None}}

PieceBefore(p, q) ==
    \/ p.span[1] < q.span[1]
    \/ p.span[1] = q.span[1] /\ p.span[2] < q.span[2]
    \/ p.span = q.span /\ p.rank < q.rank

\* _complete_partial_union: the pieces of one object, read from the left, reach
\* its end.  A piece that begins beyond what those before it reach is a gap; one
\* that reaches further than all of them is used.
Continues(pieces, span, p) ==
    \/ p.span[1] <= span[1]
    \/ \E q \in pieces : PieceBefore(q, p) /\ p.span[1] <= q.span[2]

Connected(pieces, span) ==
    /\ \A p \in pieces : Continues(pieces, span, p)
    /\ \E p \in pieces : span[2] <= p.span[2]

UsedPieces(pieces) ==
    {p \in pieces : \A q \in pieces : PieceBefore(q, p) => q.span[2] < p.span[2]}

(* Mutated form: an item that is no piece spoils the union.                *)
WholeFromPartsAlone(sel, g) ==
    LET pieces == Pieces(sel, g)
    IN  Cardinality(pieces) = Len(sel) /\ Connected(pieces, ExpectedSpan(g))

WholeFromParts(sel, g) ==
    LET pieces == Pieces(sel, g)
    IN  /\ \A p, q \in pieces : p.obj = q.obj
        /\ Connected(pieces, ExpectedSpan(g))

UnionRank(sel, g) == Max({p.rank : p \in UsedPieces(Pieces(sel, g))})

\* _complete_table_union and _partial_table_footprint: the earliest item that
\* fully holds each physical cell, for the cells that have one.
CellItems(sel, cell) ==
    {i \in DOMAIN sel : sel[i].envelope = "formal" /\ sel[i].native # None
                        /\ \E e \in EdgesForItem(sel[i], cell) : IsFull(e)}

FootprintCells(sel, g) == {o \in TableCells(Locator[g].obj) : CellItems(sel, o) # {}}

FootprintRank(sel, g) == Max({Min(CellItems(sel, o)) : o \in FootprintCells(sel, g)})

HasFootprint(g) == IsTable(g) /\ HasTableFootprint(Locator[g].obj)

-----------------------------------------------------------------------------
\* No proof of presence: a miss, or provenance that cannot tell.

\* _runtime_chunk_excludes_object.
ChunkExcludes(item, o) ==
    /\ index.verified
    /\ item.native \in Attributed
    /\ item.span \in {None, Source[item.native]}
    /\ HasCompleteExtent(o)
    /\ ~ Overlaps(Source[item.native], Record[o].extent)

\* _item_references_gold.
ReferencesGold(item, g) ==
    LET known   == IF index.verified THEN ObjectsOfRuntime(item) ELSE {}
        span    == Locator[g].type = "span"
        targets == TargetObjects(g)
        another == IF span THEN EdgeForGold(item, g) = None
                   ELSE /\ targets # {} /\ targets \cap known = {}
                        /\ \E o \in targets : ChunkExcludes(item, o)
        text    == item.locator = None /\ g \in item.text
    IN  /\ ~ (known # {} /\ another)
        /\ IF item.locator # None /\ ~ span
           THEN item.locator = Locator[g]
           ELSE IF item.locator # None /\ item.locator.type # "span" THEN FALSE
           ELSE \/ EdgeForGold(item, g) # None
                \/ /\ item.locator # None /\ span
                   /\ Overlaps(item.locator.span, Locator[g].span)
                \/ text

\* _miss_reason.
ProvenMiss(sel, g) ==
    \E o \in ObjectsForLocator(Locator[g]) :
        ProveTrueMiss(o, {sel[i].native : i \in DOMAIN sel})

Is(status, rank) == [status |-> status, rank |-> rank]

\* localize_gold_evidence over the items of one cutoff.
Localize(sel, g) ==
    LET exact   == {i \in DOMAIN sel : MatchEvidence(sel[i], g)}
        pieces  == {p \in Pieces(sel, g) : p.rank \notin exact}
        unknown == {i \in DOMAIN sel : /\ i \notin exact
                                       /\ PartialPiece(sel[i], g) = None
                                       /\ ReferencesGold(sel[i], g)}
        cells   == FootprintCells(sel, g)
        whole   == HasFootprint(g) /\ cells = TableCells(Locator[g].obj)
    IN  IF exact # {} THEN Is("matched", Min(exact))
        ELSE IF whole THEN Is("matched", FootprintRank(sel, g))
        ELSE IF HasFootprint(g) /\ cells # {} THEN Is("partial", FootprintRank(sel, g))
        ELSE IF WholeFromParts(sel, g) THEN Is("matched", UnionRank(sel, g))
        ELSE IF pieces # {} THEN Is("partial", Max({p.rank : p \in pieces}))
        ELSE IF unknown # {} /\ ~ ProvenMiss(sel, g) THEN Is("provenance_missing", Min(unknown))
        ELSE Is("retrieval_missed", 0)

-----------------------------------------------------------------------------
\* The items an adapter returns for a chunk.  Their metadata carries a set of
\* provenance fields, some of which may not hold what they are checked against.

Fields == {"schema", "source_sha256", "content_sha256", "map_digest", "source_span"}

\* _metadata_integrity: no field is no claim; every claim made must hold, and
\* a schema obliges the item to both digests.
Envelope(meta) ==
    LET digests == {"source_sha256", "content_sha256"}
    IN  IF meta.status \in {"missing", "unavailable"} THEN "invalid"
        ELSE IF meta.fields = {} THEN "legacy"
        ELSE IF meta.wrong # {} THEN "invalid"
        ELSE IF "schema" \in meta.fields /\ ~ (digests \subseteq meta.fields) THEN "invalid"
        ELSE "formal"

Item(c, meta, claims) ==
    [native |-> c, envelope |-> Envelope(meta), locator |-> None, claims |-> claims,
     span |-> IF "source_span" \in meta.fields THEN Source[c] ELSE None,
     text |-> Quoted[c], of |-> c]

Verified == [status |-> "full", fields |-> Fields, wrong |-> {}]
Spanless == [Verified EXCEPT !.fields = @ \ {"source_span"}]
Tampered == [Verified EXCEPT !.wrong = {"content_sha256"}]
NoMapping == [status |-> "missing", fields |-> {"source_span"}, wrong |-> {}]
NoEnvelope == [status |-> "absent", fields |-> {}, wrong |-> {}]

\* A chunk without edges carries the missing-provenance marker; a chunk of one
\* whole object shows its locator; an adapter that knows nothing of the corpus
\* returns the text alone.
ItemsOf(c) ==
    LET edges == {e \in written.edges : e.chunk = c}
    IN  {[Item(c, NoEnvelope, {}) EXCEPT !.native = None]}
        \cup (IF edges = {} THEN {Item(c, NoMapping, {})}
              ELSE {Item(c, Verified, edges), Item(c, Tampered, edges), Item(c, Spanless, {})})
        \cup {[Item(c, Verified, {e}) EXCEPT !.locator = EdgeLocator(e)] :
                 e \in {d \in edges : IsFull(d) /\ edges = {d}}}
=============================================================================
