---------------------------- MODULE EvidenceStage ----------------------------
(***************************************************************************)
(* A document on its way to a score.  DocxCanonicalizer scans it, the      *)
(* adapter ingests its text and writes the map of one bridge, the platform *)
(* loads the map, and one retrieval stage is localized at every cutoff: a  *)
(* step adds the next item of the list.                                    *)
(***************************************************************************)
EXTENDS EvidenceMatch

CONSTANTS Corpus,   \* bound: the execution text that is ingested
          MaxItems  \* bound: items of the stage

ASSUME ItemsAssumption == MaxItems \in Nat \ {0}

VARIABLES map,    \* the pinned provenance map as it was read
          items,  \* the items the stage returned so far, in rank order
          loc     \* their StageLocalization

corpusVars == <<Record, written, map>>
vars == <<canonVars, corpusVars, index, items, loc>>

Ingested == written # None
Loaded   == index # None

LocalizeStage(sel) == [g \in Golds |-> Localize(sel, g)]

Init ==
    /\ CanonInit
    /\ Record = <<>> /\ written = None /\ map = None
    /\ index = None
    /\ items = <<>>
    /\ loc = [g \in Golds |-> Is("retrieval_missed", 0)]

Scan == Canonicalize /\ UNCHANGED <<corpusVars, index, items, loc>>

\* The adapter's bridge; nothing but a healthy map is also damaged in the store.
Ingest ==
    /\ done /\ lines = Corpus /\ ~ Ingested
    /\ \E bridge \in {"source", "native"} : \E fault \in Faults(bridge) :
          LET record == Catalog(bridge)
              sent   == Manifest(bridge, record, fault)
          IN  /\ Record' = record
              /\ written' = sent
              /\ map' \in {Intact(sent, record)}
                          \cup IF sent.faulty THEN {} ELSE Damaged(Intact(sent, record))
    /\ UNCHANGED <<canonVars, index, items, loc>>

Load ==
    /\ Ingested /\ ~ Loaded
    /\ index' = BuildIndex(map)
    /\ UNCHANGED <<canonVars, corpusVars, items, loc>>

\* Bound: a list over a faulty or damaged map is one item shorter.
ListLimit ==
    IF written.faulty \/ map # Intact(written, Record) THEN MaxItems - 1 ELSE MaxItems

\* The next cutoff sees one item more.
Return ==
    /\ Loaded /\ Len(items) < ListLimit
    /\ \E c \in Chunks \ {items[i].of : i \in DOMAIN items} : \E item \in ItemsOf(c) :
          items' = Append(items, item)
    /\ loc' = LocalizeStage(items')
    /\ UNCHANGED <<canonVars, corpusVars, index>>

Next == Scan \/ Ingest \/ Load \/ Return

Spec == Init /\ [][Next]_vars

-----------------------------------------------------------------------------
\* The words of the document a Gold stands for, wherever the map puts them.
Truth(g) ==
    LET span == IF Locator[g].type = "span" THEN Locator[g].span ELSE home[Locator[g].obj]
    IN  span[1]..(span[2] - 1)

\* ... and of what it says: a table says what its cells say.
Content(g) ==
    IF ~ IsTable(g) THEN Truth(g)
    ELSE UNION {home[c][1]..(home[c][2] - 1) : c \in CellsOf(Locator[g].obj) \cap DOMAIN home}

\* The words that the items up to a cutoff really hold.
Held(sel) == UNION {Source[sel[i].of][1]..(Source[sel[i].of][2] - 1) : i \in DOMAIN sel}

\* The Golds that name an object of the catalog whose extent is complete.
Catalogued == {g \in Golds : Locator[g].type # "span" /\ HasCompleteExtent(Locator[g].obj)}

\* Captions written as list items: the alignment does not expect their marker.
ListedCaptions ==
    {b \in OfType("block") \cap DOMAIN home :
        cat[b].kind = "caption" /\ \A i \in DOMAIN lines : home[b][1] # LineStart(i)}

(* AlignedInOrder: whatever lines repeat, the blocks of a scanned document  *)
(* are aligned in their order and never to the same words, every one that  *)
(* was written is found, at its own line or before it, and a table, its    *)
(* rows and its cells are found where they were written.  The exception is *)
(* a caption in a list: it is found at a later line of its words or not at *)
(* all, and in the first case the blocks after it may be lost too.         *)
AlignedInOrder ==
    done /\ ~ Ingested =>
        LET aligned == Aligned
            skipped == \E b \in ListedCaptions : cat[b].value \in Range(lines)
        IN  /\ \A a, b \in OfType("block") \cap DOMAIN aligned :
                  cat[a].body < cat[b].body => aligned[a][2] <= aligned[b][1]
            /\ ~ skipped =>
                  \A b \in (OfType("block") \cap DOMAIN home) \ ListedCaptions :
                      b \in DOMAIN aligned /\ aligned[b][1] <= home[b][1]
            /\ \A id \in DOMAIN home \cap DOMAIN aligned :
                  id[1] \in {"table", "row", "cell"} => aligned[id] = home[id]

(* MatchedIsHeld: a Gold object counts as matched only when the returned    *)
(* chunks together hold every word the object was written to, for a table  *)
(* every word of its cells (what is between them is not asked for): whatever *)
(* lines repeat, whatever the parser's lineage claims, whichever direct,   *)
(* quote, table or union rule fired, and whatever the map lost.            *)
MatchedIsHeld ==
    \A g \in Golds : loc[g].status = "matched" => Content(g) \subseteq Held(items)

(* MissIsReal: with a trusted map, a catalogued object is reported as      *)
(* missed only if no returned chunk that names its identity holds it whole:*)
(* what provenance cannot decide is never scored as a retrieval miss.  The *)
(* exception is a chunk whose lineage the bridge rejected: it has no edge, *)
(* and the edges other chunks have are taken for all there are.            *)
MissIsReal ==
    items # <<>> /\ index.verified =>
        \A g \in Catalogued : loc[g].status = "retrieval_missed" =>
            \A i \in DOMAIN items :
                \/ items[i].native = None
                \/ written.faulty /\ items[i].of \in LostChunks
                \/ ~ (Truth(g) \subseteq Held(<<items[i]>>))

\* The list holds some cells of a table whose cells are all known, but not all.
HoldsSomeCells(g) ==
    HasFootprint(g) /\ FootprintCells(items, g) \notin {{}, TableCells(Locator[g].obj)}

(* MatchedStays: a longer list never loses a catalogued object that a      *)
(* shorter one matched, so recall@k does not fall as k grows.  The         *)
(* exception is a table the shorter list had in pieces that cut every cell *)
(* it shows: with the first whole cell the table becomes a partial one.    *)
MatchedStays ==
    [][Loaded => \A g \in Catalogued :
          loc[g].status = "matched" =>
              loc'[g].status = "matched" \/ HoldsSomeCells(g)']_vars
=============================================================================
