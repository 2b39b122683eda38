-------------------------- MODULE BenchmarkContract --------------------------
(***************************************************************************)
(* The benchmark contract (rag_eval/datasets/benchmark_contract.py): how   *)
(* the records of a canonical document are cut into retrievable leaves, and*)
(* how Gold Evidence, which names canonical objects, is projected onto the *)
(* leaves.                                                                 *)
(*                                                                         *)
(* A document is a sequence of records                                     *)
(*     [id, kind, table, row, col, len, stops, usable, shows]              *)
(* len is the length of the record's normalized text, stops the offsets    *)
(* just behind its boundary characters.  A leaf [obj, from, to] holds the  *)
(* offsets from+1 .. to of one record.  Ids made of digests are the values *)
(* they digest.  Gold is                                                   *)
(*     [abstain, evidence, paths]                                          *)
(* where evidence maps an id to [by, obj, table, row, col, witness], and a *)
(* path is a sequence of clauses, each a set of evidence ids.  Leaves are  *)
(* kept as sets: their order is never compared.                            *)
(***************************************************************************)
EXTENDS Integers, FiniteSets, Sequences, FiniteSetsExt

CONSTANTS Envelope, \* characters of a leaf left for cell headers and content
          MaxPaths, \* evidence paths one Gold may expand to (1024)
          NoWitness,\* evidence that names no narrower witness
          Ambiguous \* a witness that occurs more than once

ASSUME EnvelopeAssumption == Envelope \in Nat /\ MaxPaths \in Nat

RootKinds == {"paragraph", "heading"}
Structural == {"table", "row"}

Records(doc) == {doc[i] : i \in DOMAIN doc}
RecordOf(doc, id) == CHOOSE r \in Records(doc) : r.id = id
Position(r) == <<r.table, r.row, r.col>>

\* The cells by position: of two records at one position the later one stays.
CellRecords(doc) ==
    {doc[i] : i \in {n \in DOMAIN doc :
        /\ doc[n].kind = "cell"
        /\ \A m \in DOMAIN doc :
             m > n /\ doc[m].kind = "cell" => Position(doc[m]) # Position(doc[n])}}

CellsIn(doc, table) == {c \in CellRecords(doc) : c.table = table}

\* _table_cell_context: a cell is rendered with the texts that head its row
\* and its column; a header cell heads itself.
HeaderSize(doc, cell) ==
    LET mates  == CellsIn(doc, cell.table)
        first  == Min({c.row : c \in mates})
        left   == Min({c.col : c \in mates})
        size(row, col) ==
            LET there == {m \in mates : m.row = row /\ m.col = col}
            IN  IF there = {} THEN 0 ELSE (CHOOSE c \in there : TRUE).len
    IN  size(first, cell.col) + size(cell.row, left)

Room(doc, r) == Envelope - (IF r.kind = "cell" THEN HeaderSize(doc, r) ELSE 0)

-----------------------------------------------------------------------------
\* _split_preserving_text.

\* Where the piece that starts behind `from` ends: the last boundary in reach.
CutAfter(r, from, room) ==
    LET stops == {s \in r.stops : from < s /\ s <= from + room}
    IN  IF r.len - from <= room THEN r.len
        ELSE IF stops = {} THEN from + room ELSE Max(stops)

Split(r, room) ==
    LET pieces[from \in 0 .. r.len] ==
          IF from = r.len THEN {}
          ELSE LET cut == CutAfter(r, from, room)
               IN  {[obj |-> r.id, from |-> from, to |-> cut]} \cup pieces[cut]
    IN  pieces[0]

-----------------------------------------------------------------------------
\* _build_segments.

Retrievable(doc) ==
    {r \in CellRecords(doc) \cup {p \in Records(doc) : p.kind \in RootKinds} : r.len > 0}

Leaves(doc) == UNION {Split(r, Room(doc, r)) : r \in Retrievable(doc)}

\* A table and a row stand for the leaves of their cells.
LeavesOf(doc, id) ==
    LET r == RecordOf(doc, id)
        members == CASE r.kind = "table" -> {c.id : c \in CellsIn(doc, r.id)}
                     [] r.kind = "row"   -> {c.id : c \in {m \in CellsIn(doc, r.table) : m.row = r.row}}
                     [] OTHER            -> {id}
    IN  {l \in Leaves(doc) : l.obj \in members}

SegmentsFail(doc) ==
    \/ \E r \in Retrievable(doc) : Room(doc, r) < 1
    \/ Retrievable(doc) = {}

-----------------------------------------------------------------------------
\* _gold_segments and _expanded_paths.

\* _cell_object_id: the records a locator may mean.
Candidates(doc, e) ==
    CASE e.by = "object" -> {r.id : r \in {x \in Records(doc) : x.id = e.obj}}
      [] e.by = "cell" -> {r.id : r \in {c \in Records(doc) :
                              c.kind = "cell" /\ Position(c) = <<e.table, e.row, e.col>>}}
      [] OTHER -> {}

Target(doc, e) == CHOOSE id \in Candidates(doc, e) : TRUE
IsStructural(doc, e) == e.by = "object" /\ RecordOf(doc, e.obj).kind \in Structural

(* A witness is NoWitness, [from, to] when it occurs exactly once, or       *)
(* Ambiguous.  It matters only to a text that was split.                    *)
Narrowed(doc, e) ==
    /\ ~ IsStructural(doc, e)
    /\ Cardinality(LeavesOf(doc, Target(doc, e))) > 1
    /\ e.witness # NoWitness

EvidenceFails(doc, e) ==
    \/ Cardinality(Candidates(doc, e)) # 1
    \/ LeavesOf(doc, Target(doc, e)) = {}
    \/ Narrowed(doc, e) /\ e.witness = Ambiguous

(* Mutated form: only the leaf the witness starts in is required.           *)
EvidenceLeavesStart(doc, e) ==
    LET leaves == LeavesOf(doc, Target(doc, e))
    IN  IF ~ Narrowed(doc, e) THEN leaves
        ELSE {l \in leaves : l.from <= e.witness.from /\ l.to > e.witness.from}

EvidenceLeaves(doc, e) ==
    LET leaves == LeavesOf(doc, Target(doc, e))
    IN  IF ~ Narrowed(doc, e) THEN leaves
        ELSE {l \in leaves : l.from < e.witness.to /\ l.to > e.witness.from}

\* One expanded path per choice of one evidence in every clause.
PathChoices(path) == {c \in [DOMAIN path -> UNION {path[i] : i \in DOMAIN path}] :
                     \A i \in DOMAIN path : c[i] \in path[i]}

Expanded(doc, gold) ==
    UNION {{[i \in DOMAIN gold.paths[p] |-> EvidenceLeaves(doc, gold.evidence[c[i]])] :
               c \in PathChoices(gold.paths[p])} : p \in DOMAIN gold.paths}

EvidencePaths(doc, gold) ==
    IF gold.abstain THEN {}
    ELSE {UNION {clauses[i] : i \in DOMAIN clauses} : clauses \in Expanded(doc, gold)}

\* build_benchmark_dataset raises; evidence no path uses is projected too.
ContractFails(doc, gold) ==
    \/ SegmentsFail(doc)
    \/ \E g \in DOMAIN gold.evidence : EvidenceFails(doc, gold.evidence[g])
    \/ /\ ~ gold.abstain
       /\ \/ Expanded(doc, gold) = {}
          \/ Cardinality(Expanded(doc, gold)) > MaxPaths
          \/ \E p \in DOMAIN gold.paths :
                \/ gold.paths[p] = <<>>
                \/ \E i \in DOMAIN gold.paths[p] :
                      gold.paths[p][i] = {} \/ ~ (gold.paths[p][i] \subseteq DOMAIN gold.evidence)

-----------------------------------------------------------------------------
(* Reference: the documents and the witnesses the contract is built from.   *)

\* _canonical_records refuses a repeated id; a cell has its place to itself.
IsDocument(doc) ==
    /\ Len(doc) \in Nat /\ DOMAIN doc = 1 .. Len(doc)
    /\ \A i \in DOMAIN doc :
         /\ doc[i].len \in Nat /\ doc[i].stops \subseteq Nat
         /\ doc[i].row \in Nat /\ doc[i].col \in Nat
         /\ \A j \in DOMAIN doc \ {i} :
              /\ doc[i].id # doc[j].id
              /\ doc[i].kind = "cell" /\ doc[j].kind = "cell" => Position(doc[i]) # Position(doc[j])

\* A witness that occurs once is some of the text.
IsWitnessed(doc, gold) ==
    \A g \in DOMAIN gold.evidence :
        LET e == gold.evidence[g]
        IN  Narrowed(doc, e) /\ e.witness # Ambiguous =>
                /\ e.witness.from \in Nat /\ e.witness.to \in Nat
                /\ e.witness.from < e.witness.to
                /\ e.witness.to <= RecordOf(doc, Target(doc, e)).len

-----------------------------------------------------------------------------
(* Reference: what a set of leaves shows of the document itself.            *)

ShownOffsets(leaves, id) ==
    UNION {(l.from + 1) .. l.to : l \in {x \in leaves : x.obj = id}}

\* The text the evidence is about lies wholly in the leaves.
ShowsEvidence(doc, e, leaves) ==
    LET target == Target(doc, e)
        parts  == IF RecordOf(doc, target).kind = "table"
                  THEN {r \in Records(doc) : r.kind = "cell" /\ r.table = target}
                  ELSE IF RecordOf(doc, target).kind = "row"
                  THEN {r \in Records(doc) : /\ r.kind = "cell"
                                             /\ r.table = RecordOf(doc, target).table
                                             /\ r.row = RecordOf(doc, target).row}
                  ELSE {RecordOf(doc, target)}
    IN  IF Narrowed(doc, e)
        THEN ((e.witness.from + 1) .. e.witness.to) \subseteq ShownOffsets(leaves, target)
        ELSE \A r \in parts : (1 .. r.len) \subseteq ShownOffsets(leaves, r.id)

ShowsGold(doc, gold, leaves) ==
    \E p \in DOMAIN gold.paths : \A i \in DOMAIN gold.paths[p] :
        \E g \in gold.paths[p][i] : ShowsEvidence(doc, gold.evidence[g], leaves)
=============================================================================
