--------------------------- MODULE LightRagAdapter ---------------------------
(***************************************************************************)
(* The LightRAG adapter inside its worker: it uploads the staged inputs to *)
(* the managed server, waits for every track, and accepts the index only if*)
(* the server persisted each input as exactly one unchanged chunk          *)
(* (rag_eval_lightrag_adapter/adapter.py, canonical_provenance.py).  The   *)
(* server is external: it may refuse an upload, alter or split a text, lose*)
(* its span, or store a chunk of its own.                                  *)
(*                                                                         *)
(* An input of a benchmark corpus is a leaf, of a canonical corpus a batch *)
(* of segments.  Benchmark inputs go out in groups, canonical ones alone.  *)
(***************************************************************************)
EXTENDS CanonicalSegments

CONSTANT UploadBatch \* benchmark_upload_batch_size

ASSUME UploadAssumption == UploadBatch \in Nat \ {0}

VARIABLES
    setup,  \* [adapter, provider, corpus, doc, gold], fixed for the run
    inputs, \* the documents staged for ingestion, in upload order
    upload, \* [next, open, failed]: the ingest call in progress
    store,  \* what became of every input on the server
    alien   \* the server stored a chunk that belongs to no input

lightVars == <<upload, store, alien>>

Unsent == [i \in DOMAIN inputs |-> "unsent"]
NoUpload == [next |-> 1, open |-> {}, failed |-> FALSE]

\* The order of the leaves' ordinals: the cells' first, by row and column, then
\* those of the other records as the document has them (of two tables the first
\* in the document, where the code compares their ids).
Before(doc, l, m) ==
    LET key(x) == LET r == RecordOf(doc, x.obj)
                  IN  IF r.kind = "cell" THEN <<0, r.row, r.col, Order(doc, x.obj), x.from>>
                      ELSE <<1, 0, 0, Order(doc, x.obj), x.from>>
    IN  \E n \in 1 .. 5 : /\ key(l)[n] < key(m)[n]
                          /\ \A k \in 1 .. (n - 1) : key(l)[k] = key(m)[k]

\* materialize_benchmark_segment_documents.
LeavesInOrder(doc) ==
    LET leaves == Leaves(doc)
    IN  CHOOSE s \in [1 .. Cardinality(leaves) -> leaves] :
            \A i, j \in DOMAIN s : i < j => Before(doc, s[i], s[j])

\* materialize_canonical_segment_documents.
InputsOf(s) ==
    CASE s.corpus = "benchmark" -> LeavesInOrder(s.doc)
      [] s.corpus = "canonical" -> Batches(s.doc)
      [] OTHER -> s.doc

-----------------------------------------------------------------------------
(* Ingestion.                                                              *)

GroupSize == IF setup.corpus = "benchmark" THEN UploadBatch ELSE 1

Group == {i \in DOMAIN inputs : upload.next <= i /\ i < upload.next + GroupSize}

\* One group is posted; every accepted upload is awaited, refused or not.
PostGroup ==
    /\ upload.open = {} /\ ~ upload.failed /\ Group # {}
    /\ \E refused \in SUBSET Group :
         /\ upload' = [next |-> upload.next + GroupSize, open |-> Group \ refused,
                       failed |-> refused # {}]
         /\ store' = [i \in DOMAIN store |-> IF i \in Group \ refused THEN "queued" ELSE store[i]]
    /\ UNCHANGED alien

Outcomes == {"exact", "altered", "unspanned", "split", "rejected"}

\* The server processes a document it accepted; nobody need wait for it.
Process(i) ==
    /\ store[i] = "queued"
    /\ \E outcome \in Outcomes : store' = [store EXCEPT ![i] = outcome]
    /\ \E other \in BOOLEAN : alien' = (alien \/ other)
    /\ UNCHANGED upload

\* _wait_for_ingestion returns, raises for a failed document, or runs out of
\* time while the server goes on.
Await(i) ==
    /\ i \in upload.open
    /\ \E late \in BOOLEAN :
         /\ late \/ store[i] # "queued"
         /\ upload' = [upload EXCEPT !.open = @ \ {i},
                                     !.failed = @ \/ late \/ store[i] = "rejected"]
    /\ UNCHANGED <<store, alien>>

UploadsEnd == upload.open = {} /\ (upload.failed \/ Group = {})

\* The records of kv_store_text_chunks.json for one input.
Chunks(i) ==
    LET chunk(n, same, whole) == [input |-> i, n |-> n, same |-> same, whole |-> whole]
    IN  CASE store[i] = "exact"     -> {chunk(1, TRUE, TRUE)}
          [] store[i] = "altered"   -> {chunk(1, FALSE, TRUE)}
          [] store[i] = "unspanned" -> {chunk(1, TRUE, FALSE)}
          [] store[i] = "split"     -> {chunk(1, FALSE, FALSE), chunk(2, FALSE, FALSE)}
          [] OTHER                  -> {}

\* _build_benchmark_segment_mapping and
\* build_canonical_segment_provenance_manifest.
Accepted(n) ==
    /\ ~ alien
    /\ \A i \in 1..n : /\ Cardinality(Chunks(i)) = 1
                       /\ \A c \in Chunks(i) : c.same /\ c.whole

-----------------------------------------------------------------------------
(* Queries.  A reply is None or a sequence of [chunk, same]: the input whose*)
(* chunk the item names, 0 for a chunk outside the mapping, and whether the *)
(* content and the file it returns are that chunk's.                        *)

Items == [chunk : DOMAIN inputs \cup {0}, same : BOOLEAN]

\* _benchmark_segment_traces for one stage.
Observation(reply) ==
    IF \/ \E i, j \in DOMAIN reply : i # j /\ reply[i].chunk = reply[j].chunk
       \/ \E i \in DOMAIN reply : reply[i].chunk \notin DOMAIN inputs \/ ~ reply[i].same
    THEN [status |-> "mapping_corrupted", found |-> {}]
    ELSE [status |-> "observed", found |-> {reply[i].chunk : i \in DOMAIN reply}]

Unobservable == [status |-> "runtime_error", found |-> {}]
=============================================================================
