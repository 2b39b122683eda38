-------------------------- MODULE RagAnythingAdapter --------------------------
(***************************************************************************)
(* The RAG-Anything adapter inside its worker: it takes the documents one  *)
(* after the other and keeps a liveness record on disk                     *)
(* (rag_eval_rag_anything_adapter/adapter.py).  A text is inserted as it is;*)
(* a native document is parsed, by a parser the library forks, and then    *)
(* indexed, while a monitor task watches for activity.  The library is     *)
(* external: it may fail at any point or fall silent.                      *)
(***************************************************************************)
EXTENDS Naturals

VARIABLES
    record, \* ingestion-liveness.json of the current repetition, or NoRecord
    native  \* [at, doing]: the document in hand

ragVars == <<record, native>>

Record(stage, active, terminal, confirmed) ==
    [stage |-> stage, active |-> active, terminal |-> terminal, confirmed |-> confirmed]

NoRecord == Record("absent", "none", FALSE, FALSE)
IdleRecord == Record("idle", "none", FALSE, FALSE)
FirstDocument == [at |-> 1, doing |-> "none"]

Working == {"parsing", "indexing"}
Terminal == {"cancelled", "failed", "completed"}

\* IngestionLiveness.transition.
Transition(r, stage) ==
    [r EXCEPT !.stage = stage,
              !.active = IF stage \in Working THEN stage ELSE @,
              !.terminal = stage \in Terminal]

Reached(stage) == record' = Transition(record, stage)
Doing(what) == native' = [native EXCEPT !.doing = what]

-----------------------------------------------------------------------------
(* ingest(documents) for n documents.                                      *)

NextText(n) ==
    /\ native.doing = "none" /\ native.at <= n
    /\ Doing("inserting")
    /\ Reached("indexing")

NextNative(n) ==
    /\ native.doing = "none" /\ native.at <= n
    /\ Doing("parsing")
    /\ Reached("parsing")

\* on_parse_complete.
ParseComplete ==
    /\ native.doing = "parsing"
    /\ Doing("indexing")
    /\ Reached("indexing")

\* A text is inserted without a callback; on_document_complete reports a
\* native document, the last or not.
DocumentDone ==
    /\ native.doing \in {"inserting", "indexing"}
    /\ native' = [at |-> native.at + 1, doing |-> "none"]
    /\ IF native.doing = "indexing" THEN Reached("completed") ELSE UNCHANGED record

\* The call raises; or the server task is cancelled while the worker shuts
\* down, which only the native branch reports.
DocumentFails ==
    /\ native.doing # "none"
    /\ Doing("none")
    /\ Reached("failed")

Interrupted ==
    /\ native.doing \in Working
    /\ Doing("none")
    /\ Reached("cancelling")

\* observe_activity, with and without a change since the last poll.
Monitored == native.doing \in Working /\ record.stage \in Working \cup {"stalled"}

ActivitySeen ==
    /\ Monitored
    /\ Reached(record.active)
    /\ UNCHANGED native

NoActivity ==
    /\ Monitored
    /\ Reached("stalled")
    /\ UNCHANGED native

AllDone(n) ==
    /\ native.doing = "none" /\ native.at > n
    /\ Reached("completed")
    /\ UNCHANGED native
=============================================================================
