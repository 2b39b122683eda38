---------------------------- MODULE WorkerSession ----------------------------
(***************************************************************************)
(* A run on its workers: the executor's loop over repetitions and cases    *)
(* (rag_eval/execution.py), the wire protocol (worker/client.py,           *)
(* worker/app.py), the two adapters, the thread that watches for           *)
(* cancellation, and the end of the worker by the one or the other.        *)
(*                                                                         *)
(* A request is in flight while pc names it; a handler whose client gave up*)
(* goes on in late.  The worker answers requests side by side.             *)
(***************************************************************************)
EXTENDS LightRagAdapter, RagAnythingAdapter, WorkerHandle

CONSTANTS Setups,     \* the runs considered
          Reps,       \* repetitions of the experiment
          Cases,      \* questions of a repetition
          Replies,    \* the replies of a LightRAG server considered
          MaxCrashes  \* bound on worker crashes

ASSUME SessionAssumption == Reps \in Nat \ {0} /\ Cases \in Nat \ {0} /\ MaxCrashes \in Nat

VARIABLES
    pc,       \* where RunExecutor.execute stands
    rep,      \* repetition, from 1
    case,     \* number of the question in hand
    manifest, \* status of the run's manifest, "none" before it is created
    raised,   \* an exception is on its way through the finally block
    results,  \* the questions with a result, as <<repetition, number>>
    scored,   \* the last result: its status, the leaves observed, the hit
    adapter,  \* "fresh", "prepared" or "closed"
    late,     \* requests the client gave up whose handlers go on
    watcher,  \* watch_cancellation: [at, sure]
    cancelled,\* the run is to be cancelled
    crashes   \* worker crashes so far

sessionVars == <<pc, rep, case, manifest, raised, results, scored>>
workerVars == <<adapter, late>>
watchVars == <<watcher, cancelled>>
vars == <<setup, inputs, lightVars, ragVars, handleVars, sessionVars, workerVars,
          watchVars, crashes>>

IsLight == setup.adapter = "lightrag"
IsLocal == setup.provider = "local"

\* The contract of a run was built before its worker starts.
ASSUME SetupsAreBuilt ==
    \A s \in Setups : s.corpus = "benchmark" => ~ ContractFails(s.doc, s.gold)

NoResult == [status |-> "none", found |-> {}, hit |-> FALSE]
NoWatcher == [at |-> "off", sure |-> FALSE]

TypeOK ==
    /\ setup \in Setups
    /\ pc \in {"loop", "start", "handshake", "prepare", "ingest", "case", "send", "query",
               "stop", "closing", "snapshot", "kill", "join", "ended"}
    /\ rep \in 1 .. Reps /\ case \in 1 .. (Cases + 1)
    /\ procs \subseteq {"worker", "server", "parser"}
    /\ late \subseteq {"prepare", "ingest", "query"}
    /\ results \subseteq (1 .. Reps) \X (1 .. Cases)

Init ==
    /\ setup \in Setups /\ inputs = <<>>
    /\ upload = NoUpload /\ store = <<>> /\ alien = FALSE
    /\ record = NoRecord /\ native = FirstDocument
    /\ procs = {} /\ aimed = {} /\ tracked = FALSE /\ client = "none" /\ lock = "none"
    /\ name \in IF IsLocal THEN {"none"} ELSE {"none", "ours", "foreign"}
    /\ pc = "loop" /\ rep = 1 /\ case = 1 /\ manifest = "none" /\ raised = FALSE
    /\ results = {} /\ scored = NoResult
    /\ adapter = "fresh" /\ late = {}
    /\ watcher = NoWatcher /\ cancelled = FALSE /\ crashes = 0

\* The exception leaves for the finally block.
Raise ==
    /\ pc' = "stop" /\ raised' = TRUE
    /\ UNCHANGED <<rep, case, manifest, results, scored>>

GoTo(place) ==
    /\ pc' = place
    /\ UNCHANGED <<rep, case, manifest, raised, results, scored>>

End(status) ==
    /\ pc' = "ended" /\ manifest' = status
    /\ UNCHANGED <<rep, case, raised, results, scored>>

-----------------------------------------------------------------------------
(* The executor: a repetition begins.                                      *)

\* A run cancelled before it had a manifest "did not start".
LoopTop ==
    /\ pc = "loop"
    /\ IF cancelled THEN End(IF manifest = "none" THEN "none" ELSE "cancelled")
       ELSE GoTo("start")
    /\ UNCHANGED <<setup, inputs, lightVars, ragVars, handleVars, workerVars, watchVars, crashes>>

\* provider.start up to wait_for_handshake; refused when the name is taken.
StartWorker ==
    /\ pc = "start" /\ ~ tracked
    /\ adapter' = "fresh" /\ late' = {}
    /\ record' = NoRecord /\ native' = FirstDocument
    /\ upload' = NoUpload /\ alien' = FALSE /\ store' = Unsent
    /\ IF name = "foreign"
       THEN End(IF manifest = "none" THEN "none" ELSE "failed") /\ UNCHANGED handleVars
       ELSE Launch /\ UNCHANGED sessionVars
    /\ UNCHANGED <<setup, inputs, watchVars, crashes>>

\* The worker answers its first handshake; the watcher thread starts.
WorkerUp ==
    /\ pc = "start" /\ tracked /\ Alive
    /\ GoTo("handshake")
    /\ watcher' = [at |-> "polling", sure |-> FALSE]
    /\ UNCHANGED <<setup, inputs, lightVars, ragVars, handleVars, workerVars, cancelled, crashes>>

\* wait_for_handshake runs out of time: start() itself ends the worker.
HandshakeTimesOut ==
    /\ pc = "start" /\ tracked
    /\ Raise
    /\ UNCHANGED <<setup, inputs, lightVars, ragVars, handleVars, workerVars, watchVars, crashes>>

\* The first repetition creates the manifest and stages the documents.
Handshake ==
    /\ pc = "handshake" /\ Alive /\ client = "open"
    /\ manifest' = IF manifest = "none" THEN "preparing" ELSE manifest
    /\ IF setup.corpus = "canonical" /\ ManifestFails(setup.doc, setup.gold)
       THEN /\ pc' = "stop" /\ raised' = TRUE
            /\ UNCHANGED <<inputs, store>>
       ELSE /\ pc' = "prepare" /\ UNCHANGED raised
            /\ inputs' = InputsOf(setup)
            /\ store' = [i \in DOMAIN inputs' |-> "unsent"]
    /\ UNCHANGED <<setup, upload, alien, ragVars, handleVars, workerVars, watchVars, crashes,
                   rep, case, results, scored>>

-----------------------------------------------------------------------------
(* The worker's side of prepare, ingest and close.                         *)

Serving(kind) == Alive /\ (pc = kind \/ kind \in late)

\* The reply reaches the executor, or nobody.
Answer(kind, reaction) ==
    IF pc = kind THEN reaction /\ UNCHANGED late
    ELSE late' = late \ {kind} /\ UNCHANGED sessionVars

StartServer ==
    /\ IsLight /\ Serving("prepare") /\ adapter = "fresh"
    /\ Spawn("server")
    /\ UNCHANGED <<setup, inputs, lightVars, ragVars, sessionVars, workerVars, watchVars, crashes>>

\* The executor records INGESTING and sends the documents.
Prepared ==
    /\ Serving("prepare") /\ adapter = "fresh"
    /\ IsLight => "server" \in procs
    /\ adapter' = "prepared"
    /\ record' = IF IsLight THEN record ELSE IdleRecord
    /\ Answer("prepare",
              /\ pc' = "ingest"
              /\ manifest' = IF manifest = "preparing" THEN "ingesting" ELSE manifest
              /\ UNCHANGED <<rep, case, raised, results, scored>>)
    /\ UNCHANGED <<setup, inputs, lightVars, native, handleVars, watchVars, crashes>>

PrepareFails ==
    /\ Serving("prepare")
    /\ Answer("prepare", Raise)
    /\ UNCHANGED <<setup, inputs, lightVars, ragVars, handleVars, adapter, watchVars, crashes>>

Ingesting == Serving("ingest") /\ adapter # "fresh"

\* Steps of the handler, and of the server behind it.
LightIngest ==
    /\ IsLight /\ "server" \in procs
    /\ \/ Ingesting /\ (PostGroup \/ \E i \in upload.open : Await(i))
       \/ \E i \in DOMAIN store : Process(i)
    /\ UNCHANGED <<setup, inputs, ragVars, handleVars, sessionVars, workerVars, watchVars, crashes>>

RagIngest ==
    /\ ~ IsLight /\ Ingesting
    /\ \/ IF setup.corpus = "source" THEN NextNative(Len(inputs)) ELSE NextText(Len(inputs))
       \/ "parser" \notin procs /\ ParseComplete
       \/ DocumentDone
       \/ ActivitySeen
       \/ NoActivity
    /\ UNCHANGED <<setup, inputs, lightVars, handleVars, sessionVars, workerVars, watchVars, crashes>>

Parser ==
    /\ \/ ~ IsLight /\ Ingesting /\ native.doing = "parsing" /\ Spawn("parser")
       \/ ChildEnds("parser")
    /\ UNCHANGED <<setup, inputs, lightVars, ragVars, sessionVars, workerVars, watchVars, crashes>>

\* The segments that are chunks of the server.
Stored == UNION {inputs[i] : i \in {j \in DOMAIN inputs : store[j] = "exact"}}

\* validate_benchmark_ingestion_contract, validate_native_provenance_contract
\* and validate_canonical_segment_provenance_contract.  RAG-Anything declares
\* no ranking and publishes no provenance of native documents.
GatePasses ==
    LET evidence == setup.gold.evidence
    IN  CASE setup.corpus = "canonical" ->
               \A g \in DOMAIN evidence : Deterministic(setup.doc, evidence[g], Stored)
          [] setup.corpus = "source" -> DOMAIN evidence = {}
          [] OTHER -> TRUE

\* The ingest handler returns; the executor checks what it says of the index.
Ingested ==
    /\ Ingesting
    /\ IF IsLight THEN /\ "server" \in procs
                       /\ UploadsEnd /\ ~ upload.failed /\ Accepted(Len(inputs))
                       /\ UNCHANGED ragVars
       ELSE AllDone(Len(inputs))
    /\ Answer("ingest",
              IF GatePasses
              THEN /\ pc' = "case" /\ case' = 1 /\ manifest' = "running"
                   /\ UNCHANGED <<rep, raised, results, scored>>
              ELSE Raise)
    /\ UNCHANGED <<setup, inputs, lightVars, handleVars, adapter, watchVars, crashes>>

\* The handler raises.
IngestFails ==
    /\ Ingesting
    /\ IF IsLight THEN UNCHANGED ragVars
       ELSE DocumentFails \/ (aimed # {} /\ Interrupted)
    /\ IsLight => \/ UploadsEnd /\ (upload.failed \/ ~ Accepted(Len(inputs)))
                  \/ "server" \notin procs
    /\ Answer("ingest", Raise)
    /\ UNCHANGED <<setup, inputs, lightVars, handleVars, adapter, watchVars, crashes>>

-----------------------------------------------------------------------------
(* The questions of the repetition.                                        *)

\* The last result is on disk.  After the last question the worker is ended;
\* a cancelled run asks no more.
NextCase ==
    /\ pc = "case"
    /\ pc' = IF case > Cases \/ cancelled THEN "stop" ELSE "send"
    /\ manifest' = IF case <= Cases /\ cancelled THEN "cancelled" ELSE manifest
    /\ scored' = NoResult
    /\ UNCHANGED <<setup, inputs, lightVars, ragVars, handleVars, rep, case, raised, results,
                   workerVars, watchVars, crashes>>

\* A client the watcher closed raises what execute_case does not catch.
SendQuery ==
    /\ pc = "send"
    /\ IF client = "open" THEN GoTo("query") ELSE Raise
    /\ UNCHANGED <<setup, inputs, lightVars, ragVars, handleVars, workerVars, watchVars, crashes>>

Result(status, found, hit) ==
    /\ results' = results \cup {<<rep, case>>}
    /\ scored' = [status |-> status, found |-> found, hit |-> hit]
    /\ case' = case + 1
    /\ pc' = IF status = "cancelled" THEN "stop" ELSE "case"
    /\ manifest' = IF status = "cancelled" THEN "cancelled" ELSE manifest
    /\ UNCHANGED <<rep, raised>>

Failed(status) == Result(IF cancelled THEN "cancelled" ELSE status, {}, FALSE)

\* evaluate_segment_retrieval: some evidence path lies within what was found.
Hit(o) ==
    /\ o.status = "observed"
    /\ \E path \in EvidencePaths(setup.doc, setup.gold) : path \subseteq {inputs[i] : i \in o.found}

\* Only a LightRAG benchmark run reports its chunks.
Observed == IF IsLight /\ setup.corpus = "benchmark"
            THEN {Observation(reply) : reply \in Replies}
            ELSE {[status |-> "unsupported", found |-> {}]}

QueryAnswered ==
    /\ pc = "query" /\ Alive /\ adapter = "prepared"
    /\ IsLight => "server" \in procs
    /\ \E o \in Observed : Result(o.status, o.found, Hit(o))
    /\ UNCHANGED <<setup, inputs, lightVars, ragVars, handleVars, workerVars, watchVars, crashes>>

QueryFails ==
    /\ pc = "query" /\ Alive
    /\ Failed("system_error")
    /\ UNCHANGED <<setup, inputs, lightVars, ragVars, handleVars, workerVars, watchVars, crashes>>

LateQueryEnds ==
    /\ "query" \in late /\ Alive
    /\ late' = late \ {"query"}
    /\ UNCHANGED <<setup, inputs, lightVars, ragVars, handleVars, sessionVars, adapter, watchVars, crashes>>

-----------------------------------------------------------------------------
(* Requests that get no answer.                                            *)

TimesOut ==
    /\ pc \in {"prepare", "ingest", "query"} /\ Alive
    /\ late' = late \cup {pc}
    /\ IF pc = "query" THEN Failed("timeout") ELSE Raise
    /\ UNCHANGED <<setup, inputs, lightVars, ragVars, handleVars, adapter, watchVars, crashes>>

Broken ==
    /\ pc \in {"handshake", "prepare", "ingest", "query"} /\ ~ Alive
    /\ IF pc = "query" THEN Failed("system_error") ELSE Raise
    /\ UNCHANGED <<setup, inputs, lightVars, ragVars, handleVars, workerVars, watchVars, crashes>>

-----------------------------------------------------------------------------
(* The finally block: handle.stop() and the watcher's join.                *)

\* WorkerProcess.stop waits for the lock and may find the worker cancelled.
\* A container that never answered is removed without a request.
Stop ==
    /\ pc = "stop"
    /\ IF IsLocal
       THEN /\ lock = "none"
            /\ IF tracked THEN lock' = "main" /\ GoTo("closing")
               ELSE GoTo("join") /\ UNCHANGED lock
       ELSE /\ UNCHANGED lock
            /\ GoTo(IF client = "open" /\ watcher.at # "off" THEN "closing" ELSE "kill")
    /\ UNCHANGED <<setup, inputs, lightVars, ragVars, procs, aimed, tracked, client, name,
                   workerVars, watchVars, crashes>>

\* close_adapter: the adapter ends its server.
CloseAdapter ==
    /\ pc = "closing" /\ Alive
    /\ adapter' = "closed"
    /\ procs' = procs \ {"server"}
    /\ GoTo("snapshot")
    /\ UNCHANGED <<setup, inputs, lightVars, ragVars, aimed, tracked, client, lock, name, late,
                   watchVars, crashes>>

\* Best effort: no answer in time, or no worker.
CloseFails ==
    /\ pc = "closing"
    /\ GoTo("snapshot")
    /\ UNCHANGED <<setup, inputs, lightVars, ragVars, handleVars, workerVars, watchVars, crashes>>

SnapshotTree ==
    /\ pc = "snapshot"
    /\ IF IsLocal THEN Snapshot ELSE UNCHANGED handleVars
    /\ GoTo("kill")
    /\ UNCHANGED <<setup, inputs, lightVars, ragVars, workerVars, watchVars, crashes>>

EndWorker ==
    /\ pc = "kill"
    /\ IF IsLocal THEN Kill("main")
       ELSE RemoveContainer /\ client' = "closed"
    /\ GoTo("join")
    /\ UNCHANGED <<setup, inputs, lightVars, ragVars, workerVars, watchVars, crashes>>

\* The watcher is given a second, enough unless it is busy cancelling; then
\* the loop goes on, or the run ends.
Join ==
    /\ pc = "join" /\ watcher.at # "polling"
    /\ IF raised THEN End(IF manifest = "none" THEN "none" ELSE "failed")
       ELSE IF manifest = "cancelled" THEN End("cancelled")
       ELSE IF rep = Reps THEN End("completed")
       ELSE /\ pc' = "loop" /\ rep' = rep + 1 /\ case' = 1
            /\ UNCHANGED <<manifest, raised, results, scored>>
    /\ tracked' = FALSE
    /\ UNCHANGED <<setup, inputs, lightVars, ragVars, procs, aimed, client, lock, name,
                   workerVars, watchVars, crashes>>

-----------------------------------------------------------------------------
(* watch_cancellation, in a thread of its own, and handle.cancel().        *)

WatcherIs(place) == watcher' = [watcher EXCEPT !.at = place]

StopIsSet == pc \in {"stop", "closing", "snapshot", "kill", "join"}

\* A watcher past its last wait still sees the cancellation.
WatcherSees ==
    /\ watcher.at = "polling" /\ cancelled
    /\ WatcherIs("cancelling")
    /\ UNCHANGED <<setup, inputs, lightVars, ragVars, handleVars, sessionVars, workerVars,
                   cancelled, crashes>>

(* Mutated form: the watcher looks once, and not again.                     *)
QuitsEarly ==
    /\ watcher.at = "polling" /\ ~ cancelled
    /\ WatcherIs("off")
    /\ UNCHANGED <<setup, inputs, lightVars, ragVars, handleVars, sessionVars, workerVars,
                   cancelled, crashes>>

WatcherQuits ==
    /\ watcher.at = "polling" /\ StopIsSet
    /\ WatcherIs("off")
    /\ UNCHANGED <<setup, inputs, lightVars, ragVars, handleVars, sessionVars, workerVars,
                   cancelled, crashes>>

\* WorkerProcess.cancel; a worker already cleared counts as ended.
WatcherTakes ==
    /\ watcher.at = "cancelling" /\ IsLocal /\ lock = "none"
    /\ IF tracked
       THEN /\ lock' = "watcher" /\ aimed' = Targets
            /\ WatcherIs("killing")
       ELSE /\ watcher' = [at |-> "recording", sure |-> TRUE]
            /\ UNCHANGED <<lock, aimed>>
    /\ UNCHANGED <<setup, inputs, lightVars, ragVars, procs, tracked, client, name,
                   sessionVars, workerVars, cancelled, crashes>>

WatcherKills ==
    /\ watcher.at = "killing" /\ IsLocal
    /\ Kill("watcher")
    /\ watcher' = [at |-> "recording", sure |-> procs' \cap aimed = {}]
    /\ UNCHANGED <<setup, inputs, lightVars, ragVars, sessionVars, workerVars, cancelled, crashes>>

\* DockerWorkerHandle.cancel; docker may or may not call it a failure that
\* the container is gone already.
WatcherRemoves ==
    /\ watcher.at = "cancelling" /\ ~ IsLocal
    /\ RemoveContainer /\ UNCHANGED client
    /\ \E sure \in IF procs = {} THEN BOOLEAN ELSE {TRUE} :
         watcher' = [at |-> "recording", sure |-> sure]
    /\ UNCHANGED <<setup, inputs, lightVars, ragVars, sessionVars, workerVars, cancelled, crashes>>

\* record_cancelled_liveness; Docker's client is closed after it.
WatcherRecords ==
    /\ watcher.at = "recording"
    /\ record' = IF record = NoRecord THEN record
                 ELSE Record("cancelled", record.active, TRUE, watcher.sure)
    /\ client' = "closed"
    /\ WatcherIs("off")
    /\ UNCHANGED <<setup, inputs, lightVars, native, procs, aimed, tracked, lock, name,
                   sessionVars, workerVars, cancelled, crashes>>

-----------------------------------------------------------------------------
(* The outside.                                                            *)

Cancel ==
    /\ ~ cancelled /\ pc # "ended" /\ setup.cancellable
    /\ cancelled' = TRUE
    /\ UNCHANGED <<setup, inputs, lightVars, ragVars, handleVars, sessionVars, workerVars,
                   watcher, crashes>>

WorkerCrashes ==
    /\ crashes < MaxCrashes
    /\ Crash(IsLocal)
    /\ crashes' = crashes + 1
    /\ UNCHANGED <<setup, inputs, lightVars, ragVars, sessionVars, workerVars, watchVars>>

ServerCrashes ==
    /\ crashes < MaxCrashes
    /\ ChildEnds("server")
    /\ crashes' = crashes + 1
    /\ UNCHANGED <<setup, inputs, lightVars, ragVars, sessionVars, workerVars, watchVars>>

Ended == pc = "ended" /\ watcher.at = "off" /\ UNCHANGED vars

Executor ==
    \/ LoopTop \/ StartWorker \/ HandshakeTimesOut \/ Handshake
    \/ NextCase \/ SendQuery \/ Broken \/ Stop \/ CloseFails \/ SnapshotTree \/ EndWorker \/ Join

Watcher ==
    WatcherSees \/ WatcherQuits \/ WatcherTakes \/ WatcherKills \/ WatcherRemoves \/ WatcherRecords

Worker ==
    \/ WorkerUp \/ StartServer \/ Prepared \/ PrepareFails
    \/ LightIngest \/ RagIngest \/ Parser \/ Ingested \/ IngestFails
    \/ QueryAnswered \/ QueryFails \/ LateQueryEnds \/ TimesOut \/ CloseAdapter

Next == Executor \/ Watcher \/ Worker \/ Cancel \/ WorkerCrashes \/ ServerCrashes \/ Ended

\* The executor's and the watcher's threads run; the handshake and the close
\* request have deadlines of seconds.  Nothing is asked of the worker, nor of
\* the deadlines of prepare, ingest and query, which may be hours.
Spec == Init /\ [][Next]_vars /\ WF_vars(Executor) /\ WF_vars(Watcher)

-----------------------------------------------------------------------------
(* Properties.                                                             *)

\* The run keeps the promise: one worker at a time, its server and its
\* container included; questions only to an accepted index, in order; and
\* completed only when each was asked.
Promise == INSTANCE WorkerPromise WITH
    round <- rep,
    alive <- procs \cap OwnGroup # {},
    indexed <- pc \in {"case", "send", "query"},
    asked <- results,
    completed <- pc = "ended" /\ manifest = "completed"

KeepsPromise == Promise!Spec

\* A scored hit is real: a run that observed its retrieval counts a hit
\* exactly when the texts the server returned show, of the document itself,
\* evidence that answers the question.
Returned == {inputs[i] : i \in {j \in scored.found : store[j] = "exact"}}

ScoredHitIsReal ==
    scored.status = "observed" =>
        (scored.hit <=> ~ setup.gold.abstain /\ ShowsGold(setup.doc, setup.gold, Returned))

\* Questions of a canonical run are asked only of an index that holds the
\* text of every piece of Gold Evidence.
GoldIsIndexed ==
    pc = "query" /\ setup.corpus = "canonical" =>
        \A g \in DOMAIN setup.gold.evidence :
            IsStored(setup.doc, setup.gold.evidence[g], Stored)

\* A cancelled run ends, however long its worker stays silent: the watcher
\* ends the worker under the request.
CancellationEnds == cancelled ~> pc = "ended"
=============================================================================
