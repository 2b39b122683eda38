---------------------------- MODULE JobSupervisor ----------------------------
(***************************************************************************)
(* The evaluation job pipeline: the API handlers that create and cancel    *)
(* jobs, the single dispatcher thread of rag_eval/supervisor.py, the       *)
(* RunExecutor it calls (rag_eval/execution.py), the thread that watches   *)
(* for cancellation, the worker processes, and the crash and restart of    *)
(* the platform process.                                                   *)
(*                                                                         *)
(* The dispatcher is cut at every point where another actor can act: each  *)
(* read of the job store, each write of the run manifest, each RPC.  One   *)
(* job has one run (execute is called once per claim and a run_id is a     *)
(* fresh uuid), so a run is named by its job.                              *)
(*                                                                         *)
(* Worker processes live in sessions of their own: they survive a crash of *)
(* the platform.  A docker job has no recorded pid (worker_pid is None).   *)
(***************************************************************************)
EXTENDS JobStore

CONSTANTS LocalJobs,   \* jobs whose execution_provider is "local"
          Cases,       \* cases executed in each repetition
          MaxStops,    \* bound: how often the platform process stops
          NoJob        \* "no job claimed"

ASSUME ProviderAssumption == LocalJobs \subseteq Jobs
ASSUME CasesAssumption    == Cases \in Nat \ {0}
ASSUME StopAssumption     == MaxStops \in Nat
ASSUME NoJobAssumption    == NoJob \notin Jobs

VARIABLES
    up,        \* the platform process: down, recovering, serving, stopping
    pc,        \* where the dispatcher thread stands
    cur,       \* the job it claimed
    rep,       \* the repetition it executes
    mem,       \* status of the manifest object it holds in memory
    left,      \* cases left in this repetition
    target,    \* the job status it has decided to write
    watching,  \* the cancellation watcher is polling
    workers,   \* live worker processes, as <<job, repetition>>
    runs,      \* runs[j]: the run.json and the case files of job j's run
    reviewed,  \* jobs whose on_run_completed callback was called
    acked,     \* history: jobs for which a cancellation was accepted
    stops,     \* how often the process was stopped or died
    lost       \* history: workers nobody can find after a crash

threadVars == <<pc, cur, rep, mem, left, target>>
diskVars   == <<runs, reviewed>>
envVars    == <<up, acked, stops, lost>>
vars == <<jobs, clock, up, pc, cur, rep, mem, left, target, watching, workers,
          runs, reviewed, acked, stops, lost>>

RpcPoints == {"handshake", "prepare", "ingest", "query"}
WithHandle == {"record", "case", "stopOk", "stopErr"} \cup RpcPoints
Settling == {"check", "settle", "readback", "settleErr"}
Points == {"off", "idle", "poll", "resolve", "rep", "start", "finish", "seal",
           "fail", "callback"} \cup WithHandle \cup Settling

RunStatus == {"none", "preparing", "ingesting", "running",
              "cancelled", "completed", "failed"}

RunFile == [status : RunStatus, sealed : BOOLEAN, cases : Nat]
NoRun == [status |-> "none", sealed |-> FALSE, cases |-> 0]

Init ==
    /\ StoreInit
    /\ up = "down" /\ pc = "off" /\ cur = NoJob
    /\ rep = 0 /\ mem = "none" /\ left = 0 /\ target = "failed"
    /\ watching = FALSE
    /\ workers = {}
    /\ runs = [j \in Jobs |-> NoRun]
    /\ reviewed = {} /\ acked = {} /\ stops = 0 /\ lost = {}

CancelRequested(j) == jobs[j].status = "cancelling"
Handle == <<cur, rep>>
HandleAlive == Handle \in workers

(* The dispatcher moves from one point to another and leaves the rest. *)
At(p) == pc = p
Goto(p) == pc' = p

WriteRun(s, isSealed, n) ==
    runs' = [runs EXCEPT ![cur] = [status |-> s, sealed |-> isSealed, cases |-> n]]

WriteStatus(s) == WriteRun(s, FALSE, runs[cur].cases)

-----------------------------------------------------------------------------
(* The API, served only after recovery has finished.                       *)

Create(j) ==
    /\ up = "serving"
    /\ CreateJob(j)
    /\ UNCHANGED <<threadVars, diskVars, envVars, watching, workers>>

Cancel(j) ==
    /\ up = "serving"
    /\ jobs[j].status \in JobStatus
    /\ RequestCancel(j)
    /\ acked' = IF jobs'[j].status \in {"cancelling", "cancelled"}
                THEN acked \cup {j} ELSE acked
    /\ UNCHANGED <<threadVars, diskVars, up, stops, lost, watching, workers>>

-----------------------------------------------------------------------------
(* JobSupervisor._loop and run_once: claim the oldest queued job.          *)

LoopHead ==
    /\ At("idle")
    /\ IF up = "stopping" THEN up' = "down" /\ Goto("off")
                          ELSE UNCHANGED up /\ Goto("poll")
    /\ UNCHANGED <<storeVars, cur, rep, mem, left, target, diskVars, acked,
                   stops, lost, watching, workers>>

Claim(j) ==
    /\ At("poll")
    /\ ClaimNext(j)
    /\ cur' = j /\ Goto("resolve")
    /\ rep' = 0 /\ mem' = "none" /\ left' = 0
    /\ UNCHANGED <<target, diskVars, envVars, watching, workers>>

NothingQueued ==
    /\ At("poll")
    /\ \A j \in Jobs : ~Queued(j)
    /\ Goto("idle")
    /\ UNCHANGED <<storeVars, cur, rep, mem, left, target, diskVars, envVars,
                   watching, workers>>

(* systems.resolve and the validations of execute() that precede its try   *)
(* block; an exception there leaves no manifest.                           *)
Resolve ==
    /\ At("resolve")
    /\ \/ Goto("rep") /\ rep' = 1
       \/ Goto("readback") /\ UNCHANGED rep
    /\ UNCHANGED <<storeVars, cur, mem, left, target, diskVars, envVars,
                   watching, workers>>

-----------------------------------------------------------------------------
(* RunExecutor.execute.                                                    *)

(* Head of the repetition loop, with its cancelled() check. *)
BeginRepetition ==
    /\ At("rep")
    /\ IF CancelRequested(cur)
         THEN /\ mem' = IF mem = "none" THEN "none" ELSE "cancelled"
              /\ Goto("finish")
         ELSE Goto("start") /\ UNCHANGED mem
    /\ UNCHANGED <<storeVars, cur, rep, left, target, diskVars, envVars,
                   watching, workers>>

(* provider.start: spawn the worker and wait for its first handshake.  A   *)
(* start that fails stops what it spawned.                                 *)
StartWorker ==
    /\ At("start")
    /\ \/ workers' = workers \cup {Handle} /\ Goto("record")
       \/ UNCHANGED workers /\ Goto("fail")
    /\ UNCHANGED <<storeVars, cur, rep, mem, left, target, diskVars, envVars,
                   watching>>

(* Mutated form: only a worker with a recorded pid is watched. *)
RecordWorkerUnwatched ==
    /\ At("record")
    /\ IF cur \in LocalJobs THEN UpdateWorker(cur, rep) ELSE UNCHANGED storeVars
    /\ watching' = (cur \in LocalJobs)
    /\ Goto("handshake")
    /\ UNCHANGED <<cur, rep, mem, left, target, diskVars, envVars, workers>>

(* worker_started records the pid of a local worker; the watcher starts. *)
RecordWorker ==
    /\ At("record")
    /\ IF cur \in LocalJobs THEN UpdateWorker(cur, rep) ELSE UNCHANGED storeVars
    /\ watching' = TRUE
    /\ Goto("handshake")
    /\ UNCHANGED <<cur, rep, mem, left, target, diskVars, envVars, workers>>

(* An RPC that fails, or whose answer is rejected, unwinds to the finally. *)
RpcRaises ==
    /\ pc \in RpcPoints
    /\ Goto("stopErr")
    /\ UNCHANGED <<storeVars, cur, rep, mem, left, target, diskVars, envVars,
                   watching, workers>>

(* The first repetition creates run.json, in status PREPARING. *)
Handshake ==
    /\ At("handshake") /\ HandleAlive
    /\ Goto("prepare")
    /\ IF mem = "none"
         THEN mem' = "preparing" /\ WriteStatus("preparing")
         ELSE UNCHANGED <<mem, runs>>
    /\ UNCHANGED <<storeVars, cur, rep, left, target, reviewed, envVars,
                   watching, workers>>

(* prepare; only the first repetition moves the manifest to INGESTING. *)
Prepare ==
    /\ At("prepare") /\ HandleAlive
    /\ Goto("ingest")
    /\ mem' = IF mem = "preparing" THEN "ingesting" ELSE mem
    /\ WriteStatus(mem')
    /\ UNCHANGED <<storeVars, cur, rep, left, target, reviewed, envVars,
                   watching, workers>>

(* ingest, the provenance checks and the warm-up. *)
Ingest ==
    /\ At("ingest") /\ HandleAlive
    /\ Goto("case")
    /\ mem' = "running" /\ left' = Cases
    /\ WriteStatus("running")
    /\ UNCHANGED <<storeVars, cur, rep, target, reviewed, envVars, watching,
                   workers>>

(* Head of the case loop: cancelled() is asked before each case, and not   *)
(* again after the last one.                                               *)
NextCase ==
    /\ At("case")
    /\ \/ left = 0 /\ Goto("stopOk") /\ UNCHANGED mem
       \/ left > 0 /\ ~CancelRequested(cur) /\ Goto("query") /\ UNCHANGED mem
       \/ left > 0 /\ CancelRequested(cur) /\ Goto("stopOk") /\ mem' = "cancelled"
    /\ UNCHANGED <<storeVars, cur, rep, left, target, diskVars, envVars,
                   watching, workers>>

(* execute_case: a result, or a failure that is written as a case too.  A  *)
(* failed call is a cancelled case when the job is cancelling by then, and *)
(* a cancelled case ends the run.                                          *)
WriteCase(cancelledCase) ==
    /\ At("query")
    /\ left' = left - 1
    /\ mem' = IF cancelledCase THEN "cancelled" ELSE mem
    /\ Goto(IF cancelledCase THEN "stopOk" ELSE "case")
    /\ WriteRun(runs[cur].status, FALSE, runs[cur].cases + 1)
    /\ UNCHANGED <<storeVars, cur, rep, target, reviewed, envVars, watching,
                   workers>>

QueryAnswered == HandleAlive /\ WriteCase(FALSE)
QueryFailed   == WriteCase(CancelRequested(cur))

(* The inner finally: stop the watcher and the worker. *)
StopWorker ==
    /\ pc \in {"stopOk", "stopErr"}
    /\ watching' = FALSE
    /\ workers' = workers \ {Handle}
    /\ \/ At("stopErr") /\ Goto("fail") /\ UNCHANGED rep
       \/ At("stopOk") /\ (mem = "cancelled" \/ rep = Reps)
          /\ Goto("finish") /\ UNCHANGED rep
       \/ At("stopOk") /\ mem # "cancelled" /\ rep < Reps
          /\ Goto("rep") /\ rep' = rep + 1
    /\ UNCHANGED <<storeVars, cur, mem, left, target, diskVars, envVars>>

(* After the loop: "run did not start", or the summary, the report and the *)
(* first write of the final manifest (an I/O error unwinds).               *)
Finish ==
    /\ At("finish")
    /\ \/ /\ mem # "none"
          /\ mem' = IF mem = "cancelled" THEN "cancelled" ELSE "completed"
          /\ WriteStatus(mem') /\ Goto("seal")
       \/ Goto("fail") /\ UNCHANGED <<mem, runs>>
    /\ UNCHANGED <<storeVars, cur, rep, left, target, reviewed, envVars,
                   watching, workers>>

(* The second write adds the artifact checksums. *)
Seal ==
    /\ At("seal")
    /\ \/ WriteRun(mem, TRUE, runs[cur].cases) /\ Goto("check")
       \/ Goto("fail") /\ UNCHANGED runs
    /\ UNCHANGED <<storeVars, cur, rep, mem, left, target, reviewed, envVars,
                   watching, workers>>

(* Mutated form: the handler re-raises without writing the failed manifest *)
(* and goes on to settle the job as completed.                             *)
RecordFailureLost ==
    /\ At("fail")
    /\ Goto("check")
    /\ UNCHANGED <<storeVars, cur, rep, mem, left, target, diskVars, envVars,
                   watching, workers>>

(* execute()'s handler marks the manifest FAILED, if there is one. *)
RecordFailure ==
    /\ At("fail")
    /\ Goto("readback")
    /\ IF mem = "none" THEN UNCHANGED <<mem, runs>>
                       ELSE mem' = "failed" /\ WriteStatus("failed")
    /\ UNCHANGED <<storeVars, cur, rep, left, target, reviewed, envVars,
                   watching, workers>>

-----------------------------------------------------------------------------
(* run_once after execute(): settle the job.  The status is read, then the *)
(* decision is written in a separate critical section of the store.        *)

CheckStatus ==
    /\ At("check")
    /\ target' = IF mem = "cancelled" \/ CancelRequested(cur)
                 THEN "cancelled" ELSE "completed"
    /\ Goto("settle")
    /\ UNCHANGED <<storeVars, cur, rep, mem, left, diskVars, envVars, watching,
                   workers>>

Settle ==
    /\ At("settle") /\ CanTransition(cur, target)
    /\ Transition(cur, target, TRUE, FALSE)
    /\ IF target = "completed" THEN Goto("callback") /\ UNCHANGED cur
                               ELSE Goto("idle") /\ cur' = NoJob
    /\ UNCHANGED <<rep, mem, left, target, diskVars, envVars, watching, workers>>

(* Mutated form: a refused transition is swallowed and the job left alone. *)
SettleRefusedSwallowed ==
    /\ At("settle") /\ ~CanTransition(cur, target)
    /\ Goto("idle") /\ cur' = NoJob
    /\ UNCHANGED <<storeVars, rep, mem, left, target, diskVars, envVars,
                   watching, workers>>

(* The cancellation came after the read: transition() raises ValueError,   *)
(* which the handler of run_once treats like any failure of the run.       *)
SettleRefused ==
    /\ At("settle") /\ ~CanTransition(cur, target)
    /\ Goto("readback")
    /\ UNCHANGED <<storeVars, cur, rep, mem, left, target, diskVars, envVars,
                   watching, workers>>

(* on_run_completed: schedules the semantic reviews of the finished run. *)
Callback ==
    /\ At("callback")
    /\ reviewed' = reviewed \cup {cur}
    /\ Goto("idle") /\ cur' = NoJob
    /\ UNCHANGED <<storeVars, rep, mem, left, target, runs, envVars, watching,
                   workers>>

(* Mutated forms: the handler decides without looking at the job. *)
ReadBackAsFailed ==
    /\ At("readback")
    /\ target' = "failed"
    /\ Goto("settleErr")
    /\ UNCHANGED <<storeVars, cur, rep, mem, left, diskVars, envVars, watching,
                   workers>>

(* The exception handler of run_once: read again, then settle with error.  *)
ReadBack ==
    /\ At("readback")
    /\ target' = IF CancelRequested(cur) THEN "cancelled" ELSE "failed"
    /\ Goto("settleErr")
    /\ UNCHANGED <<storeVars, cur, rep, mem, left, diskVars, envVars, watching,
                   workers>>

(* An exception here would end the thread: see DispatcherSurvives.         *)
SettleWithError ==
    /\ At("settleErr") /\ CanTransition(cur, target)
    /\ Transition(cur, target, FALSE, TRUE)
    /\ Goto("idle") /\ cur' = NoJob
    /\ UNCHANGED <<rep, mem, left, target, diskVars, envVars, watching, workers>>

-----------------------------------------------------------------------------
(* The other actors.                                                       *)

(* watch_cancellation kills the worker's process group once, then returns. *)
WatcherFires ==
    /\ watching /\ CancelRequested(cur)
    /\ workers' = workers \ {Handle}
    /\ watching' = FALSE
    /\ UNCHANGED <<storeVars, threadVars, diskVars, envVars>>

WorkerDies ==
    /\ \E w \in workers : workers' = workers \ {w}
    /\ UNCHANGED <<storeVars, threadVars, diskVars, envVars, watching>>

(* stop(): the dispatcher leaves its loop when it next looks.  When it is  *)
(* too slow for the timeout the process exits all the same: Crash.         *)
Shutdown ==
    /\ up = "serving" /\ stops < MaxStops
    /\ up' = "stopping" /\ stops' = stops + 1
    /\ UNCHANGED <<storeVars, threadVars, diskVars, acked, lost, watching, workers>>

(* The process dies: threads and memory are lost, files and workers stay.  *)
(* A worker whose pid is not in the job record yet is lost for good.       *)
Crash ==
    /\ up # "down" /\ (up = "stopping" \/ stops < MaxStops)
    /\ up' = "down"
    /\ stops' = IF up = "stopping" THEN stops ELSE stops + 1
    /\ lost' = IF cur \in Jobs /\ (pc = "record" \/ cur \notin LocalJobs)
               THEN lost \cup ({Handle} \cap workers) ELSE lost
    /\ pc' = "off" /\ cur' = NoJob /\ rep' = 0 /\ mem' = "none" /\ left' = 0
    /\ watching' = FALSE
    /\ UNCHANGED <<storeVars, target, diskVars, acked, workers>>

Boot ==
    /\ up = "down"
    /\ up' = "recovering"
    /\ UNCHANGED <<storeVars, threadVars, diskVars, acked, stops, lost,
                   watching, workers>>

(* Mutated form: a cancelling job is interrupted without ending its worker. *)
RecoverJobLeavesWorker(j) ==
    /\ up = "recovering"
    /\ jobs[j].status \in Active
    /\ workers' = IF jobs[j].pid # 0 /\ jobs[j].status = "running"
                  THEN workers \ {<<j, jobs[j].pid>>} ELSE workers
    /\ Transition(j, "interrupted", FALSE, TRUE)
    /\ UNCHANGED <<threadVars, diskVars, envVars, watching>>

(* JobStore.recover, one active job at a time: end the recorded worker,    *)
(* if its command line still names the run, and interrupt the job.         *)
RecoverJob(j) ==
    /\ up = "recovering"
    /\ jobs[j].status \in Active
    /\ workers' = IF jobs[j].pid # 0 /\ jobs[j].run
                  THEN workers \ {<<j, jobs[j].pid>>} ELSE workers
    /\ Transition(j, "interrupted", FALSE, TRUE)
    /\ UNCHANGED <<threadVars, diskVars, envVars, watching>>

(* Mutated form: recovery looks for running jobs only. *)
BeginServingAfterRunning ==
    /\ up = "recovering"
    /\ \A j \in Jobs : jobs[j].status # "running"
    /\ up' = "serving" /\ Goto("idle")
    /\ UNCHANGED <<storeVars, cur, rep, mem, left, target, diskVars, acked,
                   stops, lost, watching, workers>>

(* start() creates the dispatcher thread after recovery. *)
BeginServing ==
    /\ up = "recovering"
    /\ \A j \in Jobs : jobs[j].status \notin Active
    /\ up' = "serving" /\ Goto("idle")
    /\ UNCHANGED <<storeVars, cur, rep, mem, left, target, diskVars, acked,
                   stops, lost, watching, workers>>

-----------------------------------------------------------------------------
RpcSucceeds == Handshake \/ Prepare \/ Ingest \/ QueryAnswered
RpcFails    == RpcRaises \/ QueryFailed

Execute == \/ BeginRepetition \/ StartWorker \/ RecordWorker
           \/ RpcSucceeds \/ RpcFails
           \/ NextCase \/ StopWorker \/ Finish \/ Seal \/ RecordFailure

SettleJob == \/ CheckStatus \/ Settle \/ SettleRefused \/ Callback
             \/ ReadBack \/ SettleWithError

Dispatcher == \/ LoopHead \/ NothingQueued \/ Resolve \/ Execute \/ SettleJob
              \/ \E j \in Jobs : Claim(j)

Restart == Boot \/ BeginServing \/ \E j \in Jobs : RecoverJob(j)

Next == \/ Dispatcher \/ Restart
        \/ WatcherFires \/ WorkerDies \/ Shutdown \/ Crash
        \/ \E j \in Jobs : Create(j) \/ Cancel(j)

Spec == Init /\ [][Next]_vars

(* The dispatcher thread keeps running and a stopped platform is started   *)
(* again.  A worker may hang, so a call to a live worker need never return:*)
(* only the steps that do not wait for one, and the watcher, are fair.     *)
OwnStep == Dispatcher /\ (pc \in RpcPoints => ~HandleAlive)
FairSpec == Spec /\ WF_vars(OwnStep) /\ WF_vars(WatcherFires) /\ WF_vars(Restart)

(* No call hangs for ever: it returns or runs into a timeout of the client *)
(* (ingestion_rpc_timeout and the timeouts of worker/client.py).           *)
CallsReturn == []<>(pc \notin RpcPoints \/ ~HandleAlive)

-----------------------------------------------------------------------------
TypeOK ==
    /\ jobs \in [Jobs -> JobRecord] /\ clock \in Nat
    /\ up \in {"down", "recovering", "serving", "stopping"}
    /\ pc \in Points /\ cur \in Jobs \cup {NoJob}
    /\ rep \in 0..Reps /\ mem \in RunStatus /\ left \in 0..Cases
    /\ target \in {"cancelled", "completed", "failed"}
    /\ watching \in BOOLEAN
    /\ workers \subseteq Jobs \X (1..Reps)
    /\ runs \in [Jobs -> RunFile]
    /\ reviewed \subseteq Jobs /\ acked \subseteq Jobs /\ stops \in 0..MaxStops
    /\ lost \subseteq Jobs \X (1..Reps)

Settled(j) == jobs[j].status \in Terminal
IsActive(j) == jobs[j].status \in Active

(* The single-writer rule: at no time, not even across crashes, are two    *)
(* jobs active, so two workers never index on behalf of the queue at once. *)
SingleActiveJob == \A j, k \in Jobs : IsActive(j) /\ IsActive(k) => j = k

(* While the platform serves, an active job is the one the dispatcher is   *)
(* working on: no sequence of failures, cancellations and restarts leaves  *)
(* a job running or cancelling that nobody will ever settle.               *)
ActiveJobIsOwned ==
    up \in {"serving", "stopping"} => \A j \in Jobs : IsActive(j) => cur = j

(* A job whose cancellation was accepted never ends as completed, wherever *)
(* the request falls among the dispatcher's reads and writes.              *)
CancellationExcludesCompletion ==
    \A j \in acked : jobs[j].status # "completed"

(* A completed job has a completed run, sealed with checksums, that holds  *)
(* a result of every case in every repetition, and no worker still runs.   *)
CompletedRunIsWhole ==
    \A j \in Jobs : jobs[j].status = "completed" =>
        /\ runs[j] = [status |-> "completed", sealed |-> TRUE,
                      cases |-> Reps * Cases]
        /\ jobs[j].run /\ ~jobs[j].error
        /\ \A r \in 1..Reps : <<j, r>> \notin workers

(* A failed job never has a run that can be compared: its manifest is      *)
(* absent or FAILED, so the cancel race cannot mark a good run as failed.  *)
FailedJobHasNoResult ==
    \A j \in Jobs : jobs[j].status = "failed" =>
        runs[j].status \in {"none", "failed"}

(* The run is immutable once its job has settled: no thread still writes.  *)
SettledRunIsImmutable ==
    [][\A j \in Jobs : Settled(j) => runs'[j] = runs[j]]_vars

(* A worker outlives its job only when the platform died before its pid    *)
(* was recorded, or when it is a container, of which no pid is recorded.   *)
NoWorkerLeftBehind ==
    \A w \in workers : Settled(w[1]) => w \in lost

(* No interleaving of cancellations makes the dispatcher's own exception   *)
(* handler raise, which would end the thread and with it all job progress. *)
DispatcherSurvives == pc = "settleErr" => CanTransition(cur, target)

(* Every submitted job settles, whatever the workers do, if calls return.  *)
EveryJobSettles == CallsReturn => \A j \in Jobs : Queued(j) ~> Settled(j)

(* A cancellation takes effect even when the worker hangs in a call: the   *)
(* watcher ends the process and the call fails.                            *)
CancelTakesEffect == \A j \in Jobs : CancelRequested(j) ~> Settled(j)

(* The pipeline keeps the promises of the abstract job. *)
Lifecycle == INSTANCE JobLifecycle WITH status <- [j \in Jobs |-> jobs[j].status]
ImplementsLifecycle == Lifecycle!Spec
=============================================================================
