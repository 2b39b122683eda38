------------------------ MODULE JobSupervisorProofs ------------------------
(***************************************************************************)
(* Proofs about the evaluation job pipeline, for any number of jobs,       *)
(* repetitions, cases and restarts.  The inductive invariant IInv joins    *)
(* the type invariant with where the dispatcher stands (Located), whose    *)
(* job is active (Owned), what an accepted cancellation leaves possible    *)
(* (Withdrawn), what the dispatcher has concluded about its job and its    *)
(* run (Decided), who looks after each worker process (Tended) and how     *)
(* many results the run holds at each point of its execution (Counted).    *)
(***************************************************************************)
EXTENDS JobSupervisor, DispatchLoop, TLAPS

(* The points between two claims, and those that use a repetition number. *)
NoClaim   == {"off", "idle", "poll"}
Executing == {"rep", "start"} \cup WithHandle

Located ==
    /\ pc = "off" <=> up \in {"down", "recovering"}
    /\ cur \in Jobs <=> pc \notin NoClaim
    /\ pc \in Executing => rep \in 1..Reps
    /\ pc = "query" => left > 0

Owned ==
    /\ SingleActiveJob
    /\ ActiveJobIsOwned
    /\ cur \in Jobs => (IsActive(cur) <=> pc # "callback")

Withdrawn ==
    \A j \in acked : jobs[j].status \in {"cancelling", "cancelled", "failed", "interrupted"}

NoResult(j) == runs[j].status \in {"none", "failed"}

Decided ==
    /\ cur \in Jobs /\ pc # "callback" /\ mem = "cancelled" => CancelRequested(cur)
    /\ cur \in Jobs /\ mem = "none" => runs[cur].status = "none"
    /\ pc = "resolve" => mem = "none"
    /\ pc = "settle" => \/ target = "cancelled" /\ CancelRequested(cur)
                        \/ target = "completed"
    /\ pc = "readback" => CancelRequested(cur) \/ NoResult(cur)
    /\ pc = "settleErr" => \/ target = "cancelled" /\ CancelRequested(cur)
                           \/ target = "failed" /\ NoResult(cur)
    /\ \A j \in Jobs : jobs[j].status \in {"absent", "queued"} => runs[j].status = "none"
    /\ FailedJobHasNoResult

(* Who looks after a worker process. *)
Tended ==
    /\ pc \in WithHandle \ {"record"} /\ cur \in LocalJobs
         => jobs[cur].run /\ jobs[cur].pid = rep
    /\ \A w \in lost :
          \/ jobs[w[1]].status = "interrupted"
          \/ pc = "off" /\ IsActive(w[1])
    /\ \A w \in workers :
          \/ pc \in WithHandle /\ w = Handle
          \/ w \in lost
          \/ /\ pc = "off" /\ IsActive(w[1])
             /\ jobs[w[1]].run /\ jobs[w[1]].pid = w[2]

(* The points of a repetition before its first case is asked. *)
Opening == {"rep", "start", "record", "handshake", "prepare", "ingest"}
(* The results of r whole repetitions. *)
Full(r) == r * Cases

Whole(j) == runs[j] = [status |-> "completed", sealed |-> TRUE, cases |-> Full(Reps)]

(* How many results the run of the claimed job holds. *)
Counted ==
    /\ \A j \in Jobs : jobs[j].status \in {"absent", "queued"} => runs[j].cases = 0
    /\ pc = "resolve" => runs[cur].cases = 0
    /\ pc \in Opening => runs[cur].cases = Full(rep - 1)
    /\ pc \in {"case", "query"} => mem = "running" /\ runs[cur].cases + left = Full(rep)
    /\ pc = "stopOk" /\ mem # "cancelled" => mem = "running" /\ runs[cur].cases = Full(rep)
    /\ pc = "finish" => mem \in {"none", "cancelled"} \/ runs[cur].cases = Full(Reps)
    /\ pc = "seal" /\ mem # "cancelled" => mem = "completed" /\ runs[cur].cases = Full(Reps)
    /\ pc = "check" /\ mem # "cancelled" => Whole(cur)
    /\ pc = "settle" /\ target = "completed" => Whole(cur)
    /\ \A j \in Jobs : jobs[j].status = "completed" => Whole(j) /\ jobs[j].run /\ ~jobs[j].error

IInv == TypeOK /\ Located /\ Owned /\ Withdrawn /\ Decided /\ Tended /\ Counted

USE RepsAssumption, ProviderAssumption, CasesAssumption, StopAssumption,
    NoJobAssumption DEF RunFile

-----------------------------------------------------------------------------
(* The job store. *)

(* A transition keeps every record well formed and changes the job's only. *)
LEMMA TransitionIsLocal ==
    ASSUME jobs \in [Jobs -> JobRecord],
           NEW j \in Jobs, NEW s \in JobStatus,
           NEW withRun \in BOOLEAN, NEW withError \in BOOLEAN,
           Transition(j, s, withRun, withError)
    PROVE  /\ jobs' \in [Jobs -> JobRecord]
           /\ jobs'[j].status = s
           /\ \A k \in Jobs \ {j} : jobs'[k] = jobs[k]
           /\ clock' = clock
  <1> DEFINE run == jobs[j].run \/ withRun
             r   == [jobs[j] EXCEPT !.status = s, !.run = run, !.error = withError]
  <1>1. run \in BOOLEAN
    OBVIOUS
  <1>2. jobs' = [jobs EXCEPT ![j] = r]
    BY DEF Transition
  <1>3. jobs[j] \in JobRecord /\ s \in JobStatus \cup {"absent"}
    OBVIOUS
  <1> HIDE DEF run
  <1>4. r \in JobRecord /\ r.status = s
    BY <1>1, <1>3 DEF JobRecord
  <1> HIDE DEF r
  <1>5. clock' = clock
    BY DEF Transition
  <1>6. QED
    BY <1>2, <1>4, <1>5

(* A legal transition leads to one of the seven states, and never from a   *)
(* terminal one.                                                           *)
LEMMA SuccessorsAreStatuses ==
    \A s : Successors(s) \subseteq JobStatus \ {"queued"}
  BY DEF Successors, JobStatus, Active, Terminal

LEMMA CreateIsLocal ==
    ASSUME jobs \in [Jobs -> JobRecord], clock \in Nat, NEW j \in Jobs, CreateJob(j)
    PROVE  /\ jobs' \in [Jobs -> JobRecord] /\ clock' \in Nat
           /\ jobs[j].status = "absent" /\ jobs'[j].status = "queued"
           /\ \A k \in Jobs \ {j} : jobs'[k] = jobs[k]
  <1> DEFINE r == [NoRecord EXCEPT !.status = "queued", !.created = clock + 1]
  <1>1. r \in JobRecord /\ r.status = "queued"
    <2>1. NoRecord \in JobRecord
      BY DEF NoRecord, JobRecord
    <2>2. clock + 1 \in Nat /\ "queued" \in JobStatus \cup {"absent"}
      BY DEF JobStatus
    <2>3. QED
      BY <2>1, <2>2 DEF JobRecord
  <1>2. jobs' = [jobs EXCEPT ![j] = r] /\ clock' = clock + 1 /\ jobs[j].status = "absent"
    BY DEF CreateJob
  <1> HIDE DEF r
  <1>3. QED
    BY <1>1, <1>2

LEMMA UpdateWorkerIsLocal ==
    ASSUME jobs \in [Jobs -> JobRecord], NEW j \in Jobs, NEW r \in 0..Reps,
           UpdateWorker(j, r)
    PROVE  /\ jobs' \in [Jobs -> JobRecord] /\ clock' = clock
           /\ \A k \in Jobs : jobs'[k].status = jobs[k].status
  <1> DEFINE new == [jobs[j] EXCEPT !.run = TRUE, !.pid = r]
  <1>1. new \in JobRecord /\ new.status = jobs[j].status
    <2>1. jobs[j] \in JobRecord
      OBVIOUS
    <2>2. QED
      BY <2>1 DEF JobRecord
  <1>2. jobs' = [jobs EXCEPT ![j] = new] /\ clock' = clock
    BY DEF UpdateWorker
  <1> HIDE DEF new
  <1>3. QED
    BY <1>1, <1>2

(* What request_cancel may do to a job that exists. *)
LEMMA RequestCancelIsLocal ==
    ASSUME jobs \in [Jobs -> JobRecord], clock \in Nat, NEW j \in Jobs, RequestCancel(j)
    PROVE  /\ jobs' \in [Jobs -> JobRecord] /\ clock' \in Nat
           /\ \A k \in Jobs \ {j} : jobs'[k] = jobs[k]
           /\ \/ jobs[j].status = "queued" /\ jobs'[j].status = "cancelled"
              \/ jobs[j].status = "running" /\ jobs'[j].status = "cancelling"
              \/ jobs[j].status \in {"cancelling"} \cup Terminal /\ jobs' = jobs
  <1>1. CASE jobs[j].status = "queued" /\ Transition(j, "cancelled", FALSE, FALSE)
    BY <1>1, TransitionIsLocal DEF JobStatus, Terminal
  <1>2. CASE jobs[j].status = "running" /\ Transition(j, "cancelling", FALSE, FALSE)
    BY <1>2, TransitionIsLocal DEF JobStatus, Active
  <1>3. CASE jobs[j].status \in {"cancelling"} \cup Terminal /\ UNCHANGED storeVars
    BY <1>3 DEF storeVars
  <1>4. QED
    BY <1>1, <1>2, <1>3 DEF RequestCancel

(* A write of the run keeps every run well formed and changes the claimed  *)
(* job's only.                                                             *)
LEMMA WriteRunIsLocal ==
    ASSUME runs \in [Jobs -> RunFile],
           NEW s \in RunStatus, NEW isSealed \in BOOLEAN, NEW n \in Nat,
           WriteRun(s, isSealed, n)
    PROVE  /\ runs' \in [Jobs -> RunFile]
           /\ cur \in Jobs => runs'[cur] = [status |-> s, sealed |-> isSealed, cases |-> n]
           /\ \A k \in Jobs \ {cur} : runs'[k] = runs[k]
  BY DEF WriteRun

LEMMA WriteStatusIsLocal ==
    ASSUME TypeOK, cur \in Jobs, NEW s \in RunStatus, WriteStatus(s)
    PROVE  /\ runs' \in [Jobs -> RunFile]
           /\ runs'[cur].status = s
           /\ \A k \in Jobs \ {cur} : runs'[k] = runs[k]
  <1>1. /\ runs \in [Jobs -> RunFile]
        /\ runs[cur].cases \in Nat
    BY DEF TypeOK
  <1>2. WriteRun(s, FALSE, runs[cur].cases)
    BY DEF WriteStatus
  <1>3. runs'[cur].status = s
    BY <1>1, <1>2 DEF WriteRun
  <1>4. QED
    BY <1>1, <1>2, <1>3, WriteRunIsLocal

-----------------------------------------------------------------------------
(* Type correctness. *)

(* Each action keeps every variable in its type. *)
LEMMA TypeStep == TypeOK /\ Located /\ [Next]_vars => TypeOK'
  <1> SUFFICES ASSUME TypeOK, Located, [Next]_vars PROVE TypeOK'
    OBVIOUS
  <1> USE DEF At, Goto, storeVars, threadVars, diskVars, envVars, TypeOK,
         Located, NoClaim, Executing, Points, WithHandle, RpcPoints,
         Settling, RunStatus
  <1>1. CASE LoopHead
    BY <1>1 DEF LoopHead
  <1>2. CASE NothingQueued
    BY <1>2 DEF NothingQueued
  <1>3. CASE Resolve
    BY <1>3 DEF Resolve
  <1>4. CASE BeginRepetition
    BY <1>4 DEF BeginRepetition
  <1>5. CASE StartWorker
    BY <1>5 DEF StartWorker, Handle
  <1>6. CASE RpcRaises
    BY <1>6 DEF RpcRaises
  <1>7. CASE Prepare
    BY <1>7 DEF Prepare, WriteRun, WriteStatus
  <1>8. CASE Ingest
    BY <1>8 DEF Ingest, WriteRun, WriteStatus
  <1>9. CASE NextCase
    BY <1>9 DEF NextCase
  <1>10. CASE CheckStatus
    BY <1>10 DEF CheckStatus
  <1>11. CASE SettleRefused
    BY <1>11 DEF SettleRefused
  <1>12. CASE Callback
    BY <1>12 DEF Callback
  <1>13. CASE ReadBack
    BY <1>13 DEF ReadBack
  <1>14. CASE WatcherFires
    BY <1>14 DEF WatcherFires
  <1>15. CASE WorkerDies
    BY <1>15 DEF WorkerDies
  <1>16. CASE Shutdown
    BY <1>16 DEF Shutdown
  <1>17. CASE Boot
    BY <1>17 DEF Boot
  <1>18. CASE BeginServing
    BY <1>18 DEF BeginServing
  <1>19. CASE Handshake
    <2>1. cur \in Jobs
      BY <1>19 DEF Handshake
    <2>2. runs' \in [Jobs -> RunFile]
      BY <1>19, <2>1, WriteStatusIsLocal DEF Handshake
    <2>3. QED
      BY <1>19, <2>2 DEF Handshake
  <1>20. CASE RecordFailure
    <2>1. cur \in Jobs
      BY <1>20 DEF RecordFailure
    <2>2. runs' \in [Jobs -> RunFile]
      BY <1>20, <2>1, WriteStatusIsLocal DEF RecordFailure
    <2>3. QED
      BY <1>20, <2>2 DEF RecordFailure
  <1>21. CASE Finish
    <2>1. cur \in Jobs
      BY <1>21 DEF Finish
    <2>2. mem' \in RunStatus
      BY <1>21 DEF Finish
    <2>3. runs' \in [Jobs -> RunFile]
      BY <1>21, <2>1, <2>2, WriteStatusIsLocal DEF Finish
    <2>4. QED
      BY <1>21, <2>2, <2>3 DEF Finish
  <1>22. CASE Seal
    <2>1. cur \in Jobs /\ runs[cur].cases \in Nat
      BY <1>22 DEF Seal
    <2>2. runs' \in [Jobs -> RunFile]
      BY <1>22, <2>1, WriteRunIsLocal DEF Seal
    <2>3. QED
      BY <1>22, <2>2 DEF Seal
  <1>23. CASE QueryAnswered
    <2>1. cur \in Jobs /\ runs[cur].cases + 1 \in Nat /\ runs[cur].status \in RunStatus
      BY <1>23 DEF QueryAnswered, WriteCase
    <2>2. runs' \in [Jobs -> RunFile]
      BY <1>23, <2>1, WriteRunIsLocal DEF QueryAnswered, WriteCase
    <2>3. QED
      BY <1>23, <2>2 DEF QueryAnswered, WriteCase
  <1>24. CASE QueryFailed
    <2>1. cur \in Jobs /\ runs[cur].cases + 1 \in Nat /\ runs[cur].status \in RunStatus
      BY <1>24 DEF QueryFailed, WriteCase
    <2>2. runs' \in [Jobs -> RunFile]
      BY <1>24, <2>1, WriteRunIsLocal DEF QueryFailed, WriteCase
    <2>3. QED
      BY <1>24, <2>2 DEF QueryFailed, WriteCase
  <1>25. CASE StopWorker
    <2>1. rep' \in 0..Reps
      BY <1>25 DEF StopWorker
    <2>2. pc' \in Points
      BY <1>25 DEF StopWorker
    <2>3. QED
      BY <1>25, <2>1, <2>2 DEF StopWorker
  <1>26. CASE Crash
    <2>1. lost' \subseteq Jobs \X (1..Reps)
      BY <1>26 DEF Crash, Handle
    <2>2. stops' \in 0..MaxStops
      BY <1>26 DEF Crash
    <2>3. /\ up' = "down" /\ pc' = "off" /\ cur' = NoJob /\ rep' = 0
          /\ mem' = "none" /\ left' = 0 /\ watching' = FALSE
          /\ UNCHANGED <<jobs, clock, target, runs, reviewed, acked, workers>>
      BY <1>26 DEF Crash
    <2>4. 0 \in 0..Reps /\ 0 \in 0..Cases
      OBVIOUS
    <2>5. QED
      BY <2>1, <2>2, <2>3, <2>4
  <1>27. CASE RecordWorker
    <2>1. cur \in Jobs /\ rep \in 0..Reps
      BY <1>27 DEF RecordWorker
    <2>2. jobs' \in [Jobs -> JobRecord] /\ clock' = clock
      BY <1>27, <2>1, UpdateWorkerIsLocal DEF RecordWorker
    <2>3. QED
      BY <1>27, <2>2 DEF RecordWorker
  <1>28. CASE \E j \in Jobs : Create(j)
    <2>1. PICK j \in Jobs : Create(j)
      BY <1>28
    <2>2. jobs' \in [Jobs -> JobRecord] /\ clock' \in Nat
      BY <2>1, CreateIsLocal DEF Create
    <2>3. QED
      BY <2>1, <2>2 DEF Create
  <1>29. CASE \E j \in Jobs : Cancel(j)
    <2>1. PICK j \in Jobs : Cancel(j)
      BY <1>29
    <2>2. jobs' \in [Jobs -> JobRecord] /\ clock' \in Nat
      BY <2>1, RequestCancelIsLocal DEF Cancel
    <2>3. QED
      BY <2>1, <2>2 DEF Cancel
  <1>30. CASE \E j \in Jobs : Claim(j)
    <2>1. PICK j \in Jobs : Claim(j)
      BY <1>30
    <2>2. jobs' \in [Jobs -> JobRecord] /\ clock' \in Nat
      BY <2>1, TransitionIsLocal DEF Claim, ClaimNext, JobStatus, Active
    <2>3. QED
      BY <2>1, <2>2 DEF Claim
  <1>31. CASE \E j \in Jobs : RecoverJob(j)
    <2>1. PICK j \in Jobs : RecoverJob(j)
      BY <1>31
    <2>2. jobs' \in [Jobs -> JobRecord] /\ clock' \in Nat
      BY <2>1, TransitionIsLocal DEF RecoverJob, JobStatus, Terminal
    <2>3. QED
      BY <2>1, <2>2 DEF RecoverJob
  <1>32. CASE Settle
    <2>1. cur \in Jobs /\ target \in JobStatus
      BY <1>32 DEF Settle, JobStatus, Terminal
    <2>2. jobs' \in [Jobs -> JobRecord] /\ clock' \in Nat
      BY <1>32, <2>1, TransitionIsLocal DEF Settle
    <2>3. QED
      BY <1>32, <2>2 DEF Settle
  <1>33. CASE SettleWithError
    <2>1. cur \in Jobs /\ target \in JobStatus
      BY <1>33 DEF SettleWithError, JobStatus, Terminal
    <2>2. jobs' \in [Jobs -> JobRecord] /\ clock' \in Nat
      BY <1>33, <2>1, TransitionIsLocal DEF SettleWithError
    <2>3. QED
      BY <1>33, <2>2 DEF SettleWithError
  <1>34. CASE UNCHANGED vars
    BY <1>34 DEF vars
  <1>35. QED
    BY <1>1, <1>2, <1>3, <1>4, <1>5, <1>6, <1>7, <1>8, <1>9, <1>10,
       <1>11, <1>12, <1>13, <1>14, <1>15, <1>16, <1>17, <1>18, <1>19,
       <1>20, <1>21, <1>22, <1>23, <1>24, <1>25, <1>26, <1>27, <1>28,
       <1>29, <1>30, <1>31, <1>32, <1>33, <1>34
    DEF Next, Dispatcher, Restart, Execute, SettleJob, RpcSucceeds, RpcFails

(* Where the dispatcher stands determines what it holds. *)
LEMMA LocatedStep == TypeOK /\ Located /\ [Next]_vars => Located'
  <1> SUFFICES ASSUME TypeOK, Located, [Next]_vars PROVE Located'
    OBVIOUS
  <1> USE DEF At, Goto, storeVars, threadVars, diskVars, envVars, TypeOK,
         Located, NoClaim, Executing, Points, WithHandle, RpcPoints,
         Settling, RunStatus
  <1>1. CASE LoopHead
    BY <1>1 DEF LoopHead
  <1>2. CASE NothingQueued
    BY <1>2 DEF NothingQueued
  <1>3. CASE Resolve
    BY <1>3 DEF Resolve
  <1>4. CASE BeginRepetition
    BY <1>4 DEF BeginRepetition
  <1>5. CASE StartWorker
    BY <1>5 DEF StartWorker
  <1>6. CASE RpcRaises
    BY <1>6 DEF RpcRaises
  <1>7. CASE Handshake
    BY <1>7 DEF Handshake
  <1>8. CASE Prepare
    BY <1>8 DEF Prepare
  <1>9. CASE Ingest
    BY <1>9 DEF Ingest
  <1>10. CASE NextCase
    BY <1>10 DEF NextCase
  <1>11. CASE QueryAnswered
    BY <1>11 DEF QueryAnswered, WriteCase
  <1>12. CASE QueryFailed
    BY <1>12 DEF QueryFailed, WriteCase
  <1>13. CASE StopWorker
    BY <1>13 DEF StopWorker
  <1>14. CASE Finish
    BY <1>14 DEF Finish
  <1>15. CASE Seal
    BY <1>15 DEF Seal
  <1>16. CASE RecordFailure
    BY <1>16 DEF RecordFailure
  <1>17. CASE CheckStatus
    BY <1>17 DEF CheckStatus
  <1>18. CASE SettleRefused
    BY <1>18 DEF SettleRefused
  <1>19. CASE Callback
    BY <1>19 DEF Callback
  <1>20. CASE ReadBack
    BY <1>20 DEF ReadBack
  <1>21. CASE WatcherFires
    BY <1>21 DEF WatcherFires
  <1>22. CASE WorkerDies
    BY <1>22 DEF WorkerDies
  <1>23. CASE Shutdown
    BY <1>23 DEF Shutdown
  <1>24. CASE Crash
    BY <1>24 DEF Crash
  <1>25. CASE Boot
    BY <1>25 DEF Boot
  <1>26. CASE BeginServing
    BY <1>26 DEF BeginServing
  <1>27. CASE Settle
    BY <1>27 DEF Settle
  <1>28. CASE SettleWithError
    BY <1>28 DEF SettleWithError
  <1>29. CASE RecordWorker
    BY <1>29 DEF RecordWorker
  <1>30. CASE \E j \in Jobs : Create(j)
    BY <1>30 DEF Create
  <1>31. CASE \E j \in Jobs : Cancel(j)
    BY <1>31 DEF Cancel
  <1>32. CASE \E j \in Jobs : Claim(j)
    BY <1>32 DEF Claim
  <1>33. CASE \E j \in Jobs : RecoverJob(j)
    BY <1>33 DEF RecoverJob
  <1>34. CASE UNCHANGED vars
    BY <1>34 DEF vars
  <1>35. QED
    BY <1>1, <1>2, <1>3, <1>4, <1>5, <1>6, <1>7, <1>8, <1>9, <1>10,
       <1>11, <1>12, <1>13, <1>14, <1>15, <1>16, <1>17, <1>18, <1>19,
       <1>20, <1>21, <1>22, <1>23, <1>24, <1>25, <1>26, <1>27, <1>28,
       <1>29, <1>30, <1>31, <1>32, <1>33, <1>34
    DEF Next, Dispatcher, Restart, Execute, SettleJob, RpcSucceeds, RpcFails

-----------------------------------------------------------------------------
(* The status of a job moves along the table, and one job at a time. *)

StatusMoves(j) ==
    \/ jobs'[j].status = jobs[j].status
    \/ jobs[j].status = "absent" /\ jobs'[j].status = "queued"
    \/ jobs'[j].status \in Successors(jobs[j].status)

(* What Settle, SettleWithError, Claim and RecoverJob do to the statuses. *)
LEMMA TransitionMoves ==
    ASSUME TypeOK, NEW j \in Jobs, NEW s \in JobStatus,
           NEW withRun \in BOOLEAN, NEW withError \in BOOLEAN,
           Transition(j, s, withRun, withError)
    PROVE  /\ s \in Successors(jobs[j].status) /\ jobs'[j].status = s
           /\ \A k \in Jobs \ {j} : jobs'[k] = jobs[k]
  <1>1. s \in Successors(jobs[j].status)
    BY DEF Transition, CanTransition
  <1>2. QED
    BY <1>1, TransitionIsLocal DEF TypeOK

(* No step moves a job along anything but the table. *)
LEMMA StatusStep == TypeOK /\ Located /\ [Next]_vars => \A j \in Jobs : StatusMoves(j)
  <1> SUFFICES ASSUME TypeOK, Located, [Next]_vars PROVE \A j \in Jobs : StatusMoves(j)
    OBVIOUS
  <1> USE DEF At, Goto
  <1>1. CASE jobs' = jobs
    BY <1>1 DEF StatusMoves
  <1>2. CASE RecordWorker
    <2>1. cur \in Jobs /\ rep \in 0..Reps
      BY <1>2 DEF RecordWorker, Located, NoClaim, TypeOK
    <2>2. QED
      BY <1>2, <2>1, UpdateWorkerIsLocal DEF RecordWorker, TypeOK, storeVars,
             StatusMoves
  <1>3. CASE \E j \in Jobs : Create(j)
    <2>1. PICK j \in Jobs : Create(j)
      BY <1>3
    <2>2. QED
      BY <2>1, CreateIsLocal DEF Create, TypeOK, StatusMoves
  <1>4. CASE \E j \in Jobs : Cancel(j)
    <2>1. PICK j \in Jobs : Cancel(j)
      BY <1>4
    <2>2. QED
      BY <2>1, RequestCancelIsLocal DEF Cancel, TypeOK, StatusMoves,
             Successors
  <1>5. CASE \E j \in Jobs : Claim(j)
    <2>1. PICK j \in Jobs : Claim(j)
      BY <1>5
    <2>2. QED
      BY <2>1, TransitionMoves DEF Claim, ClaimNext, JobStatus, Active,
             StatusMoves
  <1>6. CASE \E j \in Jobs : RecoverJob(j)
    <2>1. PICK j \in Jobs : RecoverJob(j)
      BY <1>6
    <2>2. QED
      BY <2>1, TransitionMoves DEF RecoverJob, JobStatus, Terminal,
             StatusMoves
  <1>7. CASE Settle
    <2>1. cur \in Jobs /\ target \in JobStatus
      BY <1>7 DEF Settle, Located, NoClaim, TypeOK, JobStatus, Terminal
    <2>2. QED
      BY <1>7, <2>1, TransitionMoves DEF Settle, StatusMoves
  <1>8. CASE SettleWithError
    <2>1. cur \in Jobs /\ target \in JobStatus
      BY <1>8 DEF SettleWithError, Located, NoClaim, TypeOK, JobStatus,
             Terminal
    <2>2. QED
      BY <1>8, <2>1, TransitionMoves DEF SettleWithError, StatusMoves
  <1>9. QED
    BY <1>1, <1>2, <1>3, <1>4, <1>5, <1>6, <1>7, <1>8
    DEF Next, Dispatcher, Restart, Execute, SettleJob, RpcSucceeds, RpcFails,
        LoopHead, NothingQueued, Resolve, BeginRepetition,
        StartWorker, RpcRaises, Handshake, Prepare, Ingest, NextCase,
        QueryAnswered, QueryFailed, StopWorker, Finish, Seal,
        RecordFailure, CheckStatus, SettleRefused, Callback, ReadBack,
        WatcherFires, WorkerDies, Shutdown, Crash, Boot, BeginServing,
        WriteCase, storeVars, threadVars, vars

(* Whoever is active is the dispatcher's, or nobody's before recovery. *)
LEMMA OwnedStep == TypeOK /\ Located /\ Owned /\ [Next]_vars => Owned'
  <1> SUFFICES ASSUME TypeOK, Located, Owned, [Next]_vars PROVE Owned'
    OBVIOUS
  <1> USE DEF At, Goto, storeVars, threadVars, diskVars, envVars, Located,
         NoClaim, Owned, SingleActiveJob, ActiveJobIsOwned, IsActive, Active
  <1>1. CASE LoopHead
    BY <1>1 DEF LoopHead
  <1>2. CASE NothingQueued
    BY <1>2 DEF NothingQueued
  <1>3. CASE Resolve
    BY <1>3 DEF Resolve
  <1>4. CASE BeginRepetition
    BY <1>4 DEF BeginRepetition
  <1>5. CASE StartWorker
    BY <1>5 DEF StartWorker
  <1>6. CASE RpcRaises
    BY <1>6 DEF RpcRaises, RpcPoints
  <1>7. CASE Handshake
    BY <1>7 DEF Handshake
  <1>8. CASE Prepare
    BY <1>8 DEF Prepare
  <1>9. CASE Ingest
    BY <1>9 DEF Ingest
  <1>10. CASE NextCase
    BY <1>10 DEF NextCase
  <1>11. CASE QueryAnswered
    BY <1>11 DEF QueryAnswered, WriteCase
  <1>12. CASE QueryFailed
    BY <1>12 DEF QueryFailed, WriteCase
  <1>13. CASE StopWorker
    BY <1>13 DEF StopWorker
  <1>14. CASE Finish
    BY <1>14 DEF Finish
  <1>15. CASE Seal
    BY <1>15 DEF Seal
  <1>16. CASE RecordFailure
    BY <1>16 DEF RecordFailure
  <1>17. CASE CheckStatus
    BY <1>17 DEF CheckStatus
  <1>18. CASE SettleRefused
    BY <1>18 DEF SettleRefused
  <1>19. CASE Callback
    BY <1>19 DEF Callback
  <1>20. CASE ReadBack
    BY <1>20 DEF ReadBack
  <1>21. CASE WatcherFires
    BY <1>21 DEF WatcherFires
  <1>22. CASE WorkerDies
    BY <1>22 DEF WorkerDies
  <1>23. CASE Shutdown
    BY <1>23 DEF Shutdown
  <1>24. CASE Crash
    BY <1>24 DEF Crash
  <1>25. CASE Boot
    BY <1>25 DEF Boot
  <1>26. CASE BeginServing
    BY <1>26 DEF BeginServing
  <1>27. CASE RecordWorker
    <2>1. cur \in Jobs /\ rep \in 0..Reps
      BY <1>27 DEF RecordWorker, TypeOK
    <2>2. \A k \in Jobs : jobs'[k].status = jobs[k].status
      BY <1>27, <2>1, UpdateWorkerIsLocal DEF RecordWorker, TypeOK
    <2>3. QED
      BY <1>27, <2>2 DEF RecordWorker
  <1>28. CASE \E j \in Jobs : Create(j)
    <2>1. PICK j \in Jobs : Create(j)
      BY <1>28
    <2>2. QED
      BY <2>1, CreateIsLocal DEF Create, TypeOK
  <1>29. CASE \E j \in Jobs : Cancel(j)
    <2>1. PICK j \in Jobs : Cancel(j)
      BY <1>29
    <2>2. \A k \in Jobs : jobs'[k].status \in Active <=> jobs[k].status \in Active
      BY <2>1, RequestCancelIsLocal DEF Cancel, TypeOK
    <2>3. QED
      BY <2>1, <2>2 DEF Cancel
  <1>30. CASE \E j \in Jobs : Claim(j)
    <2>1. PICK j \in Jobs : Claim(j)
      BY <1>30
    <2>2. /\ jobs'[j].status = "running"
          /\ \A k \in Jobs \ {j} : jobs'[k] = jobs[k]
      BY <2>1, TransitionMoves DEF Claim, ClaimNext, JobStatus
    <2>3. up \in {"serving", "stopping"} /\ cur \notin Jobs
      BY <2>1 DEF Claim, TypeOK
    <2>4. QED
      BY <2>1, <2>2, <2>3 DEF Claim
  <1>31. CASE \E j \in Jobs : RecoverJob(j)
    <2>1. PICK j \in Jobs : RecoverJob(j)
      BY <1>31
    <2>2. /\ jobs'[j].status = "interrupted"
          /\ \A k \in Jobs \ {j} : jobs'[k] = jobs[k]
      BY <2>1, TransitionMoves DEF RecoverJob, JobStatus, Terminal
    <2>3. QED
      BY <2>1, <2>2 DEF RecoverJob
  <1>32. CASE Settle
    <2>1. cur \in Jobs /\ target \in JobStatus /\ target \notin Active
      BY <1>32 DEF Settle, TypeOK, JobStatus, Terminal
    <2>2. jobs'[cur].status = target /\ \A k \in Jobs \ {cur} : jobs'[k] = jobs[k]
      BY <1>32, <2>1, TransitionMoves DEF Settle
    <2>3. QED
      BY <1>32, <2>1, <2>2, NoJobAssumption DEF Settle
  <1>33. CASE SettleWithError
    <2>1. cur \in Jobs /\ target \in JobStatus /\ target \notin Active
      BY <1>33 DEF SettleWithError, TypeOK, JobStatus, Terminal
    <2>2. jobs'[cur].status = target /\ \A k \in Jobs \ {cur} : jobs'[k] = jobs[k]
      BY <1>33, <2>1, TransitionMoves DEF SettleWithError
    <2>3. QED
      BY <1>33, <2>1, <2>2, NoJobAssumption DEF SettleWithError
  <1>34. CASE UNCHANGED vars
    BY <1>34 DEF vars
  <1>35. QED
    BY <1>1, <1>2, <1>3, <1>4, <1>5, <1>6, <1>7, <1>8, <1>9, <1>10,
       <1>11, <1>12, <1>13, <1>14, <1>15, <1>16, <1>17, <1>18, <1>19,
       <1>20, <1>21, <1>22, <1>23, <1>24, <1>25, <1>26, <1>27, <1>28,
       <1>29, <1>30, <1>31, <1>32, <1>33, <1>34
    DEF Next, Dispatcher, Restart, Execute, SettleJob, RpcSucceeds, RpcFails

(* An accepted cancellation rules completion out for good. *)
LEMMA WithdrawnStep == TypeOK /\ Located /\ Withdrawn /\ [Next]_vars => Withdrawn'
  <1> SUFFICES ASSUME TypeOK, Located, Withdrawn, [Next]_vars PROVE Withdrawn'
    OBVIOUS
  <1> DEFINE Out == {"cancelling", "cancelled", "failed", "interrupted"}
  <1>1. \A j \in acked : j \in Jobs /\ jobs'[j].status \in Out
    <2> SUFFICES ASSUME NEW j \in acked PROVE j \in Jobs /\ jobs'[j].status \in Out
      OBVIOUS
    <2>1. j \in Jobs /\ jobs[j].status \in Out
      BY DEF Withdrawn, TypeOK
    <2>2. StatusMoves(j)
      BY <2>1, StatusStep
    <2>3. QED
      BY <2>1, <2>2 DEF StatusMoves, Successors
  <1>2. CASE \E k \in Jobs : Cancel(k)
    BY <1>1, <1>2 DEF Cancel, Withdrawn
  <1>3. CASE ~ \E k \in Jobs : Cancel(k)
    <2>1. acked' = acked
      BY <1>3
      DEF Next, Dispatcher, Restart, Execute, SettleJob, RpcSucceeds, RpcFails,
        LoopHead, NothingQueued, Resolve, BeginRepetition,
        StartWorker, RpcRaises, Handshake, Prepare, Ingest, NextCase,
        QueryAnswered, QueryFailed, StopWorker, Finish, Seal,
        RecordFailure, CheckStatus, SettleRefused, Callback, ReadBack,
        WatcherFires, WorkerDies, Shutdown, Crash, Boot, BeginServing,
        RecordWorker, Claim, Create, RecoverJob, Settle,
        SettleWithError, WriteCase, envVars, threadVars, vars
    <2>2. QED
      BY <1>1, <2>1 DEF Withdrawn
  <1>4. QED
    BY <1>2, <1>3

(* What the dispatcher has read of its job and of its run still holds when *)
(* it acts on it.                                                          *)
LEMMA DecidedStep == TypeOK /\ Located /\ Owned /\ Decided /\ [Next]_vars => Decided'
  <1> SUFFICES ASSUME TypeOK, Located, Owned, Decided, [Next]_vars PROVE Decided'
    OBVIOUS
  <1> USE DEF At, Goto, storeVars, threadVars, diskVars, envVars, Located,
         NoClaim, Decided, FailedJobHasNoResult, NoResult, CancelRequested
  <1>1. CASE LoopHead
    BY <1>1 DEF LoopHead
  <1>2. CASE NothingQueued
    BY <1>2 DEF NothingQueued
  <1>3. CASE Resolve
    BY <1>3 DEF Resolve
  <1>4. CASE BeginRepetition
    BY <1>4 DEF BeginRepetition
  <1>5. CASE StartWorker
    BY <1>5 DEF StartWorker
  <1>6. CASE RpcRaises
    BY <1>6 DEF RpcRaises, RpcPoints
  <1>7. CASE Handshake
    BY <1>7 DEF Handshake, WriteStatus, WriteRun, Owned, IsActive, Active,
           TypeOK
  <1>8. CASE Prepare
    BY <1>8 DEF Prepare, WriteStatus, WriteRun, Owned, IsActive, Active,
           TypeOK
  <1>9. CASE Ingest
    BY <1>9 DEF Ingest, WriteStatus, WriteRun, Owned, IsActive, Active, TypeOK
  <1>10. CASE NextCase
    BY <1>10 DEF NextCase
  <1>11. CASE QueryAnswered
    BY <1>11 DEF QueryAnswered, WriteCase, WriteRun
  <1>12. CASE QueryFailed
    BY <1>12 DEF QueryFailed, WriteCase, WriteRun
  <1>13. CASE StopWorker
    BY <1>13 DEF StopWorker
  <1>14. CASE Finish
    BY <1>14 DEF Finish, WriteStatus, WriteRun, Owned, IsActive, Active,
           TypeOK
  <1>15. CASE Seal
    BY <1>15 DEF Seal, WriteStatus, WriteRun, Owned, IsActive, Active, TypeOK
  <1>16. CASE RecordFailure
    BY <1>16 DEF RecordFailure, WriteStatus, WriteRun, Owned, IsActive,
           Active, TypeOK
  <1>17. CASE CheckStatus
    BY <1>17 DEF CheckStatus
  <1>18. CASE SettleRefused
    BY <1>18 DEF SettleRefused, CanTransition, Successors, Owned, IsActive,
           Active
  <1>19. CASE Callback
    BY <1>19 DEF Callback
  <1>20. CASE ReadBack
    BY <1>20 DEF ReadBack
  <1>21. CASE WatcherFires
    BY <1>21 DEF WatcherFires
  <1>22. CASE WorkerDies
    BY <1>22 DEF WorkerDies
  <1>23. CASE Shutdown
    BY <1>23 DEF Shutdown
  <1>24. CASE Crash
    BY <1>24 DEF Crash
  <1>25. CASE Boot
    BY <1>25 DEF Boot
  <1>26. CASE BeginServing
    BY <1>26 DEF BeginServing
  <1>27. CASE RecordWorker
    <2>1. cur \in Jobs /\ rep \in 0..Reps
      BY <1>27 DEF RecordWorker, TypeOK
    <2>2. \A k \in Jobs : jobs'[k].status = jobs[k].status
      BY <1>27, <2>1, UpdateWorkerIsLocal DEF RecordWorker, TypeOK
    <2>3. QED
      BY <1>27, <2>1, <2>2 DEF RecordWorker
  <1>28. CASE \E j \in Jobs : Create(j)
    <2>1. PICK j \in Jobs : Create(j)
      BY <1>28
    <2>2. QED
      BY <2>1, CreateIsLocal DEF Create, TypeOK
  <1>29. CASE \E j \in Jobs : Cancel(j)
    <2>1. PICK j \in Jobs : Cancel(j)
      BY <1>29
    <2>2. \A k \in Jobs :
             /\ jobs[k].status = "cancelling" => jobs'[k].status = "cancelling"
             /\ jobs'[k].status \in {"absent", "queued", "failed"}
                  => jobs[k].status = jobs'[k].status
      BY <2>1, RequestCancelIsLocal DEF Cancel, TypeOK, Terminal
    <2>3. UNCHANGED <<pc, cur, mem, target, runs>>
      BY <2>1 DEF Cancel
    <2>4. QED
      BY <2>2, <2>3
  <1>30. CASE \E j \in Jobs : Claim(j)
    <2>1. PICK j \in Jobs : Claim(j)
      BY <1>30
    <2>2. /\ jobs[j].status = "queued" /\ jobs'[j].status = "running"
          /\ \A k \in Jobs \ {j} : jobs'[k] = jobs[k]
      BY <2>1, TransitionMoves DEF Claim, ClaimNext, Queued, JobStatus, Active
    <2>3. QED
      BY <2>1, <2>2 DEF Claim
  <1>31. CASE \E j \in Jobs : RecoverJob(j)
    <2>1. PICK j \in Jobs : RecoverJob(j)
      BY <1>31
    <2>2. /\ jobs'[j].status = "interrupted"
          /\ \A k \in Jobs \ {j} : jobs'[k] = jobs[k]
      BY <2>1, TransitionMoves DEF RecoverJob, JobStatus, Terminal
    <2>3. up = "recovering" /\ pc = "off" /\ cur \notin Jobs
      BY <2>1 DEF RecoverJob
    <2>4. QED
      BY <2>1, <2>2, <2>3 DEF RecoverJob
  <1>32. CASE Settle
    <2>1. cur \in Jobs /\ target \in JobStatus
      BY <1>32 DEF Settle, TypeOK, JobStatus, Terminal
    <2>2. /\ jobs'[cur].status = target
          /\ \A k \in Jobs \ {cur} : jobs'[k] = jobs[k]
      BY <1>32, <2>1, TransitionMoves DEF Settle
    <2>3. QED
      BY <1>32, <2>1, <2>2, NoJobAssumption DEF Settle, TypeOK
  <1>33. CASE SettleWithError
    <2>1. cur \in Jobs /\ target \in JobStatus
      BY <1>33 DEF SettleWithError, TypeOK, JobStatus, Terminal
    <2>2. /\ jobs'[cur].status = target
          /\ \A k \in Jobs \ {cur} : jobs'[k] = jobs[k]
      BY <1>33, <2>1, TransitionMoves DEF SettleWithError
    <2>3. QED
      BY <1>33, <2>1, <2>2, NoJobAssumption DEF SettleWithError, TypeOK
  <1>34. CASE UNCHANGED vars
    BY <1>34 DEF vars
  <1>35. QED
    BY <1>1, <1>2, <1>3, <1>4, <1>5, <1>6, <1>7, <1>8, <1>9, <1>10,
       <1>11, <1>12, <1>13, <1>14, <1>15, <1>16, <1>17, <1>18, <1>19,
       <1>20, <1>21, <1>22, <1>23, <1>24, <1>25, <1>26, <1>27, <1>28,
       <1>29, <1>30, <1>31, <1>32, <1>33, <1>34
    DEF Next, Dispatcher, Restart, Execute, SettleJob, RpcSucceeds, RpcFails

-----------------------------------------------------------------------------
(* Worker processes, across crashes and restarts. *)

(* A transition touches neither the pid nor a run that is already named. *)
LEMMA TransitionKeeps ==
    ASSUME jobs \in [Jobs -> JobRecord],
           NEW j \in Jobs, NEW s \in JobStatus,
           NEW withRun \in BOOLEAN, NEW withError \in BOOLEAN,
           Transition(j, s, withRun, withError)
    PROVE  /\ jobs'[j].pid = jobs[j].pid
           /\ jobs'[j].run <=> jobs[j].run \/ withRun
           /\ jobs'[j].error <=> withError
  <1> DEFINE r == [jobs[j] EXCEPT !.status = s, !.run = jobs[j].run \/ withRun,
                                  !.error = withError]
  <1>1. jobs' = [jobs EXCEPT ![j] = r]
    BY DEF Transition
  <1>2. jobs[j] \in JobRecord
    OBVIOUS
  <1>3. r.pid = jobs[j].pid /\ (r.run <=> jobs[j].run \/ withRun) /\ (r.error <=> withError)
    BY <1>2 DEF JobRecord
  <1> HIDE DEF r
  <1>4. QED
    BY <1>1, <1>3

(* Recording a worker names the run and its pid, in that job only. *)
LEMMA UpdateWorkerRecords ==
    ASSUME jobs \in [Jobs -> JobRecord], NEW j \in Jobs, NEW r \in 0..Reps,
           UpdateWorker(j, r)
    PROVE  /\ jobs'[j].run /\ jobs'[j].pid = r
           /\ jobs'[j].error = jobs[j].error
           /\ \A k \in Jobs \ {j} : jobs'[k] = jobs[k]
  <1> DEFINE new == [jobs[j] EXCEPT !.run = TRUE, !.pid = r]
  <1>1. jobs[j] \in JobRecord
    OBVIOUS
  <1>2. new.run /\ new.pid = r /\ new.error = jobs[j].error
    BY <1>1 DEF JobRecord
  <1>3. jobs' = [jobs EXCEPT ![j] = new]
    BY DEF UpdateWorker
  <1> HIDE DEF new
  <1>4. QED
    BY <1>2, <1>3

(* A cancellation request keeps what a restart needs to find the worker.   *)
LEMMA CancelKeeps ==
    ASSUME jobs \in [Jobs -> JobRecord], clock \in Nat, NEW j \in Jobs, RequestCancel(j)
    PROVE  /\ \A k \in Jobs \ {j} : jobs'[k] = jobs[k]
           /\ jobs[j].status = "interrupted" => jobs' = jobs
           /\ jobs'[j].run = jobs[j].run /\ jobs'[j].pid = jobs[j].pid
  <1>1. CASE jobs' = jobs
    BY <1>1
  <1>2. ASSUME NEW s \in JobStatus, Transition(j, s, FALSE, FALSE),
               jobs[j].status # "interrupted"
        PROVE  /\ \A k \in Jobs \ {j} : jobs'[k] = jobs[k]
               /\ jobs'[j].run = jobs[j].run /\ jobs'[j].pid = jobs[j].pid
    <2>1. /\ jobs' = [jobs EXCEPT ![j] = [jobs[j] EXCEPT !.status = s,
                                              !.run = jobs[j].run \/ FALSE, !.error = FALSE]]
          /\ jobs[j] \in JobRecord /\ jobs[j].run \in BOOLEAN
      BY <1>2 DEF Transition, JobRecord
    <2>2. QED
      BY <2>1 DEF JobRecord
  <1>3. QED
    BY <1>1, <1>2 DEF RequestCancel, storeVars, JobStatus, Active, Terminal

(* No step writes the record of a job that has settled. *)
LEMMA SettledRecordsAreKept ==
    TypeOK /\ Located /\ Owned /\ [Next]_vars
      => \A j \in Jobs : Settled(j) => jobs'[j] = jobs[j]
  <1> SUFFICES ASSUME TypeOK, Located, Owned, [Next]_vars, NEW j \in Jobs, Settled(j)
               PROVE jobs'[j] = jobs[j]
    OBVIOUS
  <1> USE DEF At, Goto, Settled
  <1>0. Successors(jobs[j].status) = {}
    BY DEF Successors, Terminal
  <1>1. CASE jobs' = jobs
    BY <1>1
  <1>2. CASE RecordWorker
    <2>1. cur \in Jobs /\ rep \in 0..Reps /\ IsActive(cur)
      BY <1>2 DEF RecordWorker, Located, NoClaim, TypeOK, Owned
    <2>2. QED
      BY <1>2, <2>1, UpdateWorkerRecords DEF RecordWorker, TypeOK, storeVars,
             IsActive, Active, Terminal
  <1>3. CASE \E k \in Jobs : Create(k)
    <2>1. PICK k \in Jobs : Create(k)
      BY <1>3
    <2>2. QED
      BY <2>1, CreateIsLocal DEF Create, TypeOK, Terminal
  <1>4. CASE \E k \in Jobs : Cancel(k)
    <2>1. PICK k \in Jobs : Cancel(k)
      BY <1>4
    <2>2. QED
      BY <2>1, RequestCancelIsLocal DEF Cancel, TypeOK, Terminal
  <1>5. CASE \E k \in Jobs : Claim(k)
    <2>1. PICK k \in Jobs : Claim(k)
      BY <1>5
    <2>2. QED
      BY <1>0, <2>1, TransitionMoves DEF Claim, ClaimNext, JobStatus, Active
  <1>6. CASE \E k \in Jobs : RecoverJob(k)
    <2>1. PICK k \in Jobs : RecoverJob(k)
      BY <1>6
    <2>2. QED
      BY <1>0, <2>1, TransitionMoves DEF RecoverJob, JobStatus, Terminal
  <1>7. CASE Settle \/ SettleWithError
    <2>1. cur \in Jobs /\ target \in JobStatus
      BY <1>7 DEF Settle, SettleWithError, Located, NoClaim, TypeOK, JobStatus, Terminal
    <2>2. QED
      BY <1>0, <1>7, <2>1, TransitionMoves DEF Settle, SettleWithError
  <1>8. QED
    BY <1>1, <1>2, <1>3, <1>4, <1>5, <1>6, <1>7
    DEF Next, Dispatcher, Restart, Execute, SettleJob, RpcSucceeds, RpcFails,
        LoopHead, NothingQueued, Resolve, BeginRepetition,
        StartWorker, RpcRaises, Handshake, Prepare, Ingest, NextCase,
        QueryAnswered, QueryFailed, StopWorker, Finish, Seal,
        RecordFailure, CheckStatus, SettleRefused, Callback, ReadBack,
        WatcherFires, WorkerDies, Shutdown, Crash, Boot, BeginServing,
        WriteCase, storeVars, threadVars, vars

(* Who looks after a worker: the dispatcher that started it, or the record *)
(* a restart will read, or nobody, when the crash came too early.          *)
LEMMA TendedStep ==
    TypeOK /\ Located /\ Owned /\ Tended /\ [Next]_vars => Tended'
  <1> SUFFICES ASSUME TypeOK, Located, Owned, Tended, [Next]_vars PROVE Tended'
    OBVIOUS
  <1> USE DEF At, Goto, storeVars, threadVars, diskVars, envVars, Located,
         NoClaim, Executing, WithHandle, RpcPoints, Tended, IsActive, Handle
  <1>0. \A w \in workers \cup lost : w[1] \in Jobs
    BY DEF TypeOK
  <1>1. CASE LoopHead
    BY <1>1 DEF LoopHead
  <1>2. CASE NothingQueued
    BY <1>2 DEF NothingQueued
  <1>3. CASE Resolve
    BY <1>3 DEF Resolve
  <1>4. CASE BeginRepetition
    BY <1>4 DEF BeginRepetition
  <1>5. CASE StartWorker
    BY <1>5 DEF StartWorker
  <1>6. CASE RpcRaises
    BY <1>6 DEF RpcRaises
  <1>7. CASE Handshake
    BY <1>7 DEF Handshake
  <1>8. CASE Prepare
    BY <1>8 DEF Prepare
  <1>9. CASE Ingest
    BY <1>9 DEF Ingest
  <1>10. CASE NextCase
    BY <1>10 DEF NextCase
  <1>11. CASE QueryAnswered
    BY <1>11 DEF QueryAnswered, WriteCase
  <1>12. CASE QueryFailed
    BY <1>12 DEF QueryFailed, WriteCase
  <1>13. CASE StopWorker
    BY <1>13 DEF StopWorker
  <1>14. CASE Finish
    BY <1>14 DEF Finish
  <1>15. CASE Seal
    BY <1>15 DEF Seal
  <1>16. CASE RecordFailure
    BY <1>16 DEF RecordFailure
  <1>17. CASE CheckStatus
    BY <1>17 DEF CheckStatus
  <1>18. CASE SettleRefused
    BY <1>18 DEF SettleRefused
  <1>19. CASE Callback
    BY <1>19 DEF Callback
  <1>20. CASE ReadBack
    BY <1>20 DEF ReadBack
  <1>21. CASE WatcherFires
    BY <1>21 DEF WatcherFires
  <1>22. CASE WorkerDies
    BY <1>22 DEF WorkerDies
  <1>23. CASE Shutdown
    BY <1>23 DEF Shutdown
  <1>24. CASE Crash
    <2>1. /\ pc' = "off" /\ jobs' = jobs /\ workers' = workers
          /\ lost' = IF cur \in Jobs /\ (pc = "record" \/ cur \notin LocalJobs)
                     THEN lost \cup ({Handle} \cap workers) ELSE lost
      BY <1>24 DEF Crash
    <2>2. \A w \in workers : pc \in WithHandle /\ w = Handle
             => /\ w = <<cur, rep>> /\ cur \in Jobs /\ IsActive(cur)
                /\ w \in lost' \/ (jobs[cur].run /\ jobs[cur].pid = rep)
      BY <2>1, ProviderAssumption DEF Owned
    <2>3. \A w \in lost' : w \in lost \/ (w = Handle /\ cur \in Jobs /\ IsActive(cur))
      <3>1. \A w \in lost' \ lost : w = Handle /\ cur \in Jobs /\ w \in workers
        BY <2>1
      <3>2. QED
        BY <2>2, <3>1 DEF TypeOK, Owned
    <2>4. QED
      BY <2>1, <2>2, <2>3
  <1>25. CASE Boot
    BY <1>25 DEF Boot
  <1>26. CASE BeginServing
    BY <1>26 DEF BeginServing, Owned, TypeOK
  <1>27. CASE RecordWorker
    <2>1. cur \in Jobs /\ rep \in 0..Reps
      BY <1>27 DEF RecordWorker, TypeOK
    <2>2. \A k \in Jobs : jobs'[k].status = jobs[k].status
      BY <1>27, <2>1, UpdateWorkerIsLocal DEF RecordWorker, TypeOK
    <2>3. cur \in LocalJobs => jobs'[cur].run /\ jobs'[cur].pid = rep
      BY <1>27, <2>1, UpdateWorkerRecords DEF RecordWorker, TypeOK
    <2>4. QED
      BY <1>27, <2>1, <2>2, <2>3 DEF RecordWorker, TypeOK
  <1>28. CASE \E j \in Jobs : Create(j)
    <2>1. PICK j \in Jobs : Create(j)
      BY <1>28
    <2>2. jobs[j].status = "absent" /\ \A k \in Jobs \ {j} : jobs'[k] = jobs[k]
      BY <2>1, CreateIsLocal DEF Create, TypeOK
    <2>3. UNCHANGED <<pc, cur, rep, workers, lost>> /\ pc # "off"
      BY <2>1 DEF Create
    <2>4. pc \in WithHandle => cur # j
      BY <2>2 DEF Owned, Active
    <2>5. QED
      BY <1>0, <2>2, <2>3, <2>4
  <1>29. CASE \E j \in Jobs : Cancel(j)
    <2>1. PICK j \in Jobs : Cancel(j)
      BY <1>29
    <2>2. /\ \A k \in Jobs \ {j} : jobs'[k] = jobs[k]
          /\ jobs[j].status = "interrupted" => jobs' = jobs
          /\ jobs'[j].run = jobs[j].run /\ jobs'[j].pid = jobs[j].pid
      BY <2>1, CancelKeeps DEF Cancel, TypeOK
    <2>3. UNCHANGED <<pc, cur, rep, workers, lost>> /\ pc # "off"
      BY <2>1 DEF Cancel
    <2>4. QED
      BY <1>0, <2>2, <2>3, ProviderAssumption
  <1>30. CASE \E j \in Jobs : Claim(j)
    <2>1. PICK j \in Jobs : Claim(j)
      BY <1>30
    <2>2. jobs[j].status = "queued" /\ \A k \in Jobs \ {j} : jobs'[k] = jobs[k]
      BY <2>1, TransitionMoves DEF Claim, ClaimNext, Queued, JobStatus, Active
    <2>3. /\ UNCHANGED <<workers, lost>>
          /\ pc = "poll" /\ pc' = "resolve"
      BY <2>1 DEF Claim
    <2>4. QED
      BY <1>0, <2>2, <2>3
  <1>31. CASE \E j \in Jobs : RecoverJob(j)
    <2>1. PICK j \in Jobs : RecoverJob(j)
      BY <1>31
    <2>2. /\ jobs'[j].status = "interrupted"
          /\ \A k \in Jobs \ {j} : jobs'[k] = jobs[k]
      BY <2>1, TransitionMoves DEF RecoverJob, JobStatus, Terminal
    <2>3. QED
      BY <2>1, <2>2 DEF RecoverJob, TypeOK
  <1>32. CASE Settle
    <2>1. cur \in Jobs /\ target \in JobStatus
      BY <1>32 DEF Settle, TypeOK, JobStatus, Terminal
    <2>2. \A k \in Jobs \ {cur} : jobs'[k] = jobs[k]
      BY <1>32, <2>1, TransitionMoves DEF Settle
    <2>3. /\ UNCHANGED <<workers, lost>>
          /\ pc \notin WithHandle \cup {"off"} /\ pc' \notin WithHandle \cup {"off"}
      BY <1>32 DEF Settle
    <2>4. jobs[cur].status # "interrupted"
      BY <1>32, <2>1 DEF Settle, Owned, Active
    <2>5. QED
      BY <1>0, <2>2, <2>3, <2>4
  <1>33. CASE SettleWithError
    <2>1. cur \in Jobs /\ target \in JobStatus
      BY <1>33 DEF SettleWithError, TypeOK, JobStatus, Terminal
    <2>2. \A k \in Jobs \ {cur} : jobs'[k] = jobs[k]
      BY <1>33, <2>1, TransitionMoves DEF SettleWithError
    <2>3. /\ UNCHANGED <<workers, lost>>
          /\ pc \notin WithHandle \cup {"off"} /\ pc' \notin WithHandle \cup {"off"}
      BY <1>33 DEF SettleWithError
    <2>4. jobs[cur].status # "interrupted"
      BY <1>33, <2>1 DEF SettleWithError, Owned, Active
    <2>5. QED
      BY <1>0, <2>2, <2>3, <2>4
  <1>34. CASE UNCHANGED vars
    BY <1>34 DEF vars
  <1>35. QED
    BY <1>1, <1>2, <1>3, <1>4, <1>5, <1>6, <1>7, <1>8, <1>9, <1>10,
       <1>11, <1>12, <1>13, <1>14, <1>15, <1>16, <1>17, <1>18, <1>19,
       <1>20, <1>21, <1>22, <1>23, <1>24, <1>25, <1>26, <1>27, <1>28,
       <1>29, <1>30, <1>31, <1>32, <1>33, <1>34
    DEF Next, Dispatcher, Restart, Execute, SettleJob, RpcSucceeds, RpcFails
-----------------------------------------------------------------------------
(* The results of a run. *)

(* Whole repetitions add up. *)
LEMMA FullGrows == Full(0) = 0 /\ \A r \in Nat \ {0} : Full(r) = Full(r - 1) + Cases
  <1>1. \A r, n \in Nat : (r + 1) * n = r * n + n
    OBVIOUS
  <1>2. ASSUME NEW r \in Nat \ {0} PROVE Full(r) = Full(r - 1) + Cases
    <2>1. r - 1 \in Nat /\ (r - 1) + 1 = r
      OBVIOUS
    <2>2. QED
      BY <1>1, <2>1 DEF Full
  <1>3. QED
    BY <1>2 DEF Full

(* A write of the status keeps the results of the run. *)
LEMMA WriteStatusKeepsCases ==
    ASSUME TypeOK, cur \in Jobs, NEW s \in RunStatus, WriteStatus(s)
    PROVE  /\ runs'[cur] = [status |-> s, sealed |-> FALSE, cases |-> runs[cur].cases]
           /\ \A k \in Jobs \ {cur} : runs'[k] = runs[k]
  BY DEF TypeOK, WriteStatus, WriteRun

(* A case written: one result more, one case less to go. *)
LEMMA WriteCaseCounts ==
    ASSUME TypeOK, Located, Owned, Counted, NEW c \in BOOLEAN, WriteCase(c)
    PROVE  Counted'
  <1>1. /\ cur \in Jobs /\ pc = "query" /\ jobs' = jobs /\ UNCHANGED <<cur, rep, target>>
        /\ left \in Nat /\ runs[cur].cases \in Nat
    BY DEF WriteCase, At, Located, NoClaim, TypeOK, storeVars
  <1>2. /\ pc' = IF c THEN "stopOk" ELSE "case"
        /\ mem' = IF c THEN "cancelled" ELSE mem
        /\ left' = left - 1
    BY DEF WriteCase, Goto
  <1>3. /\ runs'[cur].cases = runs[cur].cases + 1
        /\ \A k \in Jobs \ {cur} : runs'[k] = runs[k]
    BY <1>1 DEF WriteCase, WriteRun, TypeOK
  <1>4. jobs[cur].status \notin {"absent", "queued", "completed"}
    BY <1>1 DEF Owned, IsActive, Active
  <1>5. CASE c
    BY <1>1, <1>2, <1>3, <1>4, <1>5 DEF Counted, Opening, Whole
  <1>6. CASE ~c
    <2>1. mem = "running" /\ runs[cur].cases + left = Full(rep)
      BY <1>1 DEF Counted
    <2>2. runs'[cur].cases + left' = Full(rep)
      BY <1>1, <1>2, <1>3, <2>1
    <2>3. QED
      BY <1>1, <1>2, <1>3, <1>4, <1>6, <2>1, <2>2 DEF Counted, Opening, Whole, Full
  <1>7. QED
    BY <1>5, <1>6

(* The results in the run are those of the repetitions and cases done.    *)
LEMMA CountedStep ==
    TypeOK /\ Located /\ Owned /\ Decided /\ Counted /\ [Next]_vars => Counted'
  <1> SUFFICES ASSUME TypeOK, Located, Owned, Decided, Counted, [Next]_vars PROVE Counted'
    OBVIOUS
  <1>0. /\ Full(0) = 0
        /\ rep \in 1..Reps => Full(rep) = Full(rep - 1) + Cases
    BY FullGrows DEF TypeOK
  <1>active. cur \in Jobs /\ pc # "callback"
          => jobs[cur].status \notin {"absent", "queued", "completed"}
    BY DEF Owned, IsActive, Active
  <1> USE DEF At, Goto, storeVars, threadVars, diskVars, envVars, Located,
         NoClaim, Counted, Opening, Whole
  <1>1. CASE LoopHead
    BY <1>0, <1>1 DEF LoopHead
  <1>2. CASE NothingQueued
    BY <1>0, <1>2 DEF NothingQueued
  <1>3. CASE Resolve
    <2>1. /\ UNCHANGED <<jobs, runs, cur, mem, target>> /\ pc = "resolve"
          /\ (pc' = "rep" /\ rep' = 1) \/ pc' = "readback"
      BY <1>3 DEF Resolve
    <2>2. rep' = 1 => Full(rep' - 1) = 0
      <3>1. rep' = 1 => rep' - 1 = 0
        OBVIOUS
      <3>2. QED
        BY <1>0, <3>1
    <2>3. QED
      BY <2>1, <2>2
  <1>4. CASE BeginRepetition
    BY <1>0, <1>4 DEF BeginRepetition
  <1>5. CASE StartWorker
    BY <1>0, <1>5 DEF StartWorker
  <1>6. CASE RpcRaises
    BY <1>0, <1>6 DEF RpcRaises
  <1>7. CASE Handshake
    <2>1. cur \in Jobs /\ jobs' = jobs /\ cur' = cur /\ rep' = rep
          /\ pc = "handshake" /\ pc' = "prepare"
      BY <1>7 DEF Handshake
    <2>2. runs'[cur].cases = runs[cur].cases /\ \A k \in Jobs \ {cur} : runs'[k] = runs[k]
      BY <1>7, <2>1, WriteStatusKeepsCases DEF Handshake, RunStatus
    <2>3. QED
      BY <1>active, <1>0, <2>1, <2>2
  <1>8. CASE Prepare
    <2>1. cur \in Jobs /\ jobs' = jobs /\ cur' = cur /\ rep' = rep
          /\ pc = "prepare" /\ pc' = "ingest" /\ WriteStatus(mem')
      BY <1>8 DEF Prepare
    <2>2. mem' \in RunStatus
      BY <1>8 DEF Prepare, RunStatus, TypeOK
    <2>3. runs'[cur].cases = runs[cur].cases /\ \A k \in Jobs \ {cur} : runs'[k] = runs[k]
      <3>1. /\ runs'[cur] = [status |-> mem', sealed |-> FALSE, cases |-> runs[cur].cases]
            /\ \A k \in Jobs \ {cur} : runs'[k] = runs[k]
        BY <2>1, <2>2, WriteStatusKeepsCases
      <3>2. QED
        BY <3>1
    <2>4. QED
      BY <1>active, <1>0, <2>1, <2>3
  <1>9. CASE Ingest
    <2>1. /\ cur \in Jobs /\ jobs' = jobs /\ cur' = cur /\ rep' = rep
          /\ pc = "ingest" /\ pc' = "case" /\ mem' = "running" /\ left' = Cases
          /\ rep \in 1..Reps
      BY <1>9 DEF Ingest, Executing, WithHandle, RpcPoints
    <2>2. runs'[cur].cases = runs[cur].cases /\ \A k \in Jobs \ {cur} : runs'[k] = runs[k]
      BY <1>9, <2>1, WriteStatusKeepsCases DEF Ingest, RunStatus
    <2>3. Full(rep) = runs'[cur].cases + left'
      <3>1. Full(rep) = Full(rep - 1) + Cases
        BY <1>0, <2>1
      <3>2. Full(rep - 1) = runs[cur].cases
        BY <2>1
      <3>3. QED
        BY <2>1, <2>2, <3>1, <3>2
    <2>4. QED
      BY <1>active, <2>1, <2>2, <2>3
  <1>10. CASE NextCase
    <2>1. /\ UNCHANGED <<jobs, runs, cur, rep, left, target>> /\ pc = "case"
          /\ \/ left = 0 /\ pc' = "stopOk" /\ mem' = mem
             \/ pc' = "query" /\ mem' = mem
             \/ pc' = "stopOk" /\ mem' = "cancelled"
      BY <1>10 DEF NextCase
    <2>2. left = 0 => runs[cur].cases + left = runs[cur].cases
      BY <2>1 DEF TypeOK
    <2>3. QED
      BY <2>1, <2>2
  <1>11. CASE QueryAnswered
    <2>1. PICK c \in BOOLEAN : WriteCase(c)
      BY <1>11 DEF QueryAnswered
    <2>2. QED
      BY <2>1, WriteCaseCounts
  <1>12. CASE QueryFailed
    <2>1. PICK c \in BOOLEAN : WriteCase(c)
      BY <1>12 DEF QueryFailed, CancelRequested
    <2>2. QED
      BY <2>1, WriteCaseCounts
  <1>13. CASE StopWorker
    <2>1. UNCHANGED <<jobs, runs, cur, mem, left, target>>
      BY <1>13 DEF StopWorker
    <2>2. CASE pc' = "fail"
      BY <2>1, <2>2
    <2>3. CASE pc = "stopOk" /\ (mem = "cancelled" \/ rep = Reps) /\ pc' = "finish"
      BY <2>1, <2>3
    <2>4. CASE pc = "stopOk" /\ mem # "cancelled" /\ pc' = "rep" /\ rep' = rep + 1
      <3>1. rep' - 1 = rep
        BY <2>4 DEF TypeOK
      <3>2. QED
        BY <2>1, <2>4, <3>1
    <2>5. QED
      BY <1>13, <2>2, <2>3, <2>4 DEF StopWorker
  <1>14. CASE Finish
    <2>1. cur \in Jobs /\ jobs' = jobs /\ cur' = cur /\ pc = "finish"
      BY <1>14 DEF Finish
    <2>2. CASE pc' = "fail" /\ runs' = runs
      BY <2>1, <2>2
    <2>3. CASE /\ mem # "none" /\ pc' = "seal"
               /\ mem' = IF mem = "cancelled" THEN "cancelled" ELSE "completed"
               /\ WriteStatus(mem')
      <3>1. runs'[cur].cases = runs[cur].cases /\ \A k \in Jobs \ {cur} : runs'[k] = runs[k]
        BY <2>1, <2>3, WriteStatusKeepsCases DEF RunStatus
      <3>2. QED
        BY <1>active, <2>1, <2>3, <3>1
    <2>4. QED
      BY <1>14, <2>2, <2>3 DEF Finish
  <1>15. CASE Seal
    <2>1. cur \in Jobs /\ jobs' = jobs /\ cur' = cur /\ mem' = mem /\ pc = "seal"
      BY <1>15 DEF Seal
    <2>2. CASE pc' = "fail" /\ runs' = runs
      BY <2>1, <2>2
    <2>3. CASE WriteRun(mem, TRUE, runs[cur].cases) /\ pc' = "check"
      <3>1. /\ runs'[cur] = [status |-> mem, sealed |-> TRUE, cases |-> runs[cur].cases]
            /\ \A k \in Jobs \ {cur} : runs'[k] = runs[k]
        BY <2>1, <2>3 DEF WriteRun, TypeOK
      <3>2. QED
        BY <1>active, <2>1, <2>3, <3>1
    <2>4. QED
      BY <1>15, <2>2, <2>3 DEF Seal
  <1>16. CASE RecordFailure
    <2>1. cur \in Jobs /\ jobs' = jobs /\ cur' = cur /\ pc = "fail" /\ pc' = "readback"
      BY <1>16 DEF RecordFailure
    <2>2. CASE runs' = runs
      BY <2>1, <2>2
    <2>3. CASE WriteStatus("failed")
      <3>1. runs'[cur].cases = runs[cur].cases /\ \A k \in Jobs \ {cur} : runs'[k] = runs[k]
        BY <2>1, <2>3, WriteStatusKeepsCases DEF RunStatus
      <3>2. QED
        BY <1>active, <2>1, <3>1
    <2>4. QED
      BY <1>16, <2>2, <2>3 DEF RecordFailure
  <1>17. CASE CheckStatus
    BY <1>0, <1>17 DEF CheckStatus
  <1>18. CASE SettleRefused
    BY <1>0, <1>18 DEF SettleRefused
  <1>19. CASE Callback
    BY <1>0, <1>19 DEF Callback
  <1>20. CASE ReadBack
    BY <1>0, <1>20 DEF ReadBack
  <1>21. CASE WatcherFires
    BY <1>0, <1>21 DEF WatcherFires
  <1>22. CASE WorkerDies
    BY <1>0, <1>22 DEF WorkerDies
  <1>23. CASE Shutdown
    BY <1>0, <1>23 DEF Shutdown
  <1>24. CASE Crash
    BY <1>0, <1>24 DEF Crash
  <1>25. CASE Boot
    BY <1>0, <1>25 DEF Boot
  <1>26. CASE BeginServing
    BY <1>0, <1>26 DEF BeginServing
  <1>27. CASE RecordWorker
    <2>1. cur \in Jobs /\ rep \in 0..Reps /\ IsActive(cur)
      BY <1>27 DEF RecordWorker, TypeOK, Owned
    <2>2. \A k \in Jobs : jobs'[k].status = jobs[k].status
      BY <1>27, <2>1, UpdateWorkerIsLocal DEF RecordWorker, TypeOK
    <2>3. \A k \in Jobs \ {cur} : jobs'[k] = jobs[k]
      BY <1>27, <2>1, UpdateWorkerRecords DEF RecordWorker, TypeOK
    <2>4. UNCHANGED <<cur, rep, mem, left, target, runs>> /\ pc = "record" /\ pc' = "handshake"
      BY <1>27 DEF RecordWorker
    <2>5. QED
      BY <2>1, <2>2, <2>3, <2>4 DEF IsActive, Active
  <1>28. CASE \E j \in Jobs : Create(j)
    <2>1. PICK j \in Jobs : Create(j)
      BY <1>28
    <2>2. /\ jobs[j].status = "absent" /\ jobs'[j].status = "queued"
          /\ \A k \in Jobs \ {j} : jobs'[k] = jobs[k]
      BY <2>1, CreateIsLocal DEF Create, TypeOK
    <2>3. UNCHANGED <<pc, cur, rep, mem, left, target, runs>>
      BY <2>1 DEF Create
    <2>4. QED
      BY <2>2, <2>3
  <1>29. CASE \E j \in Jobs : Cancel(j)
    <2>1. PICK j \in Jobs : Cancel(j)
      BY <1>29
    <2>2. /\ \A k \in Jobs \ {j} : jobs'[k] = jobs[k]
          /\ jobs' = jobs \/ jobs'[j].status \in {"cancelled", "cancelling"}
      BY <2>1, RequestCancelIsLocal DEF Cancel, TypeOK
    <2>3. UNCHANGED <<pc, cur, rep, mem, left, target, runs>>
      BY <2>1 DEF Cancel
    <2>4. QED
      BY <2>2, <2>3
  <1>30. CASE \E j \in Jobs : Claim(j)
    <2>1. PICK j \in Jobs : Claim(j)
      BY <1>30
    <2>2. /\ jobs[j].status = "queued" /\ jobs'[j].status = "running"
          /\ \A k \in Jobs \ {j} : jobs'[k] = jobs[k]
      BY <2>1, TransitionMoves DEF Claim, ClaimNext, Queued, JobStatus, Active
    <2>3. pc' = "resolve" /\ cur' = j /\ runs' = runs
      BY <2>1 DEF Claim
    <2>4. QED
      BY <2>2, <2>3
  <1>31. CASE \E j \in Jobs : RecoverJob(j)
    <2>1. PICK j \in Jobs : RecoverJob(j)
      BY <1>31
    <2>2. /\ jobs'[j].status = "interrupted"
          /\ \A k \in Jobs \ {j} : jobs'[k] = jobs[k]
      BY <2>1, TransitionMoves DEF RecoverJob, JobStatus, Terminal
    <2>3. pc = "off" /\ pc' = "off" /\ runs' = runs
      BY <2>1 DEF RecoverJob
    <2>4. QED
      BY <2>2, <2>3
  <1>32. CASE Settle
    <2>1. cur \in Jobs /\ target \in JobStatus /\ target # "queued"
      BY <1>32 DEF Settle, TypeOK, JobStatus, Terminal
    <2>2. /\ jobs'[cur].status = target
          /\ \A k \in Jobs \ {cur} : jobs'[k] = jobs[k]
      BY <1>32, <2>1, TransitionMoves DEF Settle
    <2>3. jobs'[cur].run /\ ~jobs'[cur].error
      BY <1>32, <2>1, TransitionKeeps DEF Settle, TypeOK
    <2>4. pc = "settle" /\ pc' \in {"idle", "callback"} /\ runs' = runs
      BY <1>32 DEF Settle
    <2>5. target \notin {"absent", "queued"}
      BY DEF TypeOK
    <2>6. QED
      BY <2>1, <2>2, <2>3, <2>4, <2>5
  <1>33. CASE SettleWithError
    <2>1. cur \in Jobs /\ target \in JobStatus /\ target \in Successors(jobs[cur].status)
      BY <1>33 DEF SettleWithError, TypeOK, JobStatus, Terminal, CanTransition
    <2>2. /\ jobs'[cur].status = target
          /\ \A k \in Jobs \ {cur} : jobs'[k] = jobs[k]
      BY <1>33, <2>1, TransitionMoves DEF SettleWithError
    <2>3. pc = "settleErr" /\ pc' = "idle" /\ runs' = runs
      BY <1>33 DEF SettleWithError
    <2>4. target \notin {"absent", "queued", "completed"}
      BY <2>3 DEF TypeOK, Decided
    <2>5. QED
      BY <2>1, <2>2, <2>3, <2>4
  <1>34. CASE UNCHANGED vars
    BY <1>34 DEF vars
  <1>35. QED
    BY <1>1, <1>2, <1>3, <1>4, <1>5, <1>6, <1>7, <1>8, <1>9, <1>10,
       <1>11, <1>12, <1>13, <1>14, <1>15, <1>16, <1>17, <1>18, <1>19,
       <1>20, <1>21, <1>22, <1>23, <1>24, <1>25, <1>26, <1>27, <1>28,
       <1>29, <1>30, <1>31, <1>32, <1>33, <1>34
    DEF Next, Dispatcher, Restart, Execute, SettleJob, RpcSucceeds, RpcFails
-----------------------------------------------------------------------------
(* The invariant, and what follows from it. *)

LEMMA InitInv == Init => IInv
  <1> SUFFICES ASSUME Init PROVE IInv
    OBVIOUS
  <1>1. jobs \in [Jobs -> JobRecord] /\ \A j \in Jobs : jobs[j].status = "absent"
    BY DEF Init, StoreInit, NoRecord, JobRecord
  <1>2. TypeOK
    <2>1. 0 \in 0..Reps /\ 0 \in 0..Cases /\ 0 \in 0..MaxStops
      OBVIOUS
    <2>2. runs \in [Jobs -> RunFile]
      BY DEF Init, NoRun, RunStatus
    <2>3. QED
      BY <1>1, <2>1, <2>2 DEF Init, StoreInit, TypeOK, Points, RunStatus
  <1>3. Located /\ Withdrawn
    BY DEF Init, Located, NoClaim, Executing, WithHandle, RpcPoints, Withdrawn
  <1>4. Owned
    BY <1>1 DEF Init, Owned, SingleActiveJob, ActiveJobIsOwned, IsActive,
           Active
  <1>5. Decided
    BY <1>1 DEF Init, NoRun, Decided, FailedJobHasNoResult
  <1>6. Tended
    BY DEF Init, Tended, WithHandle, RpcPoints
  <1>7. Counted
    BY <1>1 DEF Init, NoRun, Counted, Opening
  <1>8. QED
    BY <1>2, <1>3, <1>4, <1>5, <1>6, <1>7 DEF IInv

LEMMA StepInv == IInv /\ [Next]_vars => IInv'
  BY TypeStep, LocatedStep, OwnedStep, WithdrawnStep, DecidedStep, TendedStep,
     CountedStep DEF IInv

(* The inductive invariant holds of every behaviour of the pipeline. *)
THEOREM Invariance == Spec => []IInv
  BY InitInv, StepInv, PTL DEF Spec

(* Every variable keeps its type: no pid outlives its repetition count,    *)
(* and the case counter does not run below zero.                           *)
THEOREM TypeCorrect == Spec => []TypeOK
  <1>1. IInv => TypeOK
    BY DEF IInv
  <1>2. QED
    BY <1>1, Invariance, PTL

(* claim_next is the only way into "running" and never yields a second     *)
(* active job, not across crashes and recoveries either.                   *)
THEOREM OneJobAtATime == Spec => []SingleActiveJob
  <1>1. IInv => SingleActiveJob
    BY DEF IInv, Owned
  <1>2. QED
    BY <1>1, Invariance, PTL

(* recover() leaves no active job behind, so once the platform serves an   *)
(* active job is always the dispatcher's own.                              *)
THEOREM NoOrphanedJob == Spec => []ActiveJobIsOwned
  <1>1. IInv => ActiveJobIsOwned
    BY DEF IInv, Owned
  <1>2. QED
    BY <1>1, Invariance, PTL

(* request_cancel racing with the settlement in run_once: once accepted,   *)
(* a cancellation is never followed by "completed".                        *)
THEOREM CancellationWins == Spec => []CancellationExcludesCompletion
  <1>1. IInv => CancellationExcludesCompletion
    BY DEF IInv, Withdrawn, CancellationExcludesCompletion
  <1>2. QED
    BY <1>1, Invariance, PTL

(* The race of a cancellation with the settlement never labels a good run  *)
(* as failed: the handler of run_once reads the status again.              *)
THEOREM FailureIsReal == Spec => []FailedJobHasNoResult
  <1>1. IInv => FailedJobHasNoResult
    BY DEF IInv, Decided
  <1>2. QED
    BY <1>1, Invariance, PTL

(* The exception handler of run_once never raises itself: whatever it has  *)
(* decided is a transition the job still allows.                           *)
THEOREM HandlerNeverRaises == Spec => []DispatcherSurvives
  <1>1. IInv => DispatcherSurvives
    BY DEF IInv, Owned, Decided, Located, NoClaim, DispatcherSurvives,
           CanTransition, CancelRequested, IsActive, Active, Successors
  <1>2. QED
    BY <1>1, Invariance, PTL

(* A crash, a cancellation and a failed RPC leave no worker to a settled   *)
(* job except the one whose pid had not been written down, or could not be.*)
THEOREM WorkersAreTended == Spec => []NoWorkerLeftBehind
  <1>1. IInv => NoWorkerLeftBehind
    BY DEF IInv, Located, NoClaim, Owned, Tended, NoWorkerLeftBehind, Settled,
           Handle, IsActive, Active, Terminal, TypeOK, WithHandle, RpcPoints
  <1>2. QED
    BY <1>1, Invariance, PTL

(* "completed" is only ever written over a run that holds each case of     *)
(* each repetition and is sealed, and when no worker of it is left.        *)
THEOREM CompletedRunsAreWhole == Spec => []CompletedRunIsWhole
  <1>1. IInv => CompletedRunIsWhole
    <2> SUFFICES ASSUME IInv, NEW j \in Jobs, jobs[j].status = "completed"
                 PROVE  /\ Whole(j) /\ jobs[j].run /\ ~jobs[j].error
                        /\ \A r \in 1..Reps : <<j, r>> \notin workers
      BY DEF CompletedRunIsWhole, Whole, Full
    <2>1. Whole(j) /\ jobs[j].run /\ ~jobs[j].error
      BY DEF IInv, Counted
    <2>2. ASSUME NEW r \in 1..Reps, <<j, r>> \in workers PROVE FALSE
      <3>1. <<j, r>> \notin lost /\ ~IsActive(j)
        BY DEF IInv, Tended, IsActive, Active
      <3>2. pc \in WithHandle /\ j = cur
        BY <2>2, <3>1 DEF IInv, Tended, Handle
      <3>3. QED
        BY <3>1, <3>2 DEF IInv, Owned, WithHandle, RpcPoints
    <2>3. QED
      BY <2>1, <2>2
  <1>2. QED
    BY <1>1, Invariance, PTL

(* Only the run of an active job is ever written. *)
THEOREM SettledRunsAreKept == Spec => SettledRunIsImmutable
  <1>1. ASSUME IInv, [Next]_vars
        PROVE  \A j \in Jobs : Settled(j) => runs'[j] = runs[j]
    <2> USE <1>1
    <2>1. CASE cur \in Jobs /\ pc # "callback" /\ pc \notin NoClaim
      <3>1. ~Settled(cur)
        BY <2>1 DEF IInv, Owned, IsActive, Settled, Active, Terminal
      <3>2. \A j \in Jobs \ {cur} : runs'[j] = runs[j]
        BY DEF IInv, TypeOK, WriteRun, WriteStatus, WriteCase, Handshake,
               Prepare, Ingest, QueryAnswered, QueryFailed, Finish, Seal,
               RecordFailure, Next, Dispatcher, Restart, Execute, SettleJob,
               RpcSucceeds, RpcFails,
        LoopHead, NothingQueued, Resolve, BeginRepetition,
        StartWorker, RpcRaises, NextCase, StopWorker, CheckStatus,
        SettleRefused, Callback, ReadBack, WatcherFires, WorkerDies,
        Shutdown, Crash, Boot, BeginServing, RecordWorker, Create,
        Cancel, Claim, RecoverJob, Settle, SettleWithError, diskVars,
        vars
      <3>3. QED
        BY <3>1, <3>2
    <2>2. CASE pc = "callback" \/ pc \in NoClaim
      <3>1. runs' = runs
        BY <2>2 DEF At, NoClaim, WriteCase, Handshake,
               Prepare, Ingest, QueryAnswered, QueryFailed, Finish, Seal,
               RecordFailure, Next, Dispatcher, Restart, Execute, SettleJob,
               RpcSucceeds, RpcFails,
        LoopHead, NothingQueued, Resolve, BeginRepetition,
        StartWorker, RpcRaises, NextCase, StopWorker, CheckStatus,
        SettleRefused, Callback, ReadBack, WatcherFires, WorkerDies,
        Shutdown, Crash, Boot, BeginServing, RecordWorker, Create,
        Cancel, Claim, RecoverJob, Settle, SettleWithError, diskVars,
        vars
      <3>2. QED
        BY <3>1
    <2>3. QED
      BY <2>1, <2>2 DEF IInv, Located
  <1>2. QED
    BY <1>1, Invariance, PTL DEF Spec, SettledRunIsImmutable

-----------------------------------------------------------------------------
(* The pipeline implements the abstract job: safety part. *)

Status == [j \in Jobs |-> jobs[j].status]

LEMMA StatusMoved ==
    ASSUME NEW j \in Jobs, NEW s, jobs'[j].status = s,
           \A k \in Jobs \ {j} : jobs'[k] = jobs[k]
    PROVE  Status' = [Status EXCEPT ![j] = s]
  BY DEF Status

LEMMA StatusSame ==
    ASSUME \A k \in Jobs : jobs'[k].status = jobs[k].status
    PROVE  Status' = Status
  BY DEF Status

LEMMA StepRefines ==
    ASSUME IInv, [Next]_vars
    PROVE  [Lifecycle!Next]_Status
  <1> USE DEF At, Goto, IInv, Status
  <1>1. CASE jobs' = jobs
    BY <1>1
  <1>2. CASE RecordWorker
    <2>1. cur \in Jobs /\ rep \in 0..Reps
      BY <1>2 DEF RecordWorker, Located, NoClaim, TypeOK
    <2>2. QED
      BY <1>2, <2>1, UpdateWorkerIsLocal, StatusSame DEF RecordWorker,
             TypeOK, storeVars
  <1>3. CASE \E j \in Jobs : Create(j)
    <2>1. PICK j \in Jobs : Create(j)
      BY <1>3
    <2>2. Lifecycle!Submit(j)
      BY <2>1, CreateIsLocal, StatusMoved DEF Create, TypeOK,
             Lifecycle!Submit, Lifecycle!Move
    <2>3. QED
      BY <2>2 DEF Lifecycle!Next
  <1>4. CASE \E j \in Jobs : Cancel(j)
    <2>1. PICK j \in Jobs : Cancel(j)
      BY <1>4
    <2>2. Lifecycle!Withdraw(j) \/ Lifecycle!AskToStop(j) \/ jobs' = jobs
      BY <2>1, RequestCancelIsLocal, StatusMoved
      DEF Cancel, TypeOK, Lifecycle!Withdraw, Lifecycle!AskToStop, Lifecycle!Move
    <2>3. QED
      BY <2>2 DEF Lifecycle!Next
  <1>5. CASE \E j \in Jobs : Claim(j)
    <2>1. PICK j \in Jobs : Claim(j)
      BY <1>5
    <2>2. /\ jobs[j].status = "queued" /\ jobs'[j].status = "running"
          /\ \A k \in Jobs \ {j} : jobs'[k] = jobs[k]
      BY <2>1, TransitionMoves DEF Claim, ClaimNext, Queued, JobStatus, Active
    <2>3. \A k \in Jobs : jobs[k].status \notin Active
      BY <2>1 DEF Claim, Located, NoClaim, Owned, ActiveJobIsOwned, IsActive,
             TypeOK
    <2>4. Lifecycle!Start(j)
      BY <2>2, <2>3, StatusMoved
      DEF Active, Lifecycle!Start, Lifecycle!Move, Lifecycle!ActiveStatus
    <2>5. QED
      BY <2>4 DEF Lifecycle!Next
  <1>6. CASE \E j \in Jobs : RecoverJob(j)
    <2>1. PICK j \in Jobs : RecoverJob(j)
      BY <1>6
    <2>2. /\ jobs[j].status \in Active /\ jobs'[j].status = "interrupted"
          /\ \A k \in Jobs \ {j} : jobs'[k] = jobs[k]
      BY <2>1, TransitionMoves DEF RecoverJob, JobStatus, Terminal
    <2>3. Lifecycle!Abandon(j)
      BY <2>2, StatusMoved
      DEF Active, Lifecycle!Abandon, Lifecycle!Move, Lifecycle!ActiveStatus
    <2>4. QED
      BY <2>3 DEF Lifecycle!Next, Lifecycle!Settle
  <1>7. CASE Settle \/ SettleWithError
    <2>1. /\ cur \in Jobs /\ IsActive(cur)
          /\ target \in {"cancelled", "completed", "failed"}
      BY <1>7 DEF Settle, SettleWithError, Located, NoClaim, TypeOK, Owned
    <2>2. /\ target \in Successors(jobs[cur].status) /\ jobs'[cur].status = target
          /\ \A k \in Jobs \ {cur} : jobs'[k] = jobs[k]
      BY <1>7, <2>1, TransitionMoves DEF Settle, SettleWithError, JobStatus,
             Terminal
    <2>3. PICK j \in Jobs : j = cur
      BY <2>1
    <2>4. Status' = [Status EXCEPT ![j] = target]
      BY <2>2, <2>3, StatusMoved
    <2>5. Lifecycle!Settle(j)
      BY <2>1, <2>2, <2>3, <2>4
      DEF IsActive, Active, Successors, Lifecycle!Settle, Lifecycle!Complete,
          Lifecycle!Abandon, Lifecycle!Move, Lifecycle!ActiveStatus
    <2>6. QED
      BY <2>5 DEF Lifecycle!Next
  <1>8. QED
    BY <1>1, <1>2, <1>3, <1>4, <1>5, <1>6, <1>7
    DEF Next, Dispatcher, Restart, Execute, SettleJob, RpcSucceeds, RpcFails,
        LoopHead, NothingQueued, Resolve, BeginRepetition,
        StartWorker, RpcRaises, Handshake, Prepare, Ingest, NextCase,
        QueryAnswered, QueryFailed, StopWorker, Finish, Seal,
        RecordFailure, CheckStatus, SettleRefused, Callback, ReadBack,
        WatcherFires, WorkerDies, Shutdown, Crash, Boot, BeginServing,
        WriteCase, storeVars, threadVars, vars

(* A job of the pipeline, seen through its status, is the abstract job:    *)
(* every step of any actor is a step of JobLifecycle or leaves it alone.   *)
THEOREM PipelineIsLifecycle == Spec => ImplementsLifecycle
  <1>1. Init => Lifecycle!Init
    BY DEF Init, StoreInit, NoRecord, Lifecycle!Init
  <1>2. IInv /\ [Next]_vars => [Lifecycle!Next]_([j \in Jobs |-> jobs[j].status])
    BY StepRefines DEF Status
  <1>3. QED
    BY <1>1, <1>2, Invariance, PTL DEF Spec, ImplementsLifecycle, Lifecycle!Spec

-----------------------------------------------------------------------------
(* One dispatcher.  JobSupervisor has one by construction; the lifecycle    *)
(* methods of DispatchLoop keep one, for any number of calling threads,     *)
(* dispatcher threads and jobs.                                             *)

USE BoundsAssumption

ThreadPoints == {"unborn", "head", "poll", "busy", "wait", "clear", "dead"}

(* The type invariant in two halves: the event flags and all the rest. *)
Flags == stop \in BOOLEAN /\ wake \in BOOLEAN
Places ==
    /\ ref \in 0..MaxThreads
    /\ loop \in [Threads -> ThreadPoints]
    /\ submitted \in 0..MaxJobs /\ queued \in 0..submitted
    /\ api \in {"idle", "created"}
    /\ call \in [Callers -> {"idle", "join", "joined"}]
    /\ joined \in [Callers -> 0..MaxThreads]

LEMMA TypeParts == ThreadTypeOK <=> Flags /\ Places
  BY DEF ThreadTypeOK, Flags, Places, ThreadPoints

(* One thread moves from a live point, to any point. *)
LEMMA LoopGoesType ==
    ASSUME ThreadTypeOK, NEW t \in Threads, NEW from \in ThreadPoints, NEW to \in ThreadPoints,
           LoopGoes(t, from, to)
    PROVE  loop' \in [Threads -> ThreadPoints]
  BY DEF LoopGoes, ThreadTypeOK, ThreadPoints

LEMMA FlagsStep == Flags /\ [ThreadNext]_lifecycleVars => Flags'
  BY DEF Flags, ThreadNext, Start, AskToStop, Join, FinishStop, Submit, Notify, Dispatch,
         TimeOut, LoopTop, ClaimJob, FindNothing, JobDone, Woken, ClearWake,
         loopVars, lifecycleVars

LEMMA PlacesStep == ThreadTypeOK /\ [ThreadNext]_lifecycleVars => Places'
  <1> SUFFICES ASSUME ThreadTypeOK, Places, [ThreadNext]_lifecycleVars PROVE Places'
    BY TypeParts
  <1>1. CASE \E c \in Callers : Start(c) \/ AskToStop(c) \/ Join(c) \/ FinishStop(c)
    <2>1. PICK c \in Callers : Start(c) \/ AskToStop(c) \/ Join(c) \/ FinishStop(c)
      BY <1>1
    <2>2. CASE Start(c)
      BY <2>2 DEF Start, Places, ThreadPoints, Threads
    <2>3. CASE AskToStop(c)
      BY <2>3 DEF AskToStop, Places
    <2>4. CASE Join(c)
      BY <2>4 DEF Join, Places
    <2>5. CASE FinishStop(c)
      BY <2>5 DEF FinishStop, Places
    <2>6. QED
      BY <2>1, <2>2, <2>3, <2>4, <2>5
  <1>2. CASE Submit \/ Notify
    BY <1>2 DEF Submit, Notify, Places
  <1>3. CASE \E t \in Threads : Dispatch(t) \/ TimeOut(t)
    <2>1. PICK t \in Threads : Dispatch(t) \/ TimeOut(t)
      BY <1>3
    <2>2. loop' \in [Threads -> ThreadPoints]
      BY <2>1, LoopGoesType
      DEF Dispatch, TimeOut, LoopTop, ClaimJob, FindNothing, JobDone, Woken,
          ClearWake, ThreadPoints
    <2>3. /\ UNCHANGED <<ref, submitted, api, call, joined>>
          /\ queued' = queued \/ (queued > 0 /\ queued' = queued - 1)
      BY <2>1 DEF Dispatch, TimeOut, LoopTop, ClaimJob, FindNothing, JobDone,
                  Woken, ClearWake, loopVars
    <2>4. QED
      BY <2>2, <2>3 DEF Places
  <1>4. CASE UNCHANGED lifecycleVars
    BY <1>4 DEF lifecycleVars, Places
  <1>5. QED
    BY <1>1, <1>2, <1>3, <1>4 DEF ThreadNext

(* The reference follows the live thread through every call: start() finds *)
(* no reference only when nobody lives, and stop() drops the reference of  *)
(* a dead thread only.                                                     *)
LEMMA ReferenceStep ==
    ThreadTypeOK /\ LiveThreadIsReferenced /\ [ThreadNext]_lifecycleVars => LiveThreadIsReferenced'
  <1> SUFFICES ASSUME ThreadTypeOK, LiveThreadIsReferenced, [ThreadNext]_lifecycleVars
               PROVE  LiveThreadIsReferenced'
    OBVIOUS
  <1> USE DEF LiveThreadIsReferenced, Alive
  <1>1. CASE \E c \in Callers : Start(c) \/ AskToStop(c) \/ Join(c) \/ FinishStop(c)
    <2>1. PICK c \in Callers : Start(c) \/ AskToStop(c) \/ Join(c) \/ FinishStop(c)
      BY <1>1
    <2>2. CASE Start(c)
      <3>1. PICK t \in Threads : /\ loop[t] = "unborn" /\ ref' = t
                                 /\ loop' = [loop EXCEPT ![t] = "head"]
        BY <2>2 DEF Start
      <3>2. \A u \in Threads : ~Alive(u)
        BY <2>2 DEF Start, Threads
      <3>3. QED
        BY <3>1, <3>2 DEF ThreadTypeOK
    <2>3. CASE AskToStop(c) \/ Join(c)
      BY <2>3 DEF AskToStop, Join
    <2>4. CASE FinishStop(c)
      BY <2>4 DEF FinishStop
    <2>5. QED
      BY <2>1, <2>2, <2>3, <2>4
  <1>2. CASE Submit \/ Notify
    BY <1>2 DEF Submit, Notify
  <1>3. CASE \E t \in Threads : Dispatch(t) \/ TimeOut(t)
    <2>1. PICK t \in Threads : Dispatch(t) \/ TimeOut(t)
      BY <1>3
    <2>2. Alive(t) /\ ref' = ref /\ \A u \in Threads \ {t} : loop'[u] = loop[u]
      BY <2>1 DEF Dispatch, TimeOut, LoopTop, ClaimJob, FindNothing, JobDone,
                  Woken, ClearWake, LoopGoes, loopVars, ThreadTypeOK
    <2>3. QED
      BY <2>2
  <1>4. CASE UNCHANGED lifecycleVars
    BY <1>4 DEF lifecycleVars
  <1>5. QED
    BY <1>1, <1>2, <1>3, <1>4 DEF ThreadNext

(* Every variable keeps its type; in particular no job is claimed that is  *)
(* not there (run_once finds none).                                        *)
THEOREM ThreadTypeCorrect == ThreadSpec => []ThreadTypeOK
  <1>1. ThreadInit => Flags
    BY DEF ThreadInit, Flags
  <1>2. ThreadInit => Places
    BY DEF ThreadInit, Places, ThreadPoints
  <1>3. ThreadTypeOK /\ [ThreadNext]_lifecycleVars => ThreadTypeOK'
    BY TypeParts, FlagsStep, PlacesStep, PTL
  <1>4. QED
    BY <1>1, <1>2, <1>3, TypeParts, PTL DEF ThreadSpec

(* stop() never takes the reference of a live dispatcher away, however     *)
(* many callers start and stop the supervisor and whatever times out.      *)
THEOREM ReferenceIsKept == ThreadSpec => []LiveThreadIsReferenced
  <1>1. ThreadInit => LiveThreadIsReferenced
    BY DEF ThreadInit, LiveThreadIsReferenced, Alive
  <1>2. QED
    BY <1>1, ThreadTypeCorrect, ReferenceStep, PTL DEF ThreadSpec

(* Hence there is a single dispatcher thread: the assumption under which   *)
(* JobSupervisor models one.                                               *)
THEOREM OneDispatcher == ThreadSpec => []SingleDispatcher
  <1>1. LiveThreadIsReferenced => SingleDispatcher
    BY DEF LiveThreadIsReferenced, SingleDispatcher
  <1>2. QED
    BY <1>1, ReferenceIsKept, PTL
=============================================================================
