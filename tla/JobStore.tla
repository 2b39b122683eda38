------------------------------ MODULE JobStore ------------------------------
(***************************************************************************)
(* The persisted evaluation jobs of rag_eval/jobs.py.  A JobRecord is one  *)
(* JSON file replaced atomically, so the store survives a crash of the     *)
(* platform process; every read-modify-write below runs under the store's  *)
(* reentrant lock and is therefore one step.                               *)
(*                                                                         *)
(* Abstracted: the experiment, the timestamps other than created_at (kept  *)
(* as a rank, the wall clock being assumed not to step backwards between   *)
(* two creations) and the wording of errors (error is TRUE when the record *)
(* carries one).  A worker pid is named by the repetition it was started   *)
(* for; 0 stands for None.                                                 *)
(***************************************************************************)
EXTENDS Naturals

CONSTANTS Jobs,      \* job identifiers
          Reps       \* repetitions of an experiment, at least one

ASSUME RepsAssumption == Reps \in Nat \ {0}

VARIABLES jobs,      \* jobs[j]: the persisted record of job j
          clock      \* rank of the most recent creation

storeVars == <<jobs, clock>>

Active   == {"running", "cancelling"}
Terminal == {"cancelled", "completed", "failed", "interrupted"}
JobStatus == {"queued"} \cup Active \cup Terminal

JobRecord == [status  : JobStatus \cup {"absent"},
              created : Nat,
              run     : BOOLEAN,     \* run_id is not None
              pid     : 0..Reps,     \* worker_pid
              error   : BOOLEAN]

NoRecord == [status |-> "absent", created |-> 0,
             run |-> FALSE, pid |-> 0, error |-> FALSE]

StoreInit == /\ jobs = [j \in Jobs |-> NoRecord]
             /\ clock = 0

(* Mutated form: the table lets a cancelling job still complete. *)
SuccessorsLenient(s) ==
    CASE s = "queued"     -> {"running", "cancelled"}
      [] s = "running"    -> {"cancelling", "completed", "failed", "interrupted"}
      [] s = "cancelling" -> {"cancelled", "completed", "failed", "interrupted"}
      [] OTHER            -> {}

(* The _TRANSITIONS table. *)
Successors(s) ==
    CASE s = "queued"     -> {"running", "cancelled"}
      [] s = "running"    -> {"cancelling", "completed", "failed", "interrupted"}
      [] s = "cancelling" -> {"cancelled", "failed", "interrupted"}
      [] OTHER            -> {}

CanTransition(j, s) == s \in Successors(jobs[j].status)

(* transition() keeps run_id when none is passed and overwrites the error. *)
Transition(j, s, withRun, withError) ==
    /\ CanTransition(j, s)
    /\ jobs' = [jobs EXCEPT ![j].status = s,
                            ![j].run    = @ \/ withRun,
                            ![j].error  = withError]
    /\ UNCHANGED clock

CreateJob(j) ==
    /\ jobs[j].status = "absent"
    /\ clock' = clock + 1
    /\ jobs' = [jobs EXCEPT ![j] = [NoRecord EXCEPT !.status  = "queued",
                                                    !.created = clock + 1]]

Queued(j) == jobs[j].status = "queued"

(* claim_next: the oldest queued job becomes running. *)
ClaimNext(j) ==
    /\ Queued(j)
    /\ \A k \in Jobs : Queued(k) => jobs[j].created <= jobs[k].created
    /\ Transition(j, "running", FALSE, FALSE)

(* Mutated form: a second request settles the job without its dispatcher. *)
RequestCancelForced(j) ==
    \/ jobs[j].status \in {"queued", "cancelling"} /\ Transition(j, "cancelled", FALSE, FALSE)
    \/ jobs[j].status = "running" /\ Transition(j, "cancelling", FALSE, FALSE)
    \/ jobs[j].status \in Terminal /\ UNCHANGED storeVars

(* request_cancel: a queued job is cancelled at once, a running one is     *)
(* asked to stop, any other is returned as it is.                          *)
RequestCancel(j) ==
    \/ jobs[j].status = "queued"  /\ Transition(j, "cancelled", FALSE, FALSE)
    \/ jobs[j].status = "running" /\ Transition(j, "cancelling", FALSE, FALSE)
    \/ /\ jobs[j].status \in {"cancelling"} \cup Terminal
       /\ UNCHANGED storeVars

(* update_worker: legal for an active job only. *)
UpdateWorker(j, r) ==
    /\ jobs[j].status \in Active
    /\ jobs' = [jobs EXCEPT ![j].run = TRUE, ![j].pid = r]
    /\ UNCHANGED clock
=============================================================================
