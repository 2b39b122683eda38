---------------------------- MODULE GenerationJob ----------------------------
(***************************************************************************)
(* The durable batch-generation jobs of one authoring dataset              *)
(* (rag_eval/authoring/workflow.py) and everybody who writes their record: *)
(*   - the API handlers, which run one at a time on the event loop;        *)
(*   - the background tasks that create and retry start, each a thread     *)
(*     running run_generation_job;                                         *)
(*   - after a restart, the task that resumes the jobs found queued or     *)
(*     running, one after the other (runner 0).                            *)
(*                                                                         *)
(* A record is a file replaced atomically, but no lock spans the read and  *)
(* the write of anybody, so the model cuts each between the two.           *)
(* Abstracted: the candidate a model call produces, times, error texts and *)
(* the deletion of a dataset while its job runs.                           *)
(***************************************************************************)
EXTENDS Naturals, FiniteSets

CONSTANTS Jobs,          \* generation jobs
          Items,         \* targets of a job, in order
          MaxRunners,    \* bound: background tasks at one time
          MaxCancels, MaxRetries, MaxCrashes,   \* bounds
          EarlyRequests, \* TRUE: requests come before startup has listed the jobs
          NoJob          \* "no job"

ASSUME ItemsAssumption == Items \in Nat \ {0}
ASSUME GenerationBounds ==
    /\ {MaxRunners, MaxCancels, MaxRetries, MaxCrashes} \subseteq Nat
    /\ EarlyRequests \in BOOLEAN /\ NoJob \notin Jobs

Runners == 0..MaxRunners

VARIABLES
    up,       \* the platform process runs
    file,     \* file[j]: the persisted record of job j
    runner,   \* runner[r]: an execution of run_generation_job
    handler,  \* the API handler between its read and its write
    resume,   \* the startup task: "list", then the jobs it has still to run
    asked,    \* history: jobs whose cancellation was ever accepted
    used      \* used requests and crashes

vars == <<up, file, runner, handler, resume, asked, used>>

Active   == {"queued", "running"}
Terminal == {"completed", "partial", "failed", "cancelled"}
ItemState == {"pending", "running", "succeeded", "failed", "cancelled"}

AllItems(s) == [i \in 1..Items |-> s]
NoRecord == [state |-> "absent", cancel |-> FALSE, item |-> AllItems("pending")]
Ended    == [pc |-> "ended", job |-> NoJob, mem |-> NoRecord, at |-> 0]
NoCall   == [op |-> "none", job |-> NoJob, mem |-> NoRecord]

Init ==
    /\ up = TRUE
    /\ file = [j \in Jobs |-> NoRecord]
    /\ runner = [r \in Runners |-> Ended]
    /\ handler = NoCall
    /\ resume = [list |-> FALSE, todo |-> {}]
    /\ asked = {}
    /\ used = [cancels |-> 0, retries |-> 0, crashes |-> 0]

Exists(j) == file[j].state # "absent"
Live(r)   == runner[r].pc # "ended"
With(rec, from, to) ==
    [rec EXCEPT !.item = [i \in 1..Items |-> IF @[i] = from THEN to ELSE @[i]]]

(* Mutated form: the job is cancelled, its pending items are forgotten. *)
CancelStateOnly(rec) == [rec EXCEPT !.state = "cancelled"]

(* _cancel_remaining_generation_items: only pending items are cancelled. *)
CancelRemaining(rec) == [With(rec, "pending", "cancelled") EXCEPT !.state = "cancelled"]

(* The verdict of _complete_generation_job. *)
Verdict(rec) ==
    LET had(s) == \E i \in 1..Items : rec.item[i] = s IN
    IF \A i \in 1..Items : rec.item[i] = "succeeded" THEN "completed"
    ELSE IF had("succeeded") /\ had("failed") THEN "partial" ELSE "failed"

-----------------------------------------------------------------------------
(* The API handlers. *)

Free == {r \in Runners \ {0} : ~Live(r)}

(* A background task is added to the response and starts after it. *)
StartTask(j) ==
    \E r \in Free : /\ \A s \in Free : r <= s
                    /\ runner' = [runner EXCEPT ![r] = [Ended EXCEPT !.pc = "start", !.job = j]]

Serving == up /\ handler.op = "none" /\ (EarlyRequests \/ ~resume.list)

(* create refuses while any job of the dataset is queued or running. *)
Create(j) ==
    /\ Serving /\ ~Exists(j)
    /\ \A k \in Jobs : file[k].state \notin Active
    /\ file' = [file EXCEPT ![j] = [NoRecord EXCEPT !.state = "queued"]]
    /\ StartTask(j)
    /\ UNCHANGED <<up, handler, resume, asked, used>>

(* cancel and retry read the record and decide ...                         *)
CancelReads(j) ==
    /\ Serving /\ Exists(j) /\ used.cancels < MaxCancels
    /\ used' = [used EXCEPT !.cancels = @ + 1]
    /\ file[j].state \in Active
    /\ handler' = [op |-> "cancel", job |-> j, mem |-> file[j]]
    /\ UNCHANGED <<up, file, runner, resume, asked>>

(* Mutated form: retry does not refuse a job that is queued or running. *)
RetryReadsActive(j) ==
    /\ Serving /\ used.retries < MaxRetries
    /\ Exists(j)
    /\ \E i \in 1..Items : file[j].item[i] \in {"failed", "cancelled"}
    /\ used' = [used EXCEPT !.retries = @ + 1]
    /\ handler' = [op |-> "retry", job |-> j, mem |-> file[j]]
    /\ UNCHANGED <<up, file, runner, resume, asked>>

RetryReads(j) ==
    /\ Serving /\ used.retries < MaxRetries
    /\ file[j].state \in Terminal
    /\ \E i \in 1..Items : file[j].item[i] \in {"failed", "cancelled"}
    /\ used' = [used EXCEPT !.retries = @ + 1]
    /\ handler' = [op |-> "retry", job |-> j, mem |-> file[j]]
    /\ UNCHANGED <<up, file, runner, resume, asked>>

(* ... and save what they have read, modified.  A queued job is cancelled  *)
(* at once, a running one is marked.                                       *)
CancelSaves ==
    /\ handler.op = "cancel"
    /\ LET rec == [handler.mem EXCEPT !.cancel = TRUE] IN
         file' = [file EXCEPT ![handler.job] =
                    IF rec.state = "queued" THEN CancelRemaining(rec) ELSE rec]
    /\ asked' = asked \cup {handler.job}
    /\ handler' = NoCall
    /\ UNCHANGED <<up, runner, resume, used>>

(* Mutated form: every item of the job is generated again. *)
RetrySavesEverything ==
    /\ handler.op = "retry"
    /\ file' = [file EXCEPT ![handler.job] =
                  [state |-> "queued", cancel |-> FALSE, item |-> AllItems("pending")]]
    /\ StartTask(handler.job)
    /\ handler' = NoCall
    /\ UNCHANGED <<up, resume, asked, used>>

(* Some of the failed and cancelled items, by default all of them, become  *)
(* pending again.                                                          *)
RetrySaves ==
    /\ handler.op = "retry"
    /\ LET old == handler.mem.item IN
       \E chosen \in SUBSET {i \in 1..Items : old[i] \in {"failed", "cancelled"}} :
         /\ chosen # {}
         /\ file' = [file EXCEPT ![handler.job] =
                [state |-> "queued", cancel |-> FALSE,
                 item |-> [i \in 1..Items |-> IF i \in chosen THEN "pending" ELSE old[i]]]]
    /\ StartTask(handler.job)
    /\ handler' = NoCall
    /\ UNCHANGED <<up, resume, asked, used>>

-----------------------------------------------------------------------------
(* run_generation_job, as executed by runner r.                            *)

Job(r) == runner[r].job
Mem(r) == runner[r].mem
Now(r) == file[Job(r)]
Runs(r, p) == runner[r].pc = p
Become(r, p, rec, i) ==
    runner' = [runner EXCEPT ![r] = [@ EXCEPT !.pc = p, !.mem = rec, !.at = i]]
End(r) == runner' = [runner EXCEPT ![r] = Ended]
Save(r, rec) == file' = [file EXCEPT ![Job(r)] = rec]
Rest == <<up, handler, resume, asked, used>>

(* The first read.  A job that has ended is left alone. *)
Read(r) ==
    /\ Runs(r, "start")
    /\ \/ Now(r).state \in Terminal /\ End(r)
       \/ Now(r).state \in Active /\ Now(r).cancel /\ Become(r, "cancel", Now(r), 0)
       \/ /\ Now(r).state \in Active /\ ~Now(r).cancel
          /\ Become(r, IF \E i \in 1..Items : Now(r).item[i] = "running"
                       THEN "reset" ELSE "open", Now(r), 0)
    /\ UNCHANGED <<file, Rest>>

(* An item found running was cut off by a restart: make it pending. *)
Reset(r) ==
    /\ Runs(r, "reset")
    /\ LET rec == [With(Mem(r), "running", "pending") EXCEPT !.state = "queued"] IN
         Save(r, rec) /\ Become(r, "open", rec, 0)
    /\ UNCHANGED Rest

Open(r) ==
    /\ Runs(r, "open")
    /\ LET rec == [Mem(r) EXCEPT !.state = "running"] IN
         Save(r, rec) /\ Become(r, "look", rec, 1)
    /\ UNCHANGED Rest

(* Head of the loop: read again, look for a cancellation, skip what is not *)
(* pending.  Past the last item, _complete looks for one too.              *)
Look(r) ==
    /\ Runs(r, "look")
    /\ LET i == runner[r].at IN
       \/ Now(r).cancel /\ Become(r, "cancel", Now(r), i)
       \/ ~Now(r).cancel /\ i > Items /\ Become(r, "finish", Now(r), i)
       \/ /\ ~Now(r).cancel /\ i <= Items
          /\ IF Now(r).item[i] = "pending" THEN Become(r, "mark", Now(r), i)
                                           ELSE Become(r, "look", Now(r), i + 1)
    /\ UNCHANGED <<file, Rest>>

(* Mark the item running; from here on the runner holds this record. *)
Mark(r) ==
    /\ Runs(r, "mark")
    /\ LET rec == [Mem(r) EXCEPT !.item[runner[r].at] = "running"] IN
         Save(r, rec) /\ Become(r, "call", rec, runner[r].at)
    /\ UNCHANGED Rest

(* The model call returns or raises; the record held since Mark is saved   *)
(* with the outcome.                                                       *)
CallEnds(r) ==
    /\ Runs(r, "call")
    /\ \E outcome \in {"succeeded", "failed"} :
         Save(r, [Mem(r) EXCEPT !.item[runner[r].at] = outcome])
    /\ Become(r, "look", Mem(r), runner[r].at + 1)
    /\ UNCHANGED Rest

Finish(r) ==
    /\ Runs(r, "finish")
    /\ Save(r, [Mem(r) EXCEPT !.state = Verdict(Mem(r))])
    /\ End(r)
    /\ UNCHANGED Rest

Cancelled(r) ==
    /\ Runs(r, "cancel")
    /\ Save(r, CancelRemaining(Mem(r)))
    /\ End(r)
    /\ UNCHANGED Rest

-----------------------------------------------------------------------------
(* Crash and restart: requests and threads are lost, the files remain.     *)

Crash ==
    /\ up /\ used.crashes < MaxCrashes
    /\ up' = FALSE /\ used' = [used EXCEPT !.crashes = @ + 1]
    /\ runner' = [r \in Runners |-> Ended]
    /\ handler' = NoCall
    /\ resume' = [list |-> TRUE, todo |-> {}]
    /\ UNCHANGED <<file, asked>>

Boot == ~up /\ up' = TRUE /\ UNCHANGED <<file, runner, handler, resume, asked, used>>

(* Mutated form: only running jobs are resumed. *)
ListRunning ==
    /\ up /\ resume.list
    /\ resume' = [list |-> FALSE, todo |-> {j \in Jobs : file[j].state = "running"}]
    /\ UNCHANGED <<up, file, runner, handler, asked, used>>

(* The startup task lists the jobs, then runs them one by one. *)
List ==
    /\ up /\ resume.list
    /\ resume' = [list |-> FALSE, todo |-> {j \in Jobs : file[j].state \in Active}]
    /\ UNCHANGED <<up, file, runner, handler, asked, used>>

ResumeNext(j) ==
    /\ up /\ j \in resume.todo /\ ~Live(0)
    /\ resume' = [resume EXCEPT !.todo = @ \ {j}]
    /\ runner' = [runner EXCEPT ![0] = [Ended EXCEPT !.pc = "start", !.job = j]]
    /\ UNCHANGED <<up, file, handler, asked, used>>

Run(r) == \/ Read(r) \/ Reset(r) \/ Open(r) \/ Look(r) \/ Mark(r) \/ CallEnds(r)
          \/ Finish(r) \/ Cancelled(r)

Startup == Boot \/ List \/ \E j \in Jobs : ResumeNext(j)

Next == \/ \E j \in Jobs : Create(j) \/ CancelReads(j) \/ RetryReads(j)
        \/ CancelSaves \/ RetrySaves
        \/ \E r \in Runners : Run(r)
        \/ Startup \/ Crash

Spec == Init /\ [][Next]_vars

-----------------------------------------------------------------------------
Record == [state  : {"absent"} \cup Active \cup Terminal,
           cancel : BOOLEAN,
           item   : [1..Items -> ItemState]]
Points == {"ended", "start", "reset", "open", "look", "mark", "call", "finish", "cancel"}
Execution == [pc : Points, job : Jobs \cup {NoJob}, mem : Record, at : 0..(Items + 1)]

TypeOK ==
    /\ up \in BOOLEAN /\ asked \subseteq Jobs
    /\ file \in [Jobs -> Record]
    /\ runner \in [Runners -> Execution]
    /\ handler \in [op : {"none", "cancel", "retry"}, job : Jobs \cup {NoJob}, mem : Record]
    /\ resume \in [list : BOOLEAN, todo : SUBSET Jobs]
    /\ used \in [cancels : 0..MaxCancels, retries : 0..MaxRetries, crashes : 0..MaxCrashes]

(* Whoever wrote last, a settled record is coherent: nothing is left       *)
(* pending behind it, where only a retry would find it, and a completed    *)
(* job has a result for every target.  A record mixed from two writers     *)
(* would break this.  (A job both cancelled and retried may have two       *)
(* runners, and then is not.)                                              *)
SettledRecordIsCoherent ==
    \A j \in Jobs :
        LET had(s) == \E i \in 1..Items : file[j].item[i] = s IN
        j \notin asked \/ used.retries = 0 =>
            /\ file[j].state \in Terminal  => ~had("pending")
            /\ file[j].state = "completed" => ~had("failed") /\ ~had("running")
            /\ file[j].state = "partial"   => had("succeeded") /\ had("failed")

(* A runner never works on a job somebody else works on: two of them would *)
(* call the model twice for a target and overwrite each other's outcomes.  *)
(* (A cancellation followed by a retry can break this: see asked.)         *)
OneRunnerPerJob ==
    \A r, s \in Runners :
        Live(r) /\ Live(s) /\ Job(r) = Job(s) /\ Job(r) \notin asked => r = s

(* "Requeue failed/cancelled targets without regenerating successful work" *)
(* (retry), and a restart does not regenerate it either.                   *)
SucceededIsKept ==
    [][\A j \in Jobs \ asked', i \in 1..Items :
         file[j].item[i] = "succeeded" => file'[j].item[i] = "succeeded"]_vars

(* workflow.py:1133: "Cancellation takes effect between model calls": once *)
(* it is accepted, the check between two calls lets no item through.       *)
CancelStopsTheNextCall ==
    [][\A r \in Runners : Runs(r, "look") /\ runner'[r].pc = "mark"
                            => Job(r) \notin asked]_vars

(* An active job always has somebody who will end it, across crashes and   *)
(* restarts, or the dataset would refuse new jobs for ever: a live runner, *)
(* the startup task, or a startup that has not listed the jobs yet.        *)
ActiveJobHasRunner ==
    \A j \in Jobs \ asked : file[j].state \in Active =>
        \/ ~up \/ resume.list \/ j \in resume.todo
        \/ \E r \in Runners : Live(r) /\ Job(r) = j
=============================================================================
