---------------------------- MODULE DispatchLoop ----------------------------
(***************************************************************************)
(* The thread behind JobSupervisor: start(), stop() and notify() called by *)
(* any thread, the lifecycle lock, the _stop and _wake events, and the     *)
(* _loop of each dispatcher thread ever created.  JobSupervisor takes      *)
(* "one dispatcher" as given; this module shows why it is one.             *)
(*                                                                         *)
(* The queue is abstracted to the number of queued jobs, and what happens  *)
(* to a claimed job to the point "busy".                                   *)
(***************************************************************************)
EXTENDS Naturals

CONSTANTS Callers,      \* threads that call start() and stop()
          MaxThreads,   \* bound: dispatcher threads created
          MaxJobs       \* bound: jobs submitted

ASSUME BoundsAssumption == MaxThreads \in Nat /\ MaxJobs \in Nat

VARIABLES
    ref,         \* the _thread attribute: a thread, or 0 for None
    loop,        \* loop[t]: where dispatcher thread t stands
    stop, wake,  \* the two threading.Event flags
    queued,      \* jobs created and not claimed
    submitted,   \* jobs created
    api,         \* the submitting handler: created the job, not notified yet
    call,        \* call[c]: which step of stop() caller c is in
    joined       \* joined[c]: the thread that caller's stop() waits for

lifecycleVars == <<ref, loop, stop, wake, queued, submitted, api, call, joined>>
loopVars == <<ref, stop, queued, submitted, api, call, joined>>

Threads == 1..MaxThreads
Alive(t) == loop[t] \notin {"unborn", "dead"}

ThreadInit ==
    /\ ref = 0 /\ loop = [t \in Threads |-> "unborn"]
    /\ stop = FALSE /\ wake = FALSE
    /\ queued = 0 /\ submitted = 0 /\ api = "idle"
    /\ call = [c \in Callers |-> "idle"]
    /\ joined = [c \in Callers |-> 0]

(* start(), whole under the lifecycle lock; it raises unless _thread is    *)
(* None.                                                                   *)
Start(c) ==
    /\ call[c] = "idle" /\ ref = 0
    /\ \E t \in Threads :
         /\ loop[t] = "unborn" /\ \A u \in 1..(t - 1) : loop[u] # "unborn"
         /\ ref' = t
         /\ loop' = [loop EXCEPT ![t] = "head"]
    /\ stop' = FALSE /\ wake' = FALSE
    /\ UNCHANGED <<queued, submitted, api, call, joined>>

(* stop(), first critical section: raise both flags and release the lock. *)
AskToStop(c) ==
    /\ call[c] = "idle" /\ ref # 0
    /\ stop' = TRUE /\ wake' = TRUE
    /\ joined' = [joined EXCEPT ![c] = ref]
    /\ call' = [call EXCEPT ![c] = "join"]
    /\ UNCHANGED <<ref, loop, queued, submitted, api>>

(* join() returns because the thread has ended, or after the timeout. *)
Join(c) ==
    /\ call[c] = "join"
    /\ call' = [call EXCEPT ![c] = "joined"]
    /\ UNCHANGED <<ref, loop, stop, wake, queued, submitted, api, joined>>

(* Mutated form: the reference is dropped after a timeout too. *)
FinishStopAfterTimeout(c) ==
    /\ call[c] = "joined"
    /\ call' = [call EXCEPT ![c] = "idle"]
    /\ ref' = IF ref = joined[c] THEN 0 ELSE ref
    /\ UNCHANGED <<loop, stop, wake, queued, submitted, api, joined>>

(* stop(), second critical section: raise if the thread is still alive,    *)
(* else forget it, unless another thread has been started meanwhile.       *)
FinishStop(c) ==
    /\ call[c] = "joined"
    /\ call' = [call EXCEPT ![c] = "idle"]
    /\ ref' = IF ~Alive(joined[c]) /\ ref = joined[c] THEN 0 ELSE ref
    /\ UNCHANGED <<loop, stop, wake, queued, submitted, api, joined>>

(* queue_run: create the job record, then notify() sets the wake flag. *)
Submit ==
    /\ api = "idle" /\ submitted < MaxJobs
    /\ submitted' = submitted + 1 /\ queued' = queued + 1
    /\ api' = "created"
    /\ UNCHANGED <<ref, loop, stop, wake, call, joined>>

Notify ==
    /\ api = "created"
    /\ wake' = TRUE /\ api' = "idle"
    /\ UNCHANGED <<ref, loop, stop, queued, submitted, call, joined>>

LoopGoes(t, from, to) == loop[t] = from /\ loop' = [loop EXCEPT ![t] = to]

(* _loop: leave when asked to stop, else run_once. *)
LoopTop(t) ==
    /\ LoopGoes(t, "head", IF stop THEN "dead" ELSE "poll")
    /\ UNCHANGED <<loopVars, wake>>

(* run_once claims a job, or finds none. *)
ClaimJob(t) ==
    /\ LoopGoes(t, "poll", "busy") /\ queued > 0
    /\ queued' = queued - 1
    /\ UNCHANGED <<ref, stop, wake, submitted, api, call, joined>>

FindNothing(t) ==
    /\ LoopGoes(t, "poll", "wait") /\ queued = 0
    /\ UNCHANGED <<loopVars, wake>>

(* Mutated form: the loop waits after a job instead of polling again. *)
JobDoneWaits(t) == LoopGoes(t, "busy", "wait") /\ UNCHANGED <<loopVars, wake>>

JobDone(t) == LoopGoes(t, "busy", "head") /\ UNCHANGED <<loopVars, wake>>

(* _wake.wait(1) returns when the flag is set, or after one second. *)
Woken(t)   == wake  /\ LoopGoes(t, "wait", "clear") /\ UNCHANGED <<loopVars, wake>>
TimeOut(t) == ~wake /\ LoopGoes(t, "wait", "clear") /\ UNCHANGED <<loopVars, wake>>

(* _wake.clear(), then back to the head of the loop. *)
ClearWake(t) ==
    /\ LoopGoes(t, "clear", "head")
    /\ wake' = FALSE
    /\ UNCHANGED loopVars

Dispatch(t) == \/ LoopTop(t) \/ ClaimJob(t) \/ FindNothing(t) \/ JobDone(t)
               \/ Woken(t) \/ ClearWake(t)

ThreadNext ==
    \/ \E c \in Callers : Start(c) \/ AskToStop(c) \/ Join(c) \/ FinishStop(c)
    \/ Submit \/ Notify
    \/ \E t \in Threads : Dispatch(t) \/ TimeOut(t)

ThreadSpec == ThreadInit /\ [][ThreadNext]_lifecycleVars

(* Threads are scheduled fairly and a submitting handler runs to its end.  *)
(* The one-second poll is left out on purpose: nothing may depend on it.   *)
FairThreadSpec ==
    /\ ThreadSpec
    /\ WF_lifecycleVars(Notify)
    /\ \A t \in Threads : WF_lifecycleVars(Dispatch(t))

-----------------------------------------------------------------------------
ThreadTypeOK ==
    /\ ref \in 0..MaxThreads
    /\ loop \in [Threads -> {"unborn", "head", "poll", "busy", "wait", "clear", "dead"}]
    /\ stop \in BOOLEAN /\ wake \in BOOLEAN
    /\ submitted \in 0..MaxJobs /\ queued \in 0..submitted
    /\ api \in {"idle", "created"}
    /\ call \in [Callers -> {"idle", "join", "joined"}]
    /\ joined \in [Callers -> 0..MaxThreads]

(* At most one dispatcher thread lives, so no two threads claim jobs: not  *)
(* after a stop() that timed out, not when two stop() calls and a start()  *)
(* overlap (the comment in stop() about the single-writer dispatcher).     *)
SingleDispatcher == \A t, u \in Threads : Alive(t) /\ Alive(u) => t = u

(* A stop() that is waiting concerns the current thread or a dead one, so  *)
(* it never takes a live dispatcher's reference away from start().         *)
LiveThreadIsReferenced == \A t \in Threads : Alive(t) => ref = t

(* No wake-up is lost: a submitted job is claimed, unless a stop comes,    *)
(* without the help of the one-second timeout.                             *)
QueuedJobIsClaimed ==
    \A t \in Threads : (queued > 0 /\ Alive(t)) ~> (queued = 0 \/ stop)

=============================================================================
