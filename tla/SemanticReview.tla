--------------------------- MODULE SemanticReview ---------------------------
(***************************************************************************)
(* The review ledger of one completed run and everybody who appends to it  *)
(* (rag_eval/reviews.py and the review routes of rag_eval/api.py):         *)
(*   - human reviewers, whose POST appends a decision;                     *)
(*   - askers, whose POST runs the second-pass model on one case;          *)
(*   - the background batch started when the run completed (schedule) or   *)
(*     when the platform restarts (resume_pending), in a thread of its own.*)
(* The answer-equivalence and the answer-support axes have a ledger and a  *)
(* coordinator each, of the same shape: the model is of either.            *)
(*                                                                         *)
(* CaseReviewStore.append reads the record, checks it and replaces the     *)
(* file, without a lock, so another append may fall between.  Abstracted:  *)
(* verdicts (a decision is the actor that made it), the counters of the    *)
(* batch other than the processed cases and the errors.                    *)
(***************************************************************************)
EXTENDS Naturals, Sequences, FiniteSets

CONSTANTS Cases,        \* cases the deterministic rule leaves to review
          Humans,       \* review POSTs of human reviewers, one decision each
          Askers,       \* semantic-review POSTs, one case each
          MaxThreads,   \* bound: batch threads of one platform process
          MaxCrashes,   \* bound: crashes of the platform process
          EarlyCallback \* TRUE: a run may complete while startup resumes batches

ASSUME EarlyCallbackAssumption == EarlyCallback \in BOOLEAN
ASSUME CasesAssumption == IsFiniteSet(Cases)
ASSUME BoundAssumption == MaxThreads \in Nat /\ MaxCrashes \in Nat

Threads    == 1..MaxThreads
Schedulers == {"callback", "resume"}
Actors     == Humans \cup Askers \cup Threads
Models     == Askers \cup Threads

(* A request is of a human or of an asker, and a thread is neither. *)
ASSUME ActorsAssumption == Humans \cap Models = {} /\ Askers \cap Threads = {}

VARIABLES
    up,        \* the platform process runs
    ledger,    \* ledger[c]: the decisions recorded for case c, in order
    act,       \* act[a]: what actor a does, on which case, what it has read
    mem,       \* mem[t]: the batch status object thread t works on
    todo,      \* todo[t]: the cases thread t was started with and has left
    batch,     \* the persisted status of the batch
    newest,    \* _threads[run_id]: the thread started last, or 0
    sched,     \* sched[s]: the step of schedule() scheduler s is in
    picked,    \* picked[s]: the candidates that schedule() selected
    current,   \* current[s]: the batch status schedule() has read
    crashes

vars == <<up, ledger, act, mem, todo, batch, newest, sched, picked,
          current, crashes>>
schedVars == <<sched, picked, current, newest>>
threadVars == <<mem, todo>>

Idle == [pc |-> "idle", case |-> "none", seen |-> <<>>]
NotStarted == [state |-> "not_started", total |-> 0, processed |-> 0, errors |-> 0]

Finished == {"completed", "completed_with_errors", "skipped"}
Pending  == {"queued", "running"}

Init ==
    /\ up = TRUE /\ crashes = 0
    /\ ledger = [c \in Cases |-> <<>>]
    /\ act = [a \in Actors |-> Idle]
    /\ mem = [t \in Threads |-> NotStarted]
    /\ todo = [t \in Threads |-> {}]
    /\ batch = NotStarted
    /\ newest = 0
    /\ sched = [s \in Schedulers |-> "idle"]
    /\ picked = [s \in Schedulers |-> {}]
    /\ current = [s \in Schedulers |-> NotStarted]

HumanIn(decisions) == \E i \in DOMAIN decisions : decisions[i] \in Humans
ModelIn(decisions) == \E i \in DOMAIN decisions : decisions[i] \in Models

(* Mutated form: a case with a proposal is proposed again. *)
StillOpenIgnoringProposals(c) == ~HumanIn(ledger[c])

(* eligible(): no human decision and no model proposal yet. *)
StillOpen(c) == ~HumanIn(ledger[c]) /\ ~ModelIn(ledger[c])

ThreadAlive(t) == act[t].pc \notin {"idle", "ended", "dead"}

Step(a, from, to) ==
    /\ up /\ act[a].pc = from
    /\ act' = [act EXCEPT ![a].pc = to]

-----------------------------------------------------------------------------
(* The POST handlers, served once the startup has resumed the batches. *)

Serving == up /\ sched["resume"] \in {"idle", "done"}

HumanDecides(h, c) ==
    /\ Serving /\ act[h].pc = "idle"
    /\ act' = [act EXCEPT ![h] = [Idle EXCEPT !.pc = "get", !.case = c]]
    /\ UNCHANGED <<up, ledger, threadVars, batch, schedVars, crashes>>

Ask(a, c) ==
    /\ Serving /\ act[a].pc = "idle"
    /\ act' = [act EXCEPT ![a] = [Idle EXCEPT !.pc = "look", !.case = c]]
    /\ UNCHANGED <<up, ledger, threadVars, batch, schedVars, crashes>>

(* review(): refuse a case with a human decision, return an existing       *)
(* proposal as it is, otherwise call the model.                            *)
Look(a) ==
    /\ act[a].pc = "look"
    /\ LET c == act[a].case IN
       \/ HumanIn(ledger[c]) /\ Step(a, "look", "refused")
       \/ ~HumanIn(ledger[c]) /\ ModelIn(ledger[c]) /\ Step(a, "look", "ok")
       \/ StillOpen(c) /\ Step(a, "look", "model")
    /\ UNCHANGED <<up, ledger, threadVars, batch, schedVars, crashes>>

(* The model call, however long it takes; a failed call or a malformed     *)
(* answer is a SemanticReviewError.                                        *)
ModelAnswers(a) ==
    /\ Step(a, "model", "get") \/ Step(a, "model", "refused")
    /\ UNCHANGED <<up, ledger, threadVars, batch, schedVars, crashes>>

(* Mutated form: append() trusts the check review() made before the call. *)
AppendGetUnchecked(a) ==
    /\ up /\ act[a].pc = "get"
    /\ act' = [act EXCEPT ![a].pc = "put", ![a].seen = ledger[act[a].case]]
    /\ UNCHANGED <<up, ledger, threadVars, batch, schedVars, crashes>>

(* append(), first half: read the record; a model must not follow a human  *)
(* decision (ValueError).                                                  *)
AppendGet(a) ==
    /\ up /\ act[a].pc = "get"
    /\ LET decisions == ledger[act[a].case] IN
         act' = IF a \in Models /\ HumanIn(decisions)
                THEN [act EXCEPT ![a].pc = "raised"]
                ELSE [act EXCEPT ![a].pc = "put", ![a].seen = decisions]
    /\ UNCHANGED <<up, ledger, threadVars, batch, schedVars, crashes>>

(* append(), second half: replace the file by what was read plus one. *)
AppendPut(a) ==
    /\ Step(a, "put", "ok")
    /\ ledger' = [ledger EXCEPT ![act[a].case] = Append(act[a].seen, a)]
    /\ UNCHANGED <<up, threadVars, batch, schedVars, crashes>>

-----------------------------------------------------------------------------
(* SemanticReviewCoordinator.review_cases, thread t.                       *)

BatchStarts(t) ==
    /\ Step(t, "start", "next")
    /\ mem' = [mem EXCEPT ![t] = [batch EXCEPT !.state = "running",
                                               !.total = Cardinality(todo[t])]]
    /\ batch' = mem'[t]
    /\ UNCHANGED <<up, ledger, todo, schedVars, crashes>>

SaveProgress(t, failed) ==
    /\ mem' = [mem EXCEPT ![t].processed = @ + 1, ![t].errors = @ + failed]
    /\ batch' = mem'[t]

(* The next case is skipped if somebody has decided it meanwhile. *)
NextCase(t, c) ==
    /\ up /\ act[t].pc = "next" /\ c \in todo[t]
    /\ todo' = [todo EXCEPT ![t] = @ \ {c}]
    /\ IF StillOpen(c)
         THEN /\ act' = [act EXCEPT ![t].pc = "look", ![t].case = c]
              /\ UNCHANGED <<mem, batch>>
         ELSE SaveProgress(t, 0) /\ UNCHANGED act
    /\ UNCHANGED <<up, ledger, schedVars, crashes>>

(* A decision, or a SemanticReviewError, is counted and the batch goes on. *)
CaseDone(t) ==
    /\ \/ Step(t, "ok", "next") /\ SaveProgress(t, 0)
       \/ Step(t, "refused", "next") /\ SaveProgress(t, 1)
    /\ UNCHANGED <<up, ledger, todo, schedVars, crashes>>

(* Any other exception, such as the ValueError of append(), ends the       *)
(* thread and leaves the persisted status as it is.                        *)
BatchDies(t) ==
    /\ Step(t, "raised", "dead")
    /\ UNCHANGED <<up, ledger, threadVars, batch, schedVars, crashes>>

(* Mutated form: the batch is called complete while cases are left. *)
BatchEndsEarly(t) ==
    /\ Step(t, "next", "exiting")
    /\ mem' = [mem EXCEPT ![t].state = IF mem[t].errors > 0
                                       THEN "completed_with_errors" ELSE "completed"]
    /\ batch' = mem'[t]
    /\ UNCHANGED <<up, ledger, todo, schedVars, crashes>>

BatchEnds(t) ==
    /\ todo[t] = {}
    /\ Step(t, "next", "exiting")
    /\ mem' = [mem EXCEPT ![t].state = IF mem[t].errors > 0
                                       THEN "completed_with_errors" ELSE "completed"]
    /\ batch' = mem'[t]
    /\ UNCHANGED <<up, ledger, todo, schedVars, crashes>>

(* The last status is written while the thread is still alive. *)
ThreadExits(t) ==
    /\ Step(t, "exiting", "ended")
    /\ UNCHANGED <<up, ledger, threadVars, batch, schedVars, crashes>>

-----------------------------------------------------------------------------
(* SemanticReviewCoordinator.schedule and its two callers.                 *)

ScheduleGoes(s, from, to) ==
    /\ up /\ sched[s] = from
    /\ sched' = [sched EXCEPT ![s] = to]
    /\ UNCHANGED <<up, ledger, crashes>>

(* The job completed: the supervisor's callback fires, once. *)
RunCompletes ==
    /\ EarlyCallback \/ sched["resume"] \in {"idle", "done"}
    /\ ScheduleGoes("callback", "idle", "read")
    /\ UNCHANGED <<act, threadVars, batch, newest, picked, current>>

(* Mutated form: a batch that was queued but not begun is not resumed. *)
ResumeRunningOnly ==
    /\ ScheduleGoes("resume", "list", IF batch.state = "running" THEN "read" ELSE "done")
    /\ UNCHANGED <<act, threadVars, batch, newest, picked, current>>

(* resume_pending at startup takes queued and running batches only. *)
Resume ==
    /\ ScheduleGoes("resume", "list", IF batch.state \in Pending THEN "read" ELSE "done")
    /\ UNCHANGED <<act, threadVars, batch, newest, picked, current>>

(* Read the status: a finished batch is returned as it is. *)
ReadStatus(s) ==
    /\ current' = [current EXCEPT ![s] = batch]
    /\ ScheduleGoes(s, "read", IF batch.state \in Finished THEN "done"
                               ELSE IF batch.state \in Pending THEN "alive"
                               ELSE "select")
    /\ UNCHANGED <<act, threadVars, batch, newest, picked>>

LiveBatch == newest # 0 /\ ThreadAlive(newest)

(* A pending batch with a live thread is left to it. *)
CheckThread(s) ==
    /\ ScheduleGoes(s, "alive", IF LiveBatch THEN "done" ELSE "select")
    /\ UNCHANGED <<act, threadVars, batch, newest, picked, current>>

SaveState(s, state, failed) ==
    /\ ScheduleGoes(s, "select", "done")
    /\ batch' = [current[s] EXCEPT !.state = state, !.errors = IF failed THEN 1 ELSE @]
    /\ UNCHANGED picked

(* Select the eligible cases: no model configured, cases unreadable, or    *)
(* nothing to review settle the batch at once, from the status read above. *)
Select(s) ==
    /\ LET open == {c \in Cases : StillOpen(c)} IN
       \/ SaveState(s, "not_configured", FALSE)
       \/ SaveState(s, "completed_with_errors", TRUE)
       \/ open = {} /\ SaveState(s, "skipped", FALSE)
       \/ /\ open # {}
          /\ ScheduleGoes(s, "select", "queue")
          /\ picked' = [picked EXCEPT ![s] = open]
          /\ UNCHANGED batch
    /\ UNCHANGED <<act, threadVars, newest, current>>

Enqueue(s) ==
    /\ ScheduleGoes(s, "queue", "spawn")
    /\ batch' = [state |-> "queued", total |-> Cardinality(picked[s]),
                 processed |-> 0, errors |-> 0]
    /\ UNCHANGED <<act, threadVars, newest, picked, current>>

StartThread(s) ==
    \E t \in Threads :
       /\ act[t].pc = "idle" /\ \A u \in 1..(t - 1) : act[u].pc # "idle"
       /\ act' = [act EXCEPT ![t].pc = "start"]
       /\ todo' = [todo EXCEPT ![t] = picked[s]]
       /\ newest' = t

(* Under the coordinator's lock: start a thread unless one is alive. *)
Spawn(s) ==
    /\ ScheduleGoes(s, "spawn", "done")
    /\ IF LiveBatch THEN UNCHANGED <<act, todo, newest>> ELSE StartThread(s)
    /\ UNCHANGED <<mem, batch, picked, current>>

-----------------------------------------------------------------------------
(* A crash loses every request and thread; the files remain.  The callback *)
(* of a run that has completed is never called again.                      *)
Crash ==
    /\ up /\ crashes < MaxCrashes
    /\ up' = FALSE /\ crashes' = crashes + 1
    /\ act' = [a \in Actors |->
                 IF a \in Threads THEN Idle
                 ELSE IF act[a].pc \in {"idle", "ok", "refused", "raised"} THEN act[a]
                 ELSE [act[a] EXCEPT !.pc = "lost"]]
    /\ mem' = [t \in Threads |-> NotStarted]
    /\ todo' = [t \in Threads |-> {}]
    /\ newest' = 0
    /\ sched' = [s \in Schedulers |-> IF sched["callback"] = "idle" /\ s = "callback"
                                      THEN "idle" ELSE "done"]
    /\ picked' = [s \in Schedulers |-> {}]
    /\ current' = [s \in Schedulers |-> NotStarted]
    /\ UNCHANGED <<ledger, batch>>

Boot ==
    /\ ~up
    /\ up' = TRUE
    /\ sched' = [sched EXCEPT !["resume"] = "list"]
    /\ UNCHANGED <<ledger, act, threadVars, batch, newest, picked, current, crashes>>

Review(a) == (a \in Models /\ (Look(a) \/ ModelAnswers(a)))
             \/ AppendGet(a) \/ AppendPut(a)

BatchStep(t) == \/ BatchStarts(t) \/ CaseDone(t) \/ BatchDies(t) \/ BatchEnds(t)
                \/ ThreadExits(t)
                \/ \E c \in Cases : NextCase(t, c)

Schedule(s) == ReadStatus(s) \/ CheckThread(s) \/ Select(s) \/ Enqueue(s) \/ Spawn(s)

Next == \/ \E h \in Humans, c \in Cases : HumanDecides(h, c)
        \/ \E a \in Askers, c \in Cases : Ask(a, c)
        \/ \E a \in Actors : Review(a)
        \/ \E t \in Threads : BatchStep(t)
        \/ RunCompletes \/ Resume \/ \E s \in Schedulers : Schedule(s)
        \/ Crash \/ Boot

Spec == Init /\ [][Next]_vars

(* Threads are scheduled, the model call ends, the platform is restarted   *)
(* after a crash and its startup runs to the end.                          *)
FairSpec == /\ Spec
            /\ WF_vars(Boot) /\ WF_vars(Resume)
            /\ \A s \in Schedulers : WF_vars(Schedule(s))
            /\ \A t \in Threads : WF_vars(Review(t) \/ BatchStep(t))

-----------------------------------------------------------------------------
Points == {"idle", "look", "model", "get", "put", "ok", "refused", "raised",
           "lost", "start", "next", "exiting", "ended", "dead"}
Status == [state     : Finished \cup Pending \cup {"not_started", "not_configured"},
           total     : Nat,
           processed : Nat,
           errors    : Nat]

TypeOK ==
    /\ up \in BOOLEAN /\ crashes \in 0..MaxCrashes /\ newest \in 0..MaxThreads
    /\ ledger \in [Cases -> Seq(Actors)]
    /\ act \in [Actors -> [pc : Points, case : Cases \cup {"none"}, seen : Seq(Actors)]]
    /\ mem \in [Threads -> Status] /\ todo \in [Threads -> SUBSET Cases]
    /\ batch \in Status
    /\ sched \in [Schedulers -> {"idle", "list", "read", "alive", "select",
                                 "queue", "spawn", "done"}]
    /\ picked \in [Schedulers -> SUBSET Cases]
    /\ current \in [Schedulers -> Status]

(* In the persisted history no model proposal stands after a human         *)
(* decision, however appends interleave: "a later automated retry must     *)
(* never silently replace a reviewer decision" as far as the order of the  *)
(* history goes.                                                           *)
HumanIsFinal ==
    \A c \in Cases : \A i, k \in DOMAIN ledger[c] :
        i < k /\ ledger[c][i] \in Humans => ledger[c][k] \in Humans

(* A batch that reports completion without errors leaves no case open: each *)
(* has a human decision or a proposal, whoever interfered, and whatever    *)
(* part of an earlier attempt a crash has cut off.                         *)
CompletedBatchLeavesNothingOpen ==
    batch.state = "completed" => \A c \in Cases : ~StillOpen(c)

(* Without an asker in between, a case gets one proposal, not a second one *)
(* after a crash between the append and the status update.                 *)
OneProposalPerCase ==
    \A c \in Cases : \A i, k \in DOMAIN ledger[c] :
        ledger[c][i] \in Models /\ ledger[c][k] \in Models => i = k

(* A pending batch ends, by its own thread or by a resumption.             *)
PendingBatchEnds == (batch.state \in Pending) ~> (batch.state \notin Pending)

=============================================================================
