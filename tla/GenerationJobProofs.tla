------------------------- MODULE GenerationJobProofs -------------------------
(***************************************************************************)
(* Proofs about the batch-generation jobs, for any number of jobs, targets *)
(* background tasks, requests and crashes, where requests are served once  *)
(* startup has listed the jobs.  The inductive invariant IInv says         *)
(*   Booting    that nothing runs while startup has the jobs to list,      *)
(*   Known      whose records and jobs runners and handlers hold,          *)
(*   Sole       that a job has one runner or is on the list of startup,    *)
(*   Untouched  that nobody writes behind the back of a runner,            *)
(*   Working    how far a runner has come with the targets,                *)
(* the last three of jobs that were not both cancelled and retried.        *)
(***************************************************************************)
EXTENDS GenerationJob, TLAPS

USE ItemsAssumption, GenerationBounds

Quiet(j) == j \notin asked \/ used.retries = 0

Booting ==
    /\ ~up => resume.list
    /\ resume.list => /\ handler.op = "none" /\ resume.todo = {}
                      /\ \A r \in Runners : ~Live(r)

Known ==
    /\ \A r \in Runners :
          /\ Live(r) => Job(r) \in Jobs /\ Exists(Job(r))
          /\ runner[r].pc \in {"mark", "call"} =>
                runner[r].at \in 1..Items /\ Mem(r).state # "absent"
          /\ runner[r].pc = "look" => runner[r].at \in 1..(Items + 1)
    /\ \A j \in resume.todo : Exists(j)
    /\ \A j \in Jobs : ~Exists(j) => file[j] = NoRecord
    /\ handler.op # "none" => handler.job \in Jobs
    /\ handler.op = "cancel" => handler.mem.state \in Active
    /\ handler.op = "retry" =>
          /\ used.retries > 0 /\ Exists(handler.job)
          /\ handler.job \notin asked =>
                file[handler.job] = handler.mem /\ handler.mem.state \in Terminal

Sole ==
    /\ \A r, s \in Runners : Live(r) /\ Live(s) /\ Job(r) = Job(s) /\ Quiet(Job(r)) => r = s
    /\ \A r \in Runners : Live(r) /\ Quiet(Job(r)) => Job(r) \notin resume.todo

(* Where a runner holds a record it is going to save. *)
Holding == {"reset", "open", "mark", "call", "finish", "cancel"}

(* A runner at p with record rec, while the file holds now. *)
InStep(p, rec, now) ==
    /\ now.state \in Active
    /\ p # "cancel"
    /\ p \in Holding => rec = now

Untouched ==
    /\ \A j \in Jobs \ asked : ~file[j].cancel
    /\ \A j \in resume.todo \ asked : file[j].state \in Active
    /\ \A r \in Runners : Live(r) /\ Job(r) \notin asked => InStep(runner[r].pc, Mem(r), Now(r))

(* No target before the n-th is pending. *)
Past(rec, n) == \A i \in 1..Items : i < n => rec.item[i] # "pending"

Progress(p, rec, n, now) ==
    /\ p \in {"mark", "call"} => Past(rec, n) /\ rec.state \in Active
    /\ p = "mark" => rec.item[n] = "pending"
    /\ p = "call" => rec.item[n] = "running"
    /\ p = "finish" => Past(rec, Items + 1)
    /\ p = "look" => now.cancel \/ (Past(now, n) /\ now.state \in Active)

Working == \A r \in Runners : Live(r) /\ Quiet(Job(r)) =>
              Progress(runner[r].pc, Mem(r), runner[r].at, Now(r))

Coherent(rec) ==
    LET had(s) == \E i \in 1..Items : rec.item[i] = s IN
    /\ rec.state \in Terminal  => ~had("pending")
    /\ rec.state = "completed" => ~had("failed") /\ ~had("running")
    /\ rec.state = "partial"   => had("succeeded") /\ had("failed")

Settled == \A j \in Jobs : Quiet(j) => Coherent(file[j])

IInv == /\ TypeOK /\ Booting /\ Known /\ Sole /\ Untouched /\ Working /\ Settled
        /\ ActiveJobHasRunner

-----------------------------------------------------------------------------
(* Records. *)

(* Replacing the state of a record. *)
LEMMA RecordStates ==
    ASSUME NEW rec \in Record, NEW s \in {"absent"} \cup Active \cup Terminal
    PROVE  LET new == [rec EXCEPT !.state = s] IN
           new \in Record /\ new.state = s /\ new.cancel = rec.cancel /\ new.item = rec.item
  BY DEF Record

(* Replacing one state of its targets by another. *)
LEMMA RecordTargets ==
    ASSUME NEW rec \in Record, NEW from \in ItemState, NEW to \in ItemState
    PROVE  LET new == With(rec, from, to) IN
           /\ new \in Record /\ new.state = rec.state /\ new.cancel = rec.cancel
           /\ \A i \in 1..Items : new.item[i] = IF rec.item[i] = from THEN to ELSE rec.item[i]
  <1> DEFINE items == [i \in 1..Items |-> IF rec.item[i] = from THEN to ELSE rec.item[i]]
  <1>1. items \in [1..Items -> ItemState]
    BY DEF Record
  <1>2. With(rec, from, to) = [rec EXCEPT !.item = items]
    BY DEF With
  <1>3. \A i \in 1..Items : items[i] = IF rec.item[i] = from THEN to ELSE rec.item[i]
    OBVIOUS
  <1> HIDE DEF items
  <1>4. QED
    BY <1>1, <1>2, <1>3 DEF Record

(* Replacing the state of one target. *)
LEMMA RecordTarget ==
    ASSUME NEW rec \in Record, NEW n \in 1..Items, NEW s \in ItemState
    PROVE  LET new == [rec EXCEPT !.item[n] = s] IN
           /\ new \in Record /\ new.state = rec.state /\ new.cancel = rec.cancel
           /\ \A i \in 1..Items : new.item[i] = IF i = n THEN s ELSE rec.item[i]
  <1> DEFINE items == [rec.item EXCEPT ![n] = s]
  <1>1. items \in [1..Items -> ItemState]
        /\ \A i \in 1..Items : items[i] = IF i = n THEN s ELSE rec.item[i]
    BY DEF Record
  <1>2. [rec EXCEPT !.item[n] = s] = [rec EXCEPT !.item = items]
    OBVIOUS
  <1> HIDE DEF items
  <1>3. QED
    BY <1>1, <1>2 DEF Record

(* A cancelled record has no pending target. *)
LEMMA RemainingCancelled ==
    ASSUME NEW rec \in Record
    PROVE  LET new == CancelRemaining(rec) IN
           /\ new \in Record /\ new.state = "cancelled" /\ new.cancel = rec.cancel
           /\ \A i \in 1..Items :
                 new.item[i] = IF rec.item[i] = "pending" THEN "cancelled" ELSE rec.item[i]
           /\ Coherent(new)
  <1> DEFINE mid == With(rec, "pending", "cancelled")
             new == [mid EXCEPT !.state = "cancelled"]
  <1>1. /\ mid \in Record /\ mid.cancel = rec.cancel
        /\ \A i \in 1..Items :
              mid.item[i] = IF rec.item[i] = "pending" THEN "cancelled" ELSE rec.item[i]
    BY RecordTargets DEF ItemState
  <1>2. new = CancelRemaining(rec)
    BY DEF CancelRemaining
  <1> HIDE DEF mid
  <1>3. new \in Record /\ new.state = "cancelled" /\ new.cancel = mid.cancel
        /\ new.item = mid.item
    BY <1>1, RecordStates DEF Terminal
  <1> HIDE DEF new
  <1>4. Coherent(new)
    BY <1>1, <1>3 DEF Coherent, Terminal
  <1>5. QED
    BY <1>1, <1>2, <1>3, <1>4

(* The verdict on a record none of whose targets is pending fits it. *)
LEMMA VerdictFits ==
    ASSUME NEW rec \in Record, Past(rec, Items + 1)
    PROVE  LET new == [rec EXCEPT !.state = Verdict(rec)] IN
           /\ new \in Record /\ new.state \in Terminal /\ new.cancel = rec.cancel
           /\ new.item = rec.item /\ Coherent(new)
  <1> DEFINE s == Verdict(rec)
             new == [rec EXCEPT !.state = s]
  <1>1. /\ s \in Terminal \cap {"completed", "partial", "failed"}
        /\ s = "completed" => \A i \in 1..Items : rec.item[i] = "succeeded"
        /\ s = "partial" => /\ \E i \in 1..Items : rec.item[i] = "succeeded"
                            /\ \E i \in 1..Items : rec.item[i] = "failed"
    BY DEF Verdict, Terminal
  <1> HIDE DEF s
  <1>2. new \in Record /\ new.state = s /\ new.cancel = rec.cancel /\ new.item = rec.item
    BY <1>1, RecordStates
  <1>3. \A i \in 1..Items : rec.item[i] # "pending"
    BY DEF Past
  <1> HIDE DEF new
  <1>4. Coherent(new)
    BY <1>1, <1>2, <1>3 DEF Coherent
  <1>5. QED
    BY <1>1, <1>2, <1>4 DEF new, s
-----------------------------------------------------------------------------
(* What a step does, in the form the proofs use. *)

Moved(r, p, rec, n) ==
    /\ runner' \in [Runners -> Execution]
    /\ runner'[r].pc = p /\ runner'[r].job = Job(r)
    /\ runner'[r].mem = rec /\ runner'[r].at = n
    /\ \A s \in Runners \ {r} : runner'[s] = runner[s]

Stopped(r) ==
    /\ runner' \in [Runners -> Execution]
    /\ runner'[r].pc = "ended"
    /\ \A s \in Runners \ {r} : runner'[s] = runner[s]

Started(r, j) ==
    /\ ~Live(r)
    /\ runner' \in [Runners -> Execution]
    /\ runner'[r].pc = "start" /\ runner'[r].job = j
    /\ \A s \in Runners \ {r} : runner'[s] = runner[s]

Written(j, rec) ==
    /\ file' \in [Jobs -> Record]
    /\ file'[j] = rec
    /\ \A k \in Jobs \ {j} : file'[k] = file[k]

(* Nobody has written to a job. *)
LEMMA NothingIsARecord == NoRecord \in Record /\ NoRecord.state = "absent"
                          /\ ~NoRecord.cancel /\ Coherent(NoRecord)
  BY DEF NoRecord, AllItems, Record, ItemState, Coherent, Terminal

(* Become moves a runner and keeps its job. *)
LEMMA BecomeMoves ==
    ASSUME TypeOK, NEW r \in Runners, NEW p \in Points, NEW rec \in Record,
           NEW n \in 0..(Items + 1), Become(r, p, rec, n)
    PROVE  Moved(r, p, rec, n)
  <1> DEFINE e == [runner[r] EXCEPT !.pc = p, !.mem = rec, !.at = n]
  <1>1. runner[r] \in Execution
    BY DEF TypeOK
  <1>2. e \in Execution /\ e.pc = p /\ e.job = runner[r].job /\ e.mem = rec /\ e.at = n
    BY <1>1 DEF Execution
  <1>3. runner' = [runner EXCEPT ![r] = e]
    BY DEF Become
  <1> HIDE DEF e
  <1>4. QED
    BY <1>2, <1>3 DEF Moved, TypeOK, Job

(* End stops a runner.                                                     *)
LEMMA EndStops ==
    ASSUME TypeOK, NEW r \in Runners, End(r)
    PROVE  Stopped(r)
  <1>1. Ended \in Execution /\ Ended.pc = "ended"
    BY NothingIsARecord DEF Ended, Execution, Points
  <1>2. QED
    BY <1>1 DEF End, Stopped, TypeOK

(* A runner that was not live starts on its job. *)
LEMMA TaskStarts ==
    ASSUME TypeOK, NEW r \in Runners, NEW j \in Jobs, ~Live(r),
           runner' = [runner EXCEPT ![r] = [Ended EXCEPT !.pc = "start", !.job = j]]
    PROVE  Started(r, j)
  <1> DEFINE e == [Ended EXCEPT !.pc = "start", !.job = j]
  <1>1. e \in Execution /\ e.pc = "start" /\ e.job = j
    <2>1. Ended \in Execution
      BY NothingIsARecord DEF Ended, Execution, Points
    <2>2. QED
      BY <2>1 DEF Execution, Points
  <1> HIDE DEF e
  <1>2. runner' = [runner EXCEPT ![r] = e]
    BY DEF e
  <1>3. QED
    BY <1>1, <1>2 DEF Started, TypeOK

(* Save replaces the record of one job. *)
LEMMA SaveWrites ==
    ASSUME TypeOK, NEW j \in Jobs, NEW rec \in Record, file' = [file EXCEPT ![j] = rec]
    PROVE  Written(j, rec)
  BY DEF Written, TypeOK

-----------------------------------------------------------------------------
(* The runners. *)

(* A step of a live runner that goes on keeps the invariant if what it     *)
(* leaves in the file and in its own hands fits.                           *)
LEMMA RunnerGoesOn ==
    ASSUME IInv, NEW r \in Runners, Live(r), UNCHANGED Rest,
           NEW p \in Points \ {"ended"}, NEW rec, NEW now, NEW n,
           Moved(r, p, rec, n), Written(Job(r), now),
           now.state # "absent",
           p \in {"mark", "call"} => n \in 1..Items /\ rec.state # "absent",
           p = "look" => n \in 1..(Items + 1),
           Job(r) \notin asked => InStep(p, rec, now) /\ ~now.cancel,
           Quiet(Job(r)) => Progress(p, rec, n, now) /\ Coherent(now)
    PROVE  IInv'
  <1>0. Job(r) \in Jobs /\ Live(r)' /\ Job(r)' = Job(r) /\ Mem(r)' = rec
    BY DEF IInv, Known, Moved, Live, Job, Mem
  <1>1. \A s \in Runners \ {r} : /\ Live(s)' = Live(s) /\ Job(s)' = Job(s) /\ Mem(s)' = Mem(s)
                                 /\ runner'[s] = runner[s]
    BY DEF Moved, Live, Job, Mem
  <1>2. \A j \in Jobs : Quiet(j)' = Quiet(j)
    BY DEF Rest, Quiet
  <1>3. \A j \in Jobs : Exists(j) => Exists(j)'
    BY DEF Written, Exists
  <1>4. \A s \in Runners \ {r} : Live(s) /\ Quiet(Job(s)) => Job(s) # Job(r)
    BY DEF IInv, Sole
  <1>5. TypeOK'
    BY DEF IInv, TypeOK, Moved, Written, Rest
  <1>6. Booting'
    BY DEF IInv, Booting, Rest
  <1>7. Known'
    <2>1. \A s \in Runners : /\ Live(s)' => Job(s)' \in Jobs /\ Exists(Job(s))'
                             /\ runner'[s].pc \in {"mark", "call"} =>
                                   runner'[s].at \in 1..Items /\ runner'[s].mem.state # "absent"
                             /\ runner'[s].pc = "look" => runner'[s].at \in 1..(Items + 1)
      <3>1. ASSUME NEW s \in Runners, s # r, Live(s)
            PROVE  Job(s)' \in Jobs /\ Exists(Job(s))'
        BY <1>1, <1>3, <3>1 DEF IInv, Known
      <3>2. Exists(Job(r))'
        BY <1>0 DEF Written, Exists
      <3>3. QED
        BY <1>0, <1>1, <3>1, <3>2 DEF IInv, Known, Moved, Mem
    <2>2. handler.op = "retry" /\ handler.job \notin asked => handler.job # Job(r)
      BY DEF IInv, Known, Untouched, InStep, Active, Terminal, Now
    <2>3. \A j \in Jobs : ~Exists(j)' => file'[j] = NoRecord
      BY <1>0, <1>3 DEF IInv, Known, Written, Exists
    <2>4. handler' = handler /\ asked' = asked /\ used' = used /\ resume' = resume
      BY DEF Rest
    <2>5. handler.op = "retry" => /\ used.retries > 0 /\ file'[handler.job].state # "absent"
                                  /\ handler.job \notin asked =>
                                        file'[handler.job] = handler.mem
                                        /\ handler.mem.state \in Terminal
      BY <1>0, <2>2 DEF IInv, Known, Written, Exists
    <2>6. \A j \in resume.todo : Exists(j)'
      BY <1>3 DEF IInv, Known, TypeOK
    <2>7. QED
      BY <2>1, <2>3, <2>4, <2>5, <2>6 DEF IInv, Known, Exists, Mem
  <1>8. Sole'
    BY <1>0, <1>1 DEF IInv, Sole, Rest, Quiet
  <1>9. Untouched'
    <2>1. \A j \in Jobs \ asked : ~file'[j].cancel
      BY <1>0 DEF IInv, Untouched, Written
    <2>2. \A j \in resume.todo \ asked : j # Job(r)
      BY DEF IInv, Sole, Quiet
    <2>3. \A j \in resume.todo \ asked : file'[j].state \in Active
      BY <1>0, <2>2 DEF IInv, Untouched, Written, TypeOK
    <2>4. ASSUME NEW s \in Runners, s # r, Live(s), Job(s) \notin asked
          PROVE  InStep(runner[s].pc, Mem(s), file'[Job(s)])
      <3>1. Job(s) # Job(r) /\ Job(s) \in Jobs
        BY <1>4, <2>4 DEF Quiet, IInv, Known
      <3>2. InStep(runner[s].pc, Mem(s), Now(s))
        BY <2>4 DEF IInv, Untouched
      <3>3. QED
        BY <3>1, <3>2 DEF Written, Now
    <2>5. QED
      BY <1>0, <1>1, <2>1, <2>3, <2>4 DEF Untouched, Now, Rest, Moved, Written
  <1>10. Working'
    <2>1. ASSUME NEW s \in Runners, s # r, Live(s), Quiet(Job(s))
          PROVE  Progress(runner[s].pc, Mem(s), runner[s].at, file'[Job(s)])
      <3>1. Job(s) # Job(r) /\ Job(s) \in Jobs
        BY <1>4, <2>1 DEF IInv, Known
      <3>2. Progress(runner[s].pc, Mem(s), runner[s].at, Now(s))
        BY <2>1 DEF IInv, Working
      <3>3. QED
        BY <3>1, <3>2 DEF Written, Now
    <2>2. QED
      BY <1>0, <1>1, <2>1 DEF Working, Now, Moved, Written, Rest, Quiet
  <1>11. Settled'
    BY <1>0, <1>2 DEF IInv, Settled, Written
  <1>12. ActiveJobHasRunner'
    <2>1. \A j \in Jobs \ {Job(r)} : file'[j] = file[j]
      BY DEF Written
    <2>2. \A j \in Jobs : (\E s \in Runners : Live(s) /\ Job(s) = j)
                            => \E s \in Runners : Live(s)' /\ Job(s)' = j
      BY <1>0, <1>1
    <2>3. QED
      BY <1>0, <2>1, <2>2 DEF IInv, ActiveJobHasRunner, Rest
  <1>13. QED
    BY <1>5, <1>6, <1>7, <1>8, <1>9, <1>10, <1>11, <1>12 DEF IInv

(* A runner that stops leaves its job settled. *)
LEMMA RunnerEnds ==
    ASSUME IInv, NEW r \in Runners, Live(r), UNCHANGED Rest, NEW now,
           Stopped(r), Written(Job(r), now),
           now.state \in Terminal,
           Job(r) \notin asked => ~now.cancel,
           Quiet(Job(r)) => Coherent(now)
    PROVE  IInv'
  <1>0. Job(r) \in Jobs /\ ~Live(r)' /\ now.state \notin Active /\ now.state # "absent"
    BY DEF IInv, Known, Stopped, Live, Job, Mem, Active, Terminal
  <1>1. \A s \in Runners \ {r} : /\ Live(s)' = Live(s) /\ Job(s)' = Job(s) /\ Mem(s)' = Mem(s)
                                 /\ runner'[s] = runner[s]
    BY DEF Stopped, Live, Job, Mem
  <1>2. \A j \in Jobs : Quiet(j)' = Quiet(j)
    BY DEF Rest, Quiet
  <1>3. \A j \in Jobs : Exists(j) => Exists(j)'
    BY <1>0 DEF Written, Exists
  <1>4. \A s \in Runners \ {r} : Live(s) /\ Quiet(Job(s)) => Job(s) # Job(r)
    BY DEF IInv, Sole
  <1>5. TypeOK'
    BY DEF IInv, TypeOK, Stopped, Written, Rest
  <1>6. Booting'
    BY DEF IInv, Booting, Rest
  <1>7. Known'
    <2>1. \A s \in Runners : /\ Live(s)' => Job(s)' \in Jobs /\ Exists(Job(s))'
                             /\ runner'[s].pc \in {"mark", "call"} =>
                                   runner'[s].at \in 1..Items /\ runner'[s].mem.state # "absent"
                             /\ runner'[s].pc = "look" => runner'[s].at \in 1..(Items + 1)
      <3>1. ASSUME NEW s \in Runners, s # r, Live(s)
            PROVE  Job(s)' \in Jobs /\ Exists(Job(s))'
        BY <1>1, <1>3, <3>1 DEF IInv, Known
      <3>2. QED
        BY <1>0, <1>1, <3>1 DEF IInv, Known, Stopped, Mem
    <2>2. handler.op = "retry" /\ handler.job \notin asked => handler.job # Job(r)
      BY DEF IInv, Known, Untouched, InStep, Active, Terminal, Now
    <2>3. \A j \in Jobs : ~Exists(j)' => file'[j] = NoRecord
      BY <1>0, <1>3 DEF IInv, Known, Written, Exists
    <2>4. handler' = handler /\ asked' = asked /\ used' = used /\ resume' = resume
      BY DEF Rest
    <2>5. handler.op = "retry" => /\ used.retries > 0 /\ file'[handler.job].state # "absent"
                                  /\ handler.job \notin asked =>
                                        file'[handler.job] = handler.mem
                                        /\ handler.mem.state \in Terminal
      BY <1>0, <2>2 DEF IInv, Known, Written, Exists
    <2>6. \A j \in resume.todo : Exists(j)'
      BY <1>3 DEF IInv, Known, TypeOK
    <2>7. QED
      BY <2>1, <2>3, <2>4, <2>5, <2>6 DEF IInv, Known, Exists, Mem
  <1>8. Sole'
    BY <1>0, <1>1 DEF IInv, Sole, Rest, Quiet
  <1>9. Untouched'
    <2>1. \A j \in Jobs \ asked : ~file'[j].cancel
      BY <1>0 DEF IInv, Untouched, Written
    <2>2. \A j \in resume.todo \ asked : j # Job(r)
      BY DEF IInv, Sole, Quiet
    <2>3. \A j \in resume.todo \ asked : file'[j].state \in Active
      BY <1>0, <2>2 DEF IInv, Untouched, Written, TypeOK
    <2>4. ASSUME NEW s \in Runners, s # r, Live(s), Job(s) \notin asked
          PROVE  InStep(runner[s].pc, Mem(s), file'[Job(s)])
      <3>1. Job(s) # Job(r) /\ Job(s) \in Jobs
        BY <1>4, <2>4 DEF Quiet, IInv, Known
      <3>2. InStep(runner[s].pc, Mem(s), Now(s))
        BY <2>4 DEF IInv, Untouched
      <3>3. QED
        BY <3>1, <3>2 DEF Written, Now
    <2>5. QED
      BY <1>0, <1>1, <2>1, <2>3, <2>4 DEF Untouched, Now, Rest
  <1>10. Working'
    <2>1. ASSUME NEW s \in Runners, s # r, Live(s), Quiet(Job(s))
          PROVE  Progress(runner[s].pc, Mem(s), runner[s].at, file'[Job(s)])
      <3>1. Job(s) # Job(r) /\ Job(s) \in Jobs
        BY <1>4, <2>1 DEF IInv, Known
      <3>2. Progress(runner[s].pc, Mem(s), runner[s].at, Now(s))
        BY <2>1 DEF IInv, Working
      <3>3. QED
        BY <3>1, <3>2 DEF Written, Now
    <2>2. QED
      BY <1>0, <1>1, <2>1 DEF Working, Now, Rest, Quiet
  <1>11. Settled'
    BY <1>0, <1>2 DEF IInv, Settled, Written
  <1>12. ActiveJobHasRunner'
    <2>1. /\ \A j \in Jobs \ {Job(r)} : file'[j] = file[j]
          /\ file'[Job(r)].state \notin Active
      BY <1>0 DEF Written
    <2>2. \A j \in Jobs \ {Job(r)} : (\E s \in Runners : Live(s) /\ Job(s) = j)
                            => \E s \in Runners : Live(s)' /\ Job(s)' = j
      BY <1>0, <1>1
    <2>3. QED
      BY <1>0, <2>1, <2>2 DEF IInv, ActiveJobHasRunner, Rest
  <1>13. QED
    BY <1>5, <1>6, <1>7, <1>8, <1>9, <1>10, <1>11, <1>12 DEF IInv

(* A step that leaves the files alone. *)
LEMMA NothingWritten ==
    ASSUME TypeOK, NEW j \in Jobs, file' = file
    PROVE  Written(j, file[j])
  BY DEF Written, TypeOK

(* What a runner holds and sees. *)
LEMMA RunnerRecords ==
    ASSUME IInv, NEW r \in Runners, Live(r)
    PROVE  /\ Job(r) \in Jobs /\ Mem(r) \in Record /\ Now(r) \in Record
           /\ Now(r).state # "absent" /\ runner[r].at \in 0..(Items + 1)
           /\ TypeOK
           /\ Job(r) \notin asked => InStep(runner[r].pc, Mem(r), Now(r)) /\ ~Now(r).cancel
           /\ Quiet(Job(r)) => /\ Progress(runner[r].pc, Mem(r), runner[r].at, Now(r))
                               /\ Coherent(Now(r))
  <1>1. Job(r) \in Jobs /\ Exists(Job(r)) /\ TypeOK
    BY DEF IInv, Known
  <1>2. QED
    BY <1>1 DEF IInv, TypeOK, Execution, Untouched, Working, Settled, Mem, Now, Exists

(* A record that is active is coherent. *)
LEMMA ActiveIsCoherent ==
    ASSUME NEW rec, rec.state \in Active PROVE Coherent(rec)
  BY DEF Coherent, Active, Terminal

(* The first read: the job has ended, is to be cancelled, or goes on.      *)
LEMMA ReadStep ==
    ASSUME IInv, NEW r \in Runners, Read(r) PROVE IInv'
  <1>0. Live(r) /\ runner[r].pc = "start"
    BY DEF Read, Runs, Live
  <1>1. /\ Job(r) \in Jobs /\ Now(r) \in Record /\ Now(r).state # "absent" /\ TypeOK
        /\ Job(r) \notin asked => ~Now(r).cancel
        /\ Quiet(Job(r)) => Coherent(Now(r))
    BY <1>0, RunnerRecords
  <1>2. UNCHANGED Rest /\ Written(Job(r), Now(r))
    BY <1>1, NothingWritten DEF Read, Now
  <1>3. CASE Now(r).state \in Terminal /\ End(r)
    <2>1. Stopped(r)
      BY <1>1, <1>3, EndStops
    <2>2. QED
      BY <1>0, <1>1, <1>2, <1>3, <2>1, RunnerEnds
  <1>4. ASSUME NEW p \in {"cancel", "reset", "open"}, Now(r).state \in Active,
               p = "cancel" => Now(r).cancel, Become(r, p, Now(r), 0)
        PROVE  IInv'
    <2>1. Moved(r, p, Now(r), 0)
      BY <1>1, <1>4, BecomeMoves DEF Points
    <2>2. Progress(p, Now(r), 0, Now(r))
      BY <1>4 DEF Progress
    <2>3. Job(r) \notin asked => InStep(p, Now(r), Now(r)) /\ ~Now(r).cancel
      BY <1>1, <1>4 DEF InStep
    <2>4. p \in Points \ {"ended"} /\ p \notin {"mark", "call", "look"}
      BY <1>4 DEF Points
    <2>5. QED
      BY <1>0, <1>1, <1>2, <2>1, <2>2, <2>3, <2>4, RunnerGoesOn
  <1>5. QED
    BY <1>3, <1>4 DEF Read

(* A runner that saves a record and goes on. *)
LEMMA SavesAndMoves ==
    ASSUME TypeOK, NEW r \in Runners, Job(r) \in Jobs, NEW p \in Points, NEW rec \in Record,
           NEW now \in Record, NEW n, n \in 0..(Items + 1), Save(r, now), Become(r, p, rec, n)
    PROVE  Moved(r, p, rec, n) /\ Written(Job(r), now)
  <1>1. Moved(r, p, rec, n)
    BY BecomeMoves
  <1>2. Written(Job(r), now)
    BY SaveWrites DEF Save
  <1>3. QED
    BY <1>1, <1>2

(* A target cut off by a restart becomes pending again.                    *)
LEMMA ResetStep ==
    ASSUME IInv, NEW r \in Runners, Reset(r) PROVE IInv'
  <1> DEFINE mid == With(Mem(r), "running", "pending")
             rec == [mid EXCEPT !.state = "queued"]
  <1>0. Live(r) /\ runner[r].pc = "reset"
    BY DEF Reset, Runs, Live
  <1>1. /\ Job(r) \in Jobs /\ Mem(r) \in Record /\ TypeOK
        /\ Job(r) \notin asked => InStep("reset", Mem(r), Now(r)) /\ ~Now(r).cancel
    BY <1>0, RunnerRecords
  <1>2. mid \in Record /\ mid.cancel = Mem(r).cancel
    BY <1>1, RecordTargets DEF ItemState
  <1>3. Save(r, rec) /\ Become(r, "open", rec, 0) /\ UNCHANGED Rest
    BY DEF Reset
  <1> HIDE DEF mid
  <1>4. rec \in Record /\ rec.state = "queued" /\ rec.cancel = Mem(r).cancel
    BY <1>2, RecordStates DEF Active
  <1> HIDE DEF rec
  <1>5. Moved(r, "open", rec, 0) /\ Written(Job(r), rec)
    <2>1. "open" \in Points /\ 0 \in 0..(Items + 1)
      BY DEF Points
    <2>2. QED
      BY <1>1, <1>3, <1>4, <2>1, SavesAndMoves
  <1>6. Progress("open", rec, 0, rec) /\ Coherent(rec)
    BY <1>4, ActiveIsCoherent DEF Progress, Active
  <1>7. Job(r) \notin asked => InStep("open", rec, rec) /\ ~rec.cancel
    BY <1>1, <1>4 DEF InStep, Active, Holding
  <1>8. QED
    BY <1>0, <1>3, <1>4, <1>5, <1>6, <1>7, RunnerGoesOn DEF Points

(* The job is marked running.                                              *)
LEMMA OpenStep ==
    ASSUME IInv, NEW r \in Runners, Open(r) PROVE IInv'
  <1> DEFINE rec == [Mem(r) EXCEPT !.state = "running"]
  <1>0. Live(r) /\ runner[r].pc = "open"
    BY DEF Open, Runs, Live
  <1>1. /\ Job(r) \in Jobs /\ Mem(r) \in Record /\ TypeOK
        /\ Job(r) \notin asked => InStep("open", Mem(r), Now(r)) /\ ~Now(r).cancel
    BY <1>0, RunnerRecords
  <1>3. Save(r, rec) /\ Become(r, "look", rec, 1) /\ UNCHANGED Rest
    BY DEF Open
  <1>4. rec \in Record /\ rec.state = "running" /\ rec.cancel = Mem(r).cancel
    BY <1>1, RecordStates DEF Active
  <1> HIDE DEF rec
  <1>5. Moved(r, "look", rec, 1) /\ Written(Job(r), rec)
    <2>1. "look" \in Points /\ 1 \in 0..(Items + 1)
      BY DEF Points
    <2>2. QED
      BY <1>1, <1>3, <1>4, <2>1, SavesAndMoves
  <1>6. Progress("look", rec, 1, rec) /\ Coherent(rec)
    BY <1>4, ActiveIsCoherent DEF Progress, Active, Past
  <1>7. Job(r) \notin asked => InStep("look", rec, rec) /\ ~rec.cancel
    BY <1>1, <1>4 DEF InStep, Active, Holding
  <1>8. QED
    BY <1>0, <1>3, <1>4, <1>5, <1>6, <1>7, RunnerGoesOn DEF Points

(* The head of the loop moves on from a target that is not pending.        *)
LEMMA LookStep ==
    ASSUME IInv, NEW r \in Runners, Look(r) PROVE IInv'
  <1> DEFINE n == runner[r].at
  <1>0. Live(r) /\ runner[r].pc = "look"
    BY DEF Look, Runs, Live
  <1>1. /\ Job(r) \in Jobs /\ Now(r) \in Record /\ Now(r).state # "absent" /\ TypeOK
        /\ n \in 1..(Items + 1)
        /\ Job(r) \notin asked => Now(r).state \in Active /\ ~Now(r).cancel
        /\ Quiet(Job(r)) => /\ Now(r).cancel \/ (Past(Now(r), n) /\ Now(r).state \in Active)
                            /\ Coherent(Now(r))
    BY <1>0, RunnerRecords DEF InStep, Progress, IInv, Known
  <1>2. UNCHANGED Rest /\ Written(Job(r), Now(r))
    BY <1>1, NothingWritten DEF Look, Now
  <1>3. ASSUME NEW p \in {"cancel", "finish", "mark", "look"}, NEW m \in 1..(Items + 1),
               Become(r, p, Now(r), m),
               p = "cancel" => Now(r).cancel,
               p = "mark" => m \in 1..Items,
               Quiet(Job(r)) => Progress(p, Now(r), m, Now(r))
        PROVE  IInv'
    <2>1. Moved(r, p, Now(r), m)
      BY <1>1, <1>3, BecomeMoves DEF Points
    <2>2. Job(r) \notin asked => InStep(p, Now(r), Now(r)) /\ ~Now(r).cancel
      BY <1>1, <1>3 DEF InStep
    <2>3. p \in Points \ {"ended"} /\ p # "call"
      BY <1>3 DEF Points
    <2>4. QED
      BY <1>0, <1>1, <1>2, <1>3, <2>1, <2>2, <2>3, RunnerGoesOn
  <1>4. CASE Now(r).cancel /\ Become(r, "cancel", Now(r), n)
    <2>1. Progress("cancel", Now(r), n, Now(r))
      BY DEF Progress
    <2>2. QED
      BY <1>1, <1>3, <1>4, <2>1
  <1>5. CASE ~Now(r).cancel /\ n > Items /\ Become(r, "finish", Now(r), n)
    <2>1. Quiet(Job(r)) => Progress("finish", Now(r), n, Now(r))
      <3>1. n = Items + 1
        BY <1>1, <1>5
      <3>2. QED
        BY <1>1, <1>5, <3>1 DEF Progress
    <2>2. QED
      BY <1>1, <1>3, <1>5, <2>1
  <1>6. CASE ~Now(r).cancel /\ n <= Items /\ Now(r).item[n] = "pending"
             /\ Become(r, "mark", Now(r), n)
    <2>1. Quiet(Job(r)) => Progress("mark", Now(r), n, Now(r))
      BY <1>1, <1>6 DEF Progress
    <2>2. n \in 1..Items
      BY <1>1, <1>6
    <2>3. QED
      BY <1>1, <1>3, <1>6, <2>1, <2>2
  <1>7. CASE ~Now(r).cancel /\ n <= Items /\ Now(r).item[n] # "pending"
             /\ Become(r, "look", Now(r), n + 1)
    <2>1. n + 1 \in 1..(Items + 1)
      BY <1>1, <1>7
    <2>2. Past(Now(r), n) => Past(Now(r), n + 1)
      BY <1>1, <1>7 DEF Past
    <2>3. Quiet(Job(r)) => Progress("look", Now(r), n + 1, Now(r))
      BY <1>1, <1>7, <2>2 DEF Progress
    <2>4. QED
      BY <1>3, <1>7, <2>1, <2>3
  <1>8. QED
    BY <1>4, <1>5, <1>6, <1>7 DEF Look

(* A target is marked running.                                             *)
LEMMA MarkStep ==
    ASSUME IInv, NEW r \in Runners, Mark(r) PROVE IInv'
  <1> DEFINE n == runner[r].at
             rec == [Mem(r) EXCEPT !.item[n] = "running"]
  <1>0. Live(r) /\ runner[r].pc = "mark"
    BY DEF Mark, Runs, Live
  <1>1. /\ Job(r) \in Jobs /\ Mem(r) \in Record /\ TypeOK /\ n \in 1..Items
        /\ Job(r) \notin asked => Mem(r).state \in Active /\ ~Mem(r).cancel
        /\ Quiet(Job(r)) => Past(Mem(r), n) /\ Mem(r).state \in Active
    BY <1>0, RunnerRecords DEF InStep, Holding, Progress, IInv, Known
  <1>2. Mem(r).state # "absent"
    BY <1>0 DEF IInv, Known
  <1>3. Save(r, rec) /\ Become(r, "call", rec, n) /\ UNCHANGED Rest
    BY DEF Mark
  <1>4. /\ rec \in Record /\ rec.state = Mem(r).state /\ rec.cancel = Mem(r).cancel
        /\ \A i \in 1..Items : rec.item[i] = IF i = n THEN "running" ELSE Mem(r).item[i]
    BY <1>1, RecordTarget DEF ItemState
  <1> HIDE DEF rec
  <1>5. Moved(r, "call", rec, n) /\ Written(Job(r), rec)
    <2>1. "call" \in Points /\ n \in 0..(Items + 1)
      BY <1>1 DEF Points
    <2>2. QED
      BY <1>1, <1>3, <1>4, <2>1, SavesAndMoves
  <1>6. Quiet(Job(r)) => Progress("call", rec, n, rec) /\ Coherent(rec)
    BY <1>1, <1>4, ActiveIsCoherent DEF Progress, Past
  <1>7. Job(r) \notin asked => InStep("call", rec, rec) /\ ~rec.cancel
    BY <1>1, <1>4 DEF InStep
  <1>8. QED
    BY <1>0, <1>1, <1>2, <1>3, <1>4, <1>5, <1>6, <1>7, RunnerGoesOn DEF Points

(* The outcome of a model call is saved.                                   *)
LEMMA CallEndsStep ==
    ASSUME IInv, NEW r \in Runners, CallEnds(r) PROVE IInv'
  <1> DEFINE n == runner[r].at
  <1>0. Live(r) /\ runner[r].pc = "call"
    BY DEF CallEnds, Runs, Live
  <1>1. /\ Job(r) \in Jobs /\ Mem(r) \in Record /\ TypeOK /\ n \in 1..Items
        /\ Job(r) \notin asked => Mem(r).state \in Active /\ ~Mem(r).cancel
        /\ Quiet(Job(r)) => Past(Mem(r), n) /\ Mem(r).state \in Active
    BY <1>0, RunnerRecords DEF InStep, Holding, Progress, IInv, Known
  <1>2. Mem(r).state # "absent"
    BY <1>0 DEF IInv, Known
  <1>3. ASSUME NEW outcome \in {"succeeded", "failed"},
               Save(r, [Mem(r) EXCEPT !.item[n] = outcome]),
               Become(r, "look", Mem(r), n + 1), UNCHANGED Rest
        PROVE  IInv'
    <2> DEFINE rec == [Mem(r) EXCEPT !.item[n] = outcome]
    <2>1. /\ rec \in Record /\ rec.state = Mem(r).state /\ rec.cancel = Mem(r).cancel
          /\ \A i \in 1..Items : rec.item[i] = IF i = n THEN outcome ELSE Mem(r).item[i]
      <3>1. outcome \in ItemState
        BY <1>3 DEF ItemState
      <3>2. QED
        BY <1>1, <3>1, RecordTarget
    <2>2. Save(r, rec)
      BY <1>3
    <2> HIDE DEF rec
    <2>3. Moved(r, "look", Mem(r), n + 1) /\ Written(Job(r), rec)
      <3>1. "look" \in Points /\ n + 1 \in 0..(Items + 1)
        BY <1>1 DEF Points
      <3>2. QED
        BY <1>1, <1>3, <2>1, <2>2, <3>1, SavesAndMoves
    <2>4. Past(Mem(r), n) => Past(rec, n + 1)
      BY <1>1, <1>3, <2>1 DEF Past
    <2>5. Quiet(Job(r)) => Progress("look", Mem(r), n + 1, rec) /\ Coherent(rec)
      BY <1>1, <2>1, <2>4, ActiveIsCoherent DEF Progress
    <2>6. Job(r) \notin asked => InStep("look", Mem(r), rec) /\ ~rec.cancel
      BY <1>1, <2>1 DEF InStep, Holding
    <2>7. n + 1 \in 1..(Items + 1) /\ "look" \in Points \ {"ended"}
      BY <1>1 DEF Points
    <2>8. QED
      BY <1>0, <1>1, <1>2, <1>3, <2>1, <2>3, <2>5, <2>6, <2>7, RunnerGoesOn
  <1>4. QED
    BY <1>3 DEF CallEnds

(* The verdict is saved.                                                   *)
LEMMA FinishStep ==
    ASSUME IInv, NEW r \in Runners, Finish(r) PROVE IInv'
  <1> DEFINE rec == [Mem(r) EXCEPT !.state = Verdict(Mem(r))]
  <1>0. Live(r) /\ runner[r].pc = "finish"
    BY DEF Finish, Runs, Live
  <1>1. /\ Job(r) \in Jobs /\ Mem(r) \in Record /\ TypeOK
        /\ Job(r) \notin asked => ~Mem(r).cancel
        /\ Quiet(Job(r)) => Past(Mem(r), Items + 1)
    BY <1>0, RunnerRecords DEF InStep, Holding, Progress
  <1>2. Save(r, rec) /\ End(r) /\ UNCHANGED Rest
    BY DEF Finish
  <1>3. /\ rec \in Record /\ rec.state \in Terminal /\ rec.cancel = Mem(r).cancel
        /\ Quiet(Job(r)) => Coherent(rec)
    <2>1. Verdict(Mem(r)) \in Terminal
      BY DEF Verdict, Terminal
    <2>2. rec \in Record /\ rec.state \in Terminal /\ rec.cancel = Mem(r).cancel
      BY <1>1, <2>1, RecordStates
    <2>3. QED
      BY <1>1, <2>2, VerdictFits
  <1> HIDE DEF rec
  <1>4. Stopped(r) /\ Written(Job(r), rec)
    BY <1>1, <1>2, <1>3, EndStops, SaveWrites DEF Save
  <1>5. QED
    BY <1>0, <1>1, <1>2, <1>3, <1>4, RunnerEnds

(* A cancellation is carried out by the runner.                            *)
LEMMA CancelledStep ==
    ASSUME IInv, NEW r \in Runners, Cancelled(r) PROVE IInv'
  <1> DEFINE rec == CancelRemaining(Mem(r))
  <1>0. Live(r) /\ runner[r].pc = "cancel"
    BY DEF Cancelled, Runs, Live
  <1>1. Job(r) \in Jobs /\ Mem(r) \in Record /\ TypeOK /\ Job(r) \in asked
    BY <1>0, RunnerRecords DEF InStep
  <1>2. Save(r, rec) /\ End(r) /\ UNCHANGED Rest
    BY DEF Cancelled
  <1>3. rec \in Record /\ rec.state \in Terminal /\ Coherent(rec)
    BY <1>1, RemainingCancelled DEF Terminal
  <1> HIDE DEF rec
  <1>4. Stopped(r) /\ Written(Job(r), rec)
    BY <1>1, <1>2, <1>3, EndStops, SaveWrites DEF Save
  <1>5. QED
    BY <1>0, <1>1, <1>2, <1>3, <1>4, RunnerEnds

-----------------------------------------------------------------------------
(* The API handlers. *)

(* A background task begins on a queued job that nobody works on. *)
LEMMA TaskBegins ==
    ASSUME IInv, ~resume.list, UNCHANGED <<up, resume, asked, used>>,
           NEW r \in Runners, NEW j \in Jobs, NEW rec,
           Started(r, j), Written(j, rec), rec.state = "queued", ~rec.cancel,
           handler' \in {handler, NoCall}, handler'.op = "none",
           Quiet(j) => j \notin resume.todo /\ \A s \in Runners : Live(s) => Job(s) # j
    PROVE  IInv'
  <1>0. /\ ~Live(r) /\ Live(r)' /\ Job(r)' = j /\ runner'[r].pc = "start"
        /\ rec.state \in Active /\ rec.state # "absent" /\ up
        /\ Coherent(rec)
    BY ActiveIsCoherent DEF Started, Live, Job, Active, IInv, Booting
  <1>1. \A s \in Runners \ {r} : /\ Live(s)' = Live(s) /\ Job(s)' = Job(s) /\ Mem(s)' = Mem(s)
                                 /\ runner'[s] = runner[s]
    BY DEF Started, Live, Job, Mem
  <1>2. \A k \in Jobs : Quiet(k)' = Quiet(k)
    BY DEF Quiet
  <1>3. /\ \A k \in Jobs : Exists(k) => Exists(k)'
        /\ Exists(j)'
    BY <1>0 DEF Written, Exists
  <1>5. TypeOK'
    BY NothingIsARecord DEF IInv, TypeOK, Started, Written, NoCall
  <1>6. Booting'
    BY DEF IInv, Booting
  <1>7. Known'
    <2>1. \A s \in Runners : /\ Live(s)' => Job(s)' \in Jobs /\ Exists(Job(s))'
                             /\ runner'[s].pc \in {"mark", "call"} =>
                                   runner'[s].at \in 1..Items /\ runner'[s].mem.state # "absent"
                             /\ runner'[s].pc = "look" => runner'[s].at \in 1..(Items + 1)
      <3>1. ASSUME NEW s \in Runners, s # r, Live(s)
            PROVE  Job(s)' \in Jobs /\ Exists(Job(s))'
        BY <1>1, <1>3, <3>1 DEF IInv, Known
      <3>2. Job(r)' \in Jobs /\ Exists(Job(r))'
        BY <1>0, <1>3 DEF Exists
      <3>3. QED
        BY <1>0, <1>1, <3>1, <3>2 DEF IInv, Known, Mem
    <2>2. \A k \in Jobs : ~Exists(k)' => file'[k] = NoRecord
      BY <1>0, <1>3 DEF IInv, Known, Written, Exists
    <2>3. \A k \in resume.todo : Exists(k)'
      BY <1>3 DEF IInv, Known, TypeOK
    <2>4. QED
      BY <2>1, <2>2, <2>3 DEF Known, Mem
  <1>8. Sole'
    <2>1. \A s \in Runners : Live(s)' /\ Job(s)' = j /\ Quiet(j) => s = r
      BY <1>0, <1>1
    <2>2. QED
      BY <1>0, <1>1, <2>1 DEF IInv, Sole, Quiet
  <1>9. Untouched'
    <2>1. \A k \in Jobs \ asked : ~file'[k].cancel
      BY <1>0 DEF IInv, Untouched, Written
    <2>2. \A k \in resume.todo \ asked : file'[k].state \in Active
      BY <1>0 DEF IInv, Untouched, Written, TypeOK
    <2>3. ASSUME NEW s \in Runners, s # r, Live(s), Job(s) \notin asked
          PROVE  InStep(runner[s].pc, Mem(s), file'[Job(s)])
      <3>1. Job(s) # j /\ Job(s) \in Jobs
        BY <2>3 DEF Quiet, IInv, Known
      <3>2. InStep(runner[s].pc, Mem(s), Now(s))
        BY <2>3 DEF IInv, Untouched
      <3>3. QED
        BY <3>1, <3>2 DEF Written, Now
    <2>4. InStep("start", Mem(r)', rec)
      BY <1>0 DEF InStep, Holding
    <2>5. \A s \in Runners : Live(s)' /\ Job(s)' \notin asked =>
             InStep(runner'[s].pc, Mem(s)', file'[Job(s)'])
      BY <1>0, <1>1, <2>3, <2>4 DEF Written
    <2>6. QED
      BY <2>1, <2>2, <2>5 DEF Untouched, Now
  <1>10. Working'
    <2>1. ASSUME NEW s \in Runners, s # r, Live(s), Quiet(Job(s))
          PROVE  Progress(runner[s].pc, Mem(s), runner[s].at, file'[Job(s)])
      <3>1. Job(s) # j /\ Job(s) \in Jobs
        BY <2>1 DEF IInv, Known
      <3>2. Progress(runner[s].pc, Mem(s), runner[s].at, Now(s))
        BY <2>1 DEF IInv, Working
      <3>3. QED
        BY <3>1, <3>2 DEF Written, Now
    <2>2. Progress("start", Mem(r)', runner'[r].at, rec)
      BY DEF Progress
    <2>3. \A s \in Runners : Live(s)' /\ Quiet(Job(s)') =>
             Progress(runner'[s].pc, Mem(s)', runner'[s].at, file'[Job(s)'])
      BY <1>0, <1>1, <2>1, <2>2 DEF Written
    <2>4. QED
      BY <2>3 DEF Working, Now, Quiet
  <1>11. Settled'
    BY <1>0, <1>2 DEF IInv, Settled, Written
  <1>12. ActiveJobHasRunner'
    <2>1. \A k \in Jobs \ {j} : file'[k] = file[k]
      BY DEF Written
    <2>2. \A k \in Jobs : (\E s \in Runners : Live(s) /\ Job(s) = k)
                            => \E s \in Runners : Live(s)' /\ Job(s)' = k
      BY <1>0, <1>1
    <2>3. QED
      BY <1>0, <2>1, <2>2 DEF IInv, ActiveJobHasRunner
  <1>13. QED
    BY <1>5, <1>6, <1>7, <1>8, <1>9, <1>10, <1>11, <1>12 DEF IInv

(* Where StartTask puts the task. *)
LEMMA TaskIsStarted ==
    ASSUME TypeOK, NEW j \in Jobs, StartTask(j)
    PROVE  \E r \in Runners : Started(r, j)
  BY TaskStarts DEF StartTask, Free

(* A created job gets the only runner it has.                              *)
LEMMA CreateStep ==
    ASSUME ~EarlyRequests, IInv, NEW j \in Jobs, Create(j) PROVE IInv'
  <1> DEFINE rec == [NoRecord EXCEPT !.state = "queued"]
  <1>1. ~resume.list /\ ~Exists(j) /\ UNCHANGED <<up, resume, asked, used, handler>>
        /\ handler.op = "none" /\ TypeOK
    BY DEF Create, Serving, IInv
  <1>2. rec \in Record /\ rec.state = "queued" /\ ~rec.cancel
    BY NothingIsARecord, RecordStates DEF Active
  <1>3. file' = [file EXCEPT ![j] = rec]
    BY DEF Create
  <1> HIDE DEF rec
  <1>4. Written(j, rec)
    BY <1>1, <1>2, <1>3, SaveWrites
  <1>5. PICK r \in Runners : Started(r, j)
    BY <1>1, TaskIsStarted DEF Create
  <1>6. j \notin resume.todo /\ \A s \in Runners : Live(s) => Job(s) # j
    BY <1>1 DEF IInv, Known
  <1>7. QED
    BY <1>1, <1>2, <1>4, <1>5, <1>6, TaskBegins

(* A job is retried after its runner has stopped.                          *)
LEMMA RetrySavesStep ==
    ASSUME IInv, RetrySaves PROVE IInv'
  <1> DEFINE j == handler.job
             old == handler.mem.item
  <1>1. /\ handler.op = "retry" /\ handler' = NoCall /\ NoCall.op = "none"
        /\ UNCHANGED <<up, resume, asked, used>> /\ TypeOK
    BY DEF RetrySaves, NoCall, IInv
  <1>2. /\ j \in Jobs /\ ~resume.list /\ used.retries > 0
        /\ Quiet(j) => j \notin asked /\ file[j].state \in Terminal
    BY <1>1 DEF IInv, Known, Booting, Quiet
  <1>3. PICK chosen \in SUBSET (1..Items) :
           file' = [file EXCEPT ![j] =
              [state |-> "queued", cancel |-> FALSE,
               item |-> [i \in 1..Items |-> IF i \in chosen THEN "pending" ELSE old[i]]]]
    BY DEF RetrySaves
  <1> DEFINE rec == [state |-> "queued", cancel |-> FALSE,
                     item |-> [i \in 1..Items |-> IF i \in chosen THEN "pending" ELSE old[i]]]
  <1>4. rec \in Record /\ rec.state = "queued" /\ ~rec.cancel
    BY <1>1 DEF TypeOK, Record, Active, ItemState
  <1> HIDE DEF rec
  <1>5. file' = [file EXCEPT ![j] = rec]
    BY <1>3 DEF rec
  <1> HIDE DEF j
  <1>6. Written(j, rec)
    BY <1>1, <1>2, <1>4, <1>5, SaveWrites
  <1>7. PICK r \in Runners : Started(r, j)
    BY <1>1, <1>2, TaskIsStarted DEF RetrySaves, j
  <1>8. Quiet(j) => j \notin resume.todo /\ \A s \in Runners : Live(s) => Job(s) # j
    BY <1>2 DEF IInv, Untouched, InStep, Now, Active, Terminal
  <1>9. QED
    BY <1>1, <1>2, <1>4, <1>6, <1>7, <1>8, TaskBegins

(* A handler that reads has written nothing yet. *)
LEMMA HandlerReads ==
    ASSUME ~EarlyRequests, IInv, NEW j \in Jobs, CancelReads(j) \/ RetryReads(j)
    PROVE  IInv'
  <1>1. /\ UNCHANGED <<up, file, runner, resume, asked>> /\ up /\ ~resume.list /\ TypeOK
        /\ handler'.job = j /\ handler'.mem = file[j]
        /\ \/ handler'.op = "cancel" /\ file[j].state \in Active /\ used'.retries = used.retries
           \/ handler'.op = "retry" /\ file[j].state \in Terminal
              /\ used'.retries = used.retries + 1
    BY DEF CancelReads, RetryReads, Serving, IInv, TypeOK
  <1>2. used.retries \in Nat
    BY <1>1 DEF TypeOK
  <1>3. \A k \in Jobs : Quiet(k)' => Quiet(k)
    BY <1>1, <1>2 DEF Quiet
  <1>4. TypeOK'
    <2>1. handler' \in [op : {"none", "cancel", "retry"}, job : Jobs \cup {NoJob}, mem : Record]
      BY <1>1 DEF CancelReads, RetryReads, TypeOK
    <2>2. used' \in [cancels : 0..MaxCancels, retries : 0..MaxRetries, crashes : 0..MaxCrashes]
      BY <1>1 DEF CancelReads, RetryReads, TypeOK
    <2>3. QED
      BY <1>1, <2>1, <2>2 DEF TypeOK
  <1>5. Booting'
    BY <1>1 DEF IInv, Booting
  <1>6. Known'
    <2>1. Exists(j)
      BY <1>1 DEF Exists, Active, Terminal
    <2>2. used'.retries > 0 \/ handler'.op = "cancel"
      BY <1>1, <1>2
    <2>3. QED
      BY <1>1, <2>1, <2>2 DEF IInv, Known, Live, Job, Mem, Exists
  <1>7. Sole'
    BY <1>1, <1>3 DEF IInv, Sole, Live, Job, Known
  <1>8. Untouched'
    BY <1>1 DEF IInv, Untouched, Live, Job, Mem, Now
  <1>9. Working'
    BY <1>1, <1>3 DEF IInv, Working, Live, Job, Mem, Now, Known
  <1>10. Settled'
    BY <1>1, <1>3 DEF IInv, Settled
  <1>11. ActiveJobHasRunner'
    BY <1>1 DEF IInv, ActiveJobHasRunner, Live, Job
  <1>12. QED
    BY <1>4, <1>5, <1>6, <1>7, <1>8, <1>9, <1>10, <1>11 DEF IInv

(* A runner that will find its job marked is where it should be. *)
LEMMA MarkedIsProgress ==
    ASSUME NEW p, NEW rec, NEW n, NEW now, NEW new, Progress(p, rec, n, now), new.cancel
    PROVE  Progress(p, rec, n, new)
  <1>1. /\ p \in {"mark", "call"} => Past(rec, n) /\ rec.state \in Active
        /\ p = "mark" => rec.item[n] = "pending"
        /\ p = "call" => rec.item[n] = "running"
        /\ p = "finish" => Past(rec, Items + 1)
    BY DEF Progress
  <1>2. p = "look" => new.cancel \/ (Past(new, n) /\ new.state \in Active)
    OBVIOUS
  <1>3. QED
    BY <1>1, <1>2 DEF Progress

(* A cancellation is written behind the back of a runner, with what was    *)
(* read of the job before.                                                 *)
LEMMA CancelSavesStep ==
    ASSUME IInv, CancelSaves PROVE IInv'
  <1> DEFINE j == handler.job
             marked == [handler.mem EXCEPT !.cancel = TRUE]
             rec == IF marked.state = "queued" THEN CancelRemaining(marked) ELSE marked
  <1>1. /\ handler.op = "cancel" /\ handler' = NoCall /\ NoCall.op = "none" /\ TypeOK
        /\ UNCHANGED <<up, runner, resume, used>> /\ asked' = asked \cup {j}
        /\ file' = [file EXCEPT ![j] = rec]
    BY DEF CancelSaves, NoCall, IInv
  <1>2. /\ j \in Jobs /\ handler.mem.state \in Active /\ handler.mem \in Record
        /\ ~resume.list
    BY <1>1 DEF IInv, Known, TypeOK, Booting
  <1>3. marked \in Record /\ marked.cancel /\ marked.state \in Active
    BY <1>2 DEF Record
  <1> HIDE DEF marked
  <1>4. rec \in Record /\ rec.cancel /\ rec.state # "absent" /\ Coherent(rec)
    BY <1>3, RemainingCancelled, ActiveIsCoherent DEF Active
  <1> HIDE DEF rec
  <1>5. Written(j, rec)
    BY <1>1, <1>2, <1>4, SaveWrites
  <1>6. \A k \in Jobs : Quiet(k)' => Quiet(k)
    BY <1>1 DEF Quiet
  <1>7. \A k \in Jobs : Exists(k) => Exists(k)'
    BY <1>4, <1>5 DEF Written, Exists
  <1> HIDE DEF j
  <1>8. \A s \in Runners : Live(s)' = Live(s) /\ Job(s)' = Job(s) /\ Mem(s)' = Mem(s)
    BY <1>1 DEF Live, Job, Mem
  <1>9. TypeOK'
    BY <1>1, <1>2, <1>5, NothingIsARecord DEF TypeOK, Written, NoCall
  <1>10. Booting'
    BY <1>1, <1>8 DEF IInv, Booting
  <1>11. Known'
    <2>1. \A s \in Runners : Live(s) => Exists(Job(s))'
      BY <1>7, <1>8 DEF IInv, Known
    <2>2. \A k \in Jobs : ~Exists(k)' => file'[k] = NoRecord
      BY <1>4, <1>5, <1>7 DEF IInv, Known, Written, Exists
    <2>3. \A k \in resume.todo : Exists(k)'
      BY <1>7 DEF IInv, Known, TypeOK
    <2>4. QED
      BY <1>1, <1>8, <2>1, <2>2, <2>3 DEF IInv, Known
  <1>12. Sole'
    BY <1>1, <1>6, <1>8 DEF IInv, Sole, Known
  <1>13. Untouched'
    <2>1. \A k \in Jobs \ asked' : k # j /\ k \notin asked /\ file'[k] = file[k]
      BY <1>1, <1>5 DEF Written
    <2>2. \A s \in Runners : Live(s) => Job(s) \in Jobs
      BY DEF IInv, Known
    <2>3. resume.todo \subseteq Jobs
      BY <1>1 DEF TypeOK
    <2>4. QED
      BY <1>1, <1>8, <2>1, <2>2, <2>3 DEF IInv, Untouched, Now
  <1>14. Working'
    <2>1. ASSUME NEW s \in Runners, Live(s), Quiet(Job(s))'
          PROVE  Progress(runner[s].pc, Mem(s), runner[s].at, file'[Job(s)])
      <3>1. Job(s) \in Jobs
        BY <2>1 DEF IInv, Known
      <3>2. Quiet(Job(s))
        BY <1>6, <1>8, <2>1, <3>1
      <3>3. Progress(runner[s].pc, Mem(s), runner[s].at, Now(s))
        BY <2>1, <3>2 DEF IInv, Working
      <3>4. file'[Job(s)] = Now(s) \/ file'[Job(s)].cancel
        BY <1>4, <1>5, <3>1 DEF Written, Now
      <3>5. CASE file'[Job(s)] = Now(s)
        BY <3>3, <3>5
      <3>6. CASE file'[Job(s)].cancel
        BY <3>3, <3>6, MarkedIsProgress
      <3>7. QED
        BY <3>4, <3>5, <3>6
    <2>2. QED
      BY <1>1, <1>8, <2>1 DEF Working, Now
  <1>15. Settled'
    BY <1>4, <1>5, <1>6 DEF IInv, Settled, Written
  <1>16. ActiveJobHasRunner'
    BY <1>1, <1>5, <1>8 DEF IInv, ActiveJobHasRunner, Written
  <1>17. QED
    BY <1>9, <1>10, <1>11, <1>12, <1>13, <1>14, <1>15, <1>16 DEF IInv

-----------------------------------------------------------------------------
(* Crash and restart. *)

(* A crash stops every runner, and startup has the jobs to list.           *)
LEMMA CrashStep ==
    ASSUME IInv, Crash PROVE IInv'
  <1>1. /\ TypeOK /\ UNCHANGED <<file, asked>> /\ up' = FALSE /\ handler' = NoCall
        /\ resume' = [list |-> TRUE, todo |-> {}] /\ used'.retries = used.retries
        /\ runner' = [r \in Runners |-> Ended]
        /\ used' \in [cancels : 0..MaxCancels, retries : 0..MaxRetries, crashes : 0..MaxCrashes]
    BY DEF Crash, IInv, TypeOK
  <1>2. \A r \in Runners : ~Live(r)' /\ runner'[r].pc = "ended"
    BY <1>1 DEF Live, Ended
  <1>3. Ended \in Execution
    BY NothingIsARecord DEF Ended, Execution, Points
  <1>4. TypeOK'
    BY <1>1, <1>3, NothingIsARecord DEF TypeOK, NoCall
  <1>5. Booting' /\ Sole' /\ Working'
    BY <1>1, <1>2 DEF Booting, Sole, Working, NoCall
  <1>6. Known' /\ Untouched'
    BY <1>1, <1>2 DEF IInv, Known, Untouched, NoCall, Exists
  <1>7. Settled' /\ ActiveJobHasRunner'
    BY <1>1 DEF IInv, Settled, ActiveJobHasRunner, Quiet
  <1>8. QED
    BY <1>4, <1>5, <1>6, <1>7 DEF IInv

(* The platform starts again.                                              *)
LEMMA BootStep ==
    ASSUME IInv, Boot PROVE IInv'
  <1>1. UNCHANGED <<file, runner, handler, resume, asked, used>> /\ up' = TRUE /\ resume.list
    BY DEF Boot, IInv, Booting
  <1> USE DEF Live, Job, Mem, Now, Exists, Quiet
  <1>2. TypeOK' /\ Booting' /\ Known' /\ Sole'
    BY <1>1 DEF IInv, TypeOK, Booting, Known, Sole
  <1>3. Untouched' /\ Working' /\ Settled' /\ ActiveJobHasRunner'
    BY <1>1 DEF IInv, Untouched, Working, Settled, ActiveJobHasRunner
  <1>4. QED
    BY <1>2, <1>3 DEF IInv

(* Startup lists the jobs while nobody works on them.                      *)
LEMMA ListStep ==
    ASSUME IInv, List PROVE IInv'
  <1>1. /\ UNCHANGED <<up, file, runner, handler, asked, used>> /\ up
        /\ resume' = [list |-> FALSE, todo |-> {j \in Jobs : file[j].state \in Active}]
        /\ \A r \in Runners : ~Live(r)
    BY DEF List, IInv, Booting
  <1> USE DEF Live, Job, Mem, Now, Exists, Quiet
  <1>2. TypeOK' /\ Booting' /\ Sole'
    BY <1>1 DEF IInv, TypeOK, Booting, Sole
  <1>3. Known' /\ Untouched'
    BY <1>1 DEF IInv, Known, Untouched, Active
  <1>4. Working' /\ Settled' /\ ActiveJobHasRunner'
    BY <1>1 DEF IInv, Working, Settled, ActiveJobHasRunner
  <1>5. QED
    BY <1>2, <1>3, <1>4 DEF IInv

(* Startup runs a job that nobody works on.                                *)
LEMMA ResumeNextStep ==
    ASSUME IInv, NEW j \in Jobs, ResumeNext(j) PROVE IInv'
  <1>1. /\ UNCHANGED <<up, file, handler, asked, used>> /\ up /\ j \in resume.todo
        /\ resume'.list = resume.list /\ resume'.todo = resume.todo \ {j}
        /\ resume' \in [list : BOOLEAN, todo : SUBSET Jobs] /\ TypeOK /\ ~resume.list
        /\ 0 \in Runners /\ ~Live(0)
    BY DEF ResumeNext, IInv, TypeOK, Booting, Runners
  <1>2. Started(0, j)
    BY <1>1, TaskStarts DEF ResumeNext
  <1>3. /\ Live(0)' /\ Job(0)' = j /\ runner'[0].pc = "start"
        /\ \A s \in Runners \ {0} : /\ Live(s)' = Live(s) /\ Job(s)' = Job(s)
                                    /\ Mem(s)' = Mem(s) /\ runner'[s] = runner[s]
    BY <1>2 DEF Started, Live, Job, Mem
  <1>4. \A k \in Jobs : Quiet(k)' = Quiet(k) /\ Exists(k)' = Exists(k)
    BY <1>1 DEF Quiet, Exists
  <1>5. TypeOK' /\ Booting'
    BY <1>1, <1>2 DEF IInv, TypeOK, Booting, Started
  <1>6. Known'
    <2>1. Exists(j)
      BY <1>1 DEF IInv, Known
    <2>2. \A s \in Runners : Live(s)' => Job(s)' \in Jobs /\ Exists(Job(s)')
      BY <1>1, <1>3, <2>1 DEF IInv, Known
    <2>3. \A s \in Runners :
             /\ runner'[s].pc \in {"mark", "call"} =>
                   runner'[s].at \in 1..Items /\ runner'[s].mem.state # "absent"
             /\ runner'[s].pc = "look" => runner'[s].at \in 1..(Items + 1)
      BY <1>3 DEF IInv, Known, Mem
    <2>4. QED
      BY <1>1, <2>2, <2>3 DEF IInv, Known, Exists, Mem
  <1>7. Sole'
    <2>1. \A s \in Runners \ {0} : Live(s) /\ Quiet(Job(s)) => Job(s) # j
      BY <1>1 DEF IInv, Sole
    <2>2. QED
      BY <1>1, <1>3, <2>1 DEF IInv, Sole, Quiet
  <1>8. Untouched'
    <2>1. j \notin asked => InStep("start", Mem(0)', file[j])
      BY <1>1 DEF IInv, Untouched, InStep, Holding
    <2>2. \A s \in Runners : Live(s)' /\ Job(s)' \notin asked =>
             InStep(runner'[s].pc, Mem(s)', file[Job(s)'])
      BY <1>3, <2>1 DEF IInv, Untouched, Now
    <2>3. QED
      BY <1>1, <2>2 DEF IInv, Untouched, Now
  <1>9. Working'
    <2>1. Progress("start", Mem(0)', runner'[0].at, file[j])
      BY DEF Progress
    <2>2. \A s \in Runners : Live(s)' /\ Quiet(Job(s)') =>
             Progress(runner'[s].pc, Mem(s)', runner'[s].at, file[Job(s)'])
      BY <1>3, <2>1 DEF IInv, Working, Now
    <2>3. QED
      BY <1>1, <2>2 DEF Working, Now, Quiet
  <1>10. Settled'
    BY <1>1, <1>4 DEF IInv, Settled
  <1>11. ActiveJobHasRunner'
    BY <1>1, <1>3 DEF IInv, ActiveJobHasRunner
  <1>12. QED
    BY <1>5, <1>6, <1>7, <1>8, <1>9, <1>10, <1>11 DEF IInv

-----------------------------------------------------------------------------
(* The theorems. *)

(* The invariant holds at first.                                           *)
LEMMA InitInv == Init => IInv
  <1> SUFFICES ASSUME Init PROVE IInv
    OBVIOUS
  <1>1. Ended \in Execution /\ \A r \in Runners : ~Live(r) /\ runner[r].pc = "ended"
    BY NothingIsARecord DEF Init, Ended, Execution, Points, Live
  <1>2. TypeOK
    <2>1. NoCall \in [op : {"none", "cancel", "retry"}, job : Jobs \cup {NoJob}, mem : Record]
      BY NothingIsARecord DEF NoCall
    <2>2. used \in [cancels : 0..MaxCancels, retries : 0..MaxRetries, crashes : 0..MaxCrashes]
      BY DEF Init
    <2>3. file \in [Jobs -> Record] /\ runner \in [Runners -> Execution]
      BY <1>1, NothingIsARecord DEF Init
    <2>4. QED
      BY <2>1, <2>2, <2>3 DEF Init, TypeOK
  <1>3. Booting /\ Known /\ Sole /\ Untouched /\ Working
    BY <1>1, NothingIsARecord
    DEF Init, Booting, Known, Sole, Untouched, Working, NoCall
  <1>4. Settled /\ ActiveJobHasRunner
    BY NothingIsARecord DEF Init, Settled, ActiveJobHasRunner, Active
  <1>5. QED
    BY <1>2, <1>3, <1>4 DEF IInv

(* Every step keeps the invariant, one case per action. *)
LEMMA NextInv ==
    ASSUME ~EarlyRequests, IInv, [Next]_vars PROVE IInv'
  <1>1. CASE UNCHANGED vars
    <2>1. TypeOK' /\ Booting' /\ Known' /\ Sole'
      BY <1>1 DEF vars, IInv, TypeOK, Booting, Known, Sole, Live, Job, Mem, Now, Exists, Quiet
    <2>2. Untouched' /\ Working' /\ Settled' /\ ActiveJobHasRunner'
      BY <1>1 DEF vars, IInv, Untouched, Working, Settled, ActiveJobHasRunner,
                  Live, Job, Mem, Now, Exists, Quiet
    <2>3. QED
      BY <2>1, <2>2 DEF IInv
  <1>2. ASSUME NEW r \in Runners, Run(r) PROVE IInv'
    BY <1>2, ReadStep, ResetStep, OpenStep, LookStep, MarkStep, CallEndsStep, FinishStep,
       CancelledStep DEF Run
  <1>3. QED
    BY <1>1, <1>2, CreateStep, HandlerReads, CancelSavesStep, RetrySavesStep, CrashStep,
       BootStep, ListStep, ResumeNextStep DEF Next, Startup

(* The invariant on which all theorems about generation jobs rest. *)
THEOREM Inductive == ASSUME ~EarlyRequests PROVE Spec => []IInv
  <1>1. IInv /\ [Next]_vars => IInv'
    BY NextInv
  <1>2. QED
    BY <1>1, InitInv, PTL DEF Spec

(* The records of the jobs, of their runners and of the handler keep their *)
(* types.                                                                  *)
THEOREM TypesAreKept == ASSUME ~EarlyRequests PROVE Spec => []TypeOK
  <1>1. IInv => TypeOK
    BY DEF IInv
  <1>2. QED
    BY <1>1, Inductive, PTL

(* No job has two runners, across retries, crashes and resumptions, unless *)
(* it was cancelled.                                                       *)
THEOREM RunnersAreSole == ASSUME ~EarlyRequests PROVE Spec => []OneRunnerPerJob
  <1>1. IInv => OneRunnerPerJob
    BY DEF IInv, Sole, Quiet, OneRunnerPerJob
  <1>2. QED
    BY <1>1, Inductive, PTL

(* An active job always has somebody who will end it, unless it was        *)
(* cancelled.                                                              *)
THEOREM ActiveJobsAreTended == ASSUME ~EarlyRequests PROVE Spec => []ActiveJobHasRunner
  <1>1. IInv => ActiveJobHasRunner
    BY DEF IInv
  <1>2. QED
    BY <1>1, Inductive, PTL

(* A settled record leaves no target pending, and its verdict fits the     *)
(* targets, even if a cancellation was written behind its runner's back.   *)
THEOREM VerdictsAreCoherent == ASSUME ~EarlyRequests PROVE Spec => []SettledRecordIsCoherent
  <1>1. IInv => SettledRecordIsCoherent
    BY DEF IInv, Settled, Coherent, Quiet, SettledRecordIsCoherent
  <1>2. QED
    BY <1>1, Inductive, PTL

(* No step of a job that was not cancelled loses a target that succeeded:  *)
(* what a runner or a retry saves is what the file held, changed in other  *)
(* targets only.                                                           *)
THEOREM SuccessIsNotRepeated == ASSUME ~EarlyRequests PROVE Spec => SucceededIsKept
  <1> DEFINE Keeps == \A j \in Jobs \ asked', i \in 1..Items :
                         file[j].item[i] = "succeeded" => file'[j].item[i] = "succeeded"
             KeepsItems(j, rec) == \A i \in 1..Items :
                         file[j].item[i] = "succeeded" => rec.item[i] = "succeeded"
  <1>1. ASSUME IInv, [Next]_vars PROVE Keeps
    <2>0. TypeOK /\ asked \subseteq asked'
      BY <1>1 DEF IInv, Next, vars, Create, CancelReads, RetryReads, CancelSaves, RetrySaves,
         Run, Read, Reset, Open, Look, Mark, CallEnds, Finish, Cancelled, Rest, Startup,
         Boot, List, ResumeNext, Crash
    <2>1. CASE file' = file
      BY <2>1
    <2>2. ASSUME NEW j \in Jobs, NEW rec \in Record, file' = [file EXCEPT ![j] = rec],
                 j \notin asked => KeepsItems(j, rec)
          PROVE  Keeps
      BY <2>0, <2>2 DEF TypeOK
    <2>3. ASSUME NEW j \in Jobs, Create(j) PROVE Keeps
      <3>1. file[j] = NoRecord /\ \A i \in 1..Items : NoRecord.item[i] = "pending"
        BY <1>1, <2>3 DEF Create, IInv, Known, NoRecord, AllItems
      <3>2. [NoRecord EXCEPT !.state = "queued"] \in Record
        BY NothingIsARecord, RecordStates DEF Active
      <3>3. file' = [file EXCEPT ![j] = [NoRecord EXCEPT !.state = "queued"]]
        BY <2>3 DEF Create
      <3>4. QED
        BY <2>2, <3>1, <3>2, <3>3
    <2>4. CASE CancelSaves
      <3>1. /\ handler.job \in Jobs /\ handler.job \in asked'
            /\ \A k \in Jobs \ {handler.job} : file'[k] = file[k]
        BY <1>1, <2>0, <2>4 DEF CancelSaves, IInv, Known, TypeOK
      <3>2. QED
        BY <3>1
    <2>5. CASE RetrySaves
      <3>1. /\ handler.job \in Jobs
            /\ handler.job \notin asked => file[handler.job] = handler.mem
        BY <1>1, <2>5 DEF RetrySaves, IInv, Known
      <3>2. PICK chosen \in SUBSET {i \in 1..Items : handler.mem.item[i] \in {"failed", "cancelled"}} :
               file' = [file EXCEPT ![handler.job] =
                  [state |-> "queued", cancel |-> FALSE,
                   item |-> [i \in 1..Items |->
                               IF i \in chosen THEN "pending" ELSE handler.mem.item[i]]]]
        BY <2>5 DEF RetrySaves
      <3>3. \A k \in Jobs : k # handler.job => file'[k] = file[k]
        BY <2>0, <3>2 DEF TypeOK
      <3>4. \A i \in 1..Items : file'[handler.job].item[i] =
                                  IF i \in chosen THEN "pending" ELSE handler.mem.item[i]
        BY <2>0, <3>1, <3>2 DEF TypeOK
      <3>5. \A i \in 1..Items : handler.mem.item[i] = "succeeded" => i \notin chosen
        OBVIOUS
      <3>6. QED
        BY <2>0, <3>1, <3>3, <3>4, <3>5
    <2>6. ASSUME NEW r \in Runners, Run(r) PROVE Keeps
      <3>1. Live(r)
        BY <2>6 DEF Run, Read, Reset, Open, Look, Mark, CallEnds, Finish, Cancelled, Runs, Live
      <3>2. /\ Job(r) \in Jobs /\ Mem(r) \in Record
            /\ Job(r) \notin asked => InStep(runner[r].pc, Mem(r), file[Job(r)])
            /\ Quiet(Job(r)) => Progress(runner[r].pc, Mem(r), runner[r].at, file[Job(r)])
        BY <1>1, <3>1, RunnerRecords DEF Now
      <3>3. ASSUME NEW rec \in Record, Save(r, rec),
                   \A i \in 1..Items : Mem(r).item[i] = "succeeded" => rec.item[i] = "succeeded",
                   runner[r].pc \in Holding
            PROVE  Keeps
        <4>1. Job(r) \notin asked => KeepsItems(Job(r), rec)
          BY <3>2, <3>3 DEF InStep
        <4>2. QED
          BY <2>2, <3>2, <3>3, <4>1 DEF Save
      <3>4. CASE Reset(r)
        <4> DEFINE mid == With(Mem(r), "running", "pending")
                   rec == [mid EXCEPT !.state = "queued"]
        <4>1. /\ mid \in Record
              /\ \A i \in 1..Items : mid.item[i] =
                    IF Mem(r).item[i] = "running" THEN "pending" ELSE Mem(r).item[i]
          BY <3>2, RecordTargets DEF ItemState
        <4>2. Save(r, rec) /\ runner[r].pc \in Holding
          BY <3>4 DEF Reset, Runs, Holding
        <4> HIDE DEF mid
        <4>3. rec \in Record /\ rec.item = mid.item
          BY <4>1, RecordStates DEF Active
        <4> HIDE DEF rec
        <4>4. QED
          BY <3>3, <4>1, <4>2, <4>3
      <3>5. CASE Open(r)
        <4> DEFINE rec == [Mem(r) EXCEPT !.state = "running"]
        <4>1. rec \in Record /\ rec.item = Mem(r).item
          BY <3>2, RecordStates DEF Active
        <4>2. Save(r, rec) /\ runner[r].pc \in Holding
          BY <3>5 DEF Open, Runs, Holding
        <4> HIDE DEF rec
        <4>3. QED
          BY <3>3, <4>1, <4>2
      <3>6. ASSUME NEW s \in ItemState, NEW p \in {"mark", "call"}, runner[r].pc = p,
                   Save(r, [Mem(r) EXCEPT !.item[runner[r].at] = s])
            PROVE  Keeps
        <4> DEFINE n == runner[r].at
                   rec == [Mem(r) EXCEPT !.item[n] = s]
        <4>1. n \in 1..Items
          BY <1>1, <3>6 DEF IInv, Known
        <4>2. rec \in Record /\ \A i \in 1..Items : rec.item[i] = IF i = n THEN s ELSE Mem(r).item[i]
          BY <3>2, <4>1, RecordTarget
        <4>3. Save(r, rec) /\ p \in Holding
          BY <3>6 DEF Holding
        <4> HIDE DEF rec
        <4>4. Job(r) \notin asked => Mem(r).item[n] # "succeeded" /\ file[Job(r)] = Mem(r)
          BY <3>2, <3>6, <4>3 DEF Progress, Quiet, InStep
        <4>5. Job(r) \notin asked => KeepsItems(Job(r), rec)
          BY <4>2, <4>4
        <4>6. QED
          BY <2>2, <3>2, <4>2, <4>3, <4>5 DEF Save
      <3>7. CASE Mark(r)
        BY <3>6, <3>7 DEF Mark, Runs, ItemState
      <3>8. CASE CallEnds(r)
        BY <3>6, <3>8 DEF CallEnds, Runs, ItemState
      <3>9. CASE Finish(r)
        <4> DEFINE rec == [Mem(r) EXCEPT !.state = Verdict(Mem(r))]
        <4>1. Verdict(Mem(r)) \in Terminal
          BY DEF Verdict, Terminal
        <4>2. rec \in Record /\ rec.item = Mem(r).item
          BY <3>2, <4>1, RecordStates
        <4>3. Save(r, rec) /\ runner[r].pc \in Holding
          BY <3>9 DEF Finish, Runs, Holding
        <4> HIDE DEF rec
        <4>4. QED
          BY <3>3, <4>2, <4>3
      <3>10. CASE Cancelled(r)
        <4> DEFINE rec == CancelRemaining(Mem(r))
        <4>1. /\ rec \in Record
              /\ \A i \in 1..Items : rec.item[i] =
                    IF Mem(r).item[i] = "pending" THEN "cancelled" ELSE Mem(r).item[i]
          BY <3>2, RemainingCancelled
        <4>2. Save(r, rec) /\ runner[r].pc \in Holding
          BY <3>10 DEF Cancelled, Runs, Holding
        <4> HIDE DEF rec
        <4>3. QED
          BY <3>3, <4>1, <4>2
      <3>11. CASE Read(r) \/ Look(r)
        BY <2>1, <3>11 DEF Read, Look
      <3>12. QED
        BY <2>6, <3>4, <3>5, <3>7, <3>8, <3>9, <3>10, <3>11 DEF Run
    <2>7. CASE Startup \/ Crash \/ (\E j \in Jobs : CancelReads(j) \/ RetryReads(j)) \/ UNCHANGED vars
      BY <2>1, <2>7 DEF Startup, Boot, List, ResumeNext, Crash, CancelReads, RetryReads, vars
    <2>8. QED
      BY <1>1, <2>3, <2>4, <2>5, <2>6, <2>7 DEF Next
  <1>2. IInv /\ [Next]_vars => [Keeps]_vars
    BY <1>1
  <1>3. QED
    BY <1>2, Inductive, PTL DEF Spec, SucceededIsKept
=============================================================================
