------------------------ MODULE SemanticReviewProofs ------------------------
(***************************************************************************)
(* Proofs about the review ledger, for any number of cases, reviewers,     *)
(* batch threads and crashes, with a run that completes at any moment or   *)
(* only after startup.  The inductive invariant IInv says                  *)
(*   Located    where each kind of actor can stand,                        *)
(*   Ordered    that histories, and what append() has read of them, have   *)
(*              no proposal after a decision of a reviewer,                *)
(*   Accounted  that each open case is on the list of what is being done,  *)
(*   Alone      that one batch thread is alive, the one started last,      *)
(*   Fresh      that nothing was read of a case with nothing recorded;     *)
(* and Sole, without askers, that nobody stands between a thread's last    *)
(* look at a case and its proposal.                                        *)
(***************************************************************************)
EXTENDS SemanticReview, FiniteSetTheorems, TLAPS

USE EarlyCallbackAssumption, BoundAssumption

(* The points at which an actor works on a case, and those of a batch that *)
(* has begun.                                                              *)
OnCase == {"look", "model", "get", "put"}
Begun == OnCase \cup {"next", "ok", "refused", "raised"}

Located ==
    /\ \A a \in Actors : act[a].pc \in OnCase => act[a].case \in Cases
    /\ \A a \in Humans \cup Askers :
          act[a].pc \notin {"start", "next", "exiting", "ended", "dead"}
    /\ \A t \in Threads : act[t].pc # "lost"
    /\ \A t \in Threads : act[t].pc \in Begun => mem[t].state = "running"

HumanFinal(d) == \A i, k \in DOMAIN d : i < k /\ d[i] \in Humans => d[k] \in Humans

(* What is recorded, and what an append() under way has read, is in order. *)
Ordered ==
    /\ \A c \in Cases : HumanFinal(ledger[c])
    /\ \A a \in Actors : act[a].pc = "put" =>
          /\ HumanFinal(act[a].seen)
          /\ a \in Models => ~HumanIn(act[a].seen)

(* Every case is closed, or on the list S. *)
Covered(S) == \A c \in Cases : c \in S \/ ~StillOpen(c)

Selected == \A s \in Schedulers : sched[s] \in {"queue", "spawn"} => Covered(picked[s])

ThreadAccount(t) ==
    /\ act[t].pc = "start" => Covered(todo[t])
    /\ act[t].pc \in {"next", "ok"} => mem[t].errors > 0 \/ Covered(todo[t])
    /\ act[t].pc \in OnCase => mem[t].errors > 0 \/ Covered(todo[t] \cup {act[t].case})

(* No case gets lost between the selection of a batch and its end, unless  *)
(* an error has been counted.                                              *)
Accounted ==
    /\ Selected
    /\ \A t \in Threads : ThreadAccount(t)
    /\ CompletedBatchLeavesNothingOpen

Entry == [pc : Points, case : Cases \cup {"none"}, seen : Seq(Actors)]

-----------------------------------------------------------------------------
(* The actors. *)

(* Step moves one actor and keeps what it has read. *)
LEMMA StepMoves ==
    ASSUME act \in [Actors -> Entry], NEW a \in Actors, NEW from, NEW to \in Points,
           Step(a, from, to)
    PROVE  /\ up /\ act[a].pc = from
           /\ act' \in [Actors -> Entry]
           /\ act'[a].pc = to /\ act'[a].case = act[a].case /\ act'[a].seen = act[a].seen
           /\ \A b \in Actors \ {a} : act'[b] = act[b]
  <1> DEFINE e == [act[a] EXCEPT !.pc = to]
  <1>1. act[a] \in Entry
    OBVIOUS
  <1>2. e \in Entry /\ e.pc = to /\ e.case = act[a].case /\ e.seen = act[a].seen
    BY <1>1 DEF Entry
  <1>3. act' = [act EXCEPT ![a] = e] /\ up /\ act[a].pc = from
    BY DEF Step
  <1> HIDE DEF e
  <1>4. QED
    BY <1>2, <1>3

(* A request begins with its case and nothing read. *)
LEMMA RequestBegins ==
    ASSUME act \in [Actors -> Entry], NEW a \in Actors, NEW c \in Cases, NEW p \in Points,
           act' = [act EXCEPT ![a] = [Idle EXCEPT !.pc = p, !.case = c]]
    PROVE  /\ act' \in [Actors -> Entry]
           /\ act'[a].pc = p /\ act'[a].case = c
           /\ \A b \in Actors \ {a} : act'[b] = act[b]
  <1> DEFINE e == [Idle EXCEPT !.pc = p, !.case = c]
  <1>1. Idle \in Entry
    <2>1. <<>> \in Seq(Actors) /\ "idle" \in Points
      BY DEF Points
    <2>2. QED
      BY <2>1 DEF Idle, Entry
  <1>2. e \in Entry /\ e.pc = p /\ e.case = c
    BY <1>1 DEF Entry
  <1> HIDE DEF e
  <1>3. act' = [act EXCEPT ![a] = e]
    BY DEF e
  <1>4. QED
    BY <1>2, <1>3

(* The first half of append() refuses, or remembers what it has read. *)
LEMMA AppendGetReads ==
    ASSUME act \in [Actors -> Entry], ledger \in [Cases -> Seq(Actors)],
           NEW a \in Actors, act[a].case \in Cases, AppendGet(a)
    PROVE  /\ act' \in [Actors -> Entry] /\ ledger' = ledger
           /\ \A b \in Actors \ {a} : act'[b] = act[b]
           /\ act'[a].case = act[a].case
           /\ \/ act'[a].pc = "raised" /\ a \in Models /\ HumanIn(ledger[act[a].case])
              \/ /\ act'[a].pc = "put" /\ act'[a].seen = ledger[act[a].case]
                 /\ a \in Models => ~HumanIn(ledger[act[a].case])
  <1> DEFINE d == ledger[act[a].case]
             e1 == [act[a] EXCEPT !.pc = "raised"]
             e2 == [act[a] EXCEPT !.pc = "put", !.seen = d]
  <1>1. act[a] \in Entry /\ d \in Seq(Actors) /\ {"raised", "put"} \subseteq Points
    BY DEF Points
  <1> HIDE DEF d
  <1>2. /\ e1 \in Entry /\ e1.pc = "raised" /\ e1.case = act[a].case
        /\ e2 \in Entry /\ e2.pc = "put" /\ e2.case = act[a].case /\ e2.seen = d
    BY <1>1 DEF Entry
  <1>3. /\ act' = IF a \in Models /\ HumanIn(d) THEN [act EXCEPT ![a] = e1]
                                                ELSE [act EXCEPT ![a] = e2]
        /\ ledger' = ledger
    BY DEF AppendGet, d
  <1> HIDE DEF e1, e2
  <1>4. QED
    BY <1>2, <1>3 DEF d

(* The second half replaces the file by what was read plus one. *)
LEMMA AppendPutWrites ==
    ASSUME act \in [Actors -> Entry], ledger \in [Cases -> Seq(Actors)],
           NEW a \in Actors, AppendPut(a)
    PROVE  /\ up /\ act[a].pc = "put"
           /\ act' \in [Actors -> Entry] /\ act'[a].pc = "ok"
           /\ act'[a].case = act[a].case
           /\ \A b \in Actors \ {a} : act'[b] = act[b]
           /\ ledger' \in [Cases -> Seq(Actors)]
           /\ \A c \in Cases : ledger'[c] = IF c = act[a].case
                                            THEN Append(act[a].seen, a) ELSE ledger[c]
  <1>1. Step(a, "put", "ok")
    BY DEF AppendPut
  <1>2. act[a].seen \in Seq(Actors)
    BY DEF Entry
  <1>3. Append(act[a].seen, a) \in Seq(Actors)
    BY <1>2
  <1>4. ledger' = [ledger EXCEPT ![act[a].case] = Append(act[a].seen, a)]
    BY DEF AppendPut
  <1>5. QED
    BY <1>1, <1>3, <1>4, StepMoves DEF Points

(* Progress of a batch: one case more is counted. *)
LEMMA ProgressSaved ==
    ASSUME mem \in [Threads -> Status], NEW t \in Threads, NEW n \in {0, 1},
           SaveProgress(t, n)
    PROVE  /\ mem' \in [Threads -> Status]
           /\ mem'[t].state = mem[t].state /\ mem'[t].errors = mem[t].errors + n
           /\ \A u \in Threads \ {t} : mem'[u] = mem[u]
           /\ batch' = mem'[t]
  <1> DEFINE m == [mem[t] EXCEPT !.processed = mem[t].processed + 1,
                                 !.errors = mem[t].errors + n]
  <1>1. mem[t] \in Status
    OBVIOUS
  <1>2. mem[t].processed + 1 \in Nat /\ mem[t].errors + n \in Nat
    BY <1>1 DEF Status
  <1>3. m \in Status /\ m.state = mem[t].state /\ m.errors = mem[t].errors + n
    BY <1>1, <1>2 DEF Status
  <1>4. mem' = [mem EXCEPT ![t] = m] /\ batch' = mem'[t]
    BY DEF SaveProgress
  <1> HIDE DEF m
  <1>5. QED
    BY <1>3, <1>4
-----------------------------------------------------------------------------
(* Type correctness. *)

(* A selection has a natural number of cases.                              *)
LEMMA CountsAreNaturals == \A S \in SUBSET Cases : Cardinality(S) \in Nat
  BY CasesAssumption, FS_Subset, FS_CardinalityType

(* Every step keeps the types.                                             *)
LEMMA TypeStep == TypeOK /\ Located /\ [Next]_vars => TypeOK'
  <1> SUFFICES ASSUME TypeOK, Located, [Next]_vars PROVE TypeOK'
    OBVIOUS
  <1> USE DEF schedVars, threadVars
  <1>0. act \in [Actors -> Entry]
    BY DEF TypeOK, Entry
  <1>1. ASSUME NEW h \in Humans, NEW c \in Cases, HumanDecides(h, c) PROVE TypeOK'
    <2>1. act' \in [Actors -> Entry]
      BY <1>0, <1>1, RequestBegins DEF HumanDecides, Actors, Points
    <2>2. QED
      BY <1>1, <2>1 DEF HumanDecides, TypeOK, Entry
  <1>2. ASSUME NEW a \in Askers, NEW c \in Cases, Ask(a, c) PROVE TypeOK'
    <2>1. act' \in [Actors -> Entry]
      BY <1>0, <1>2, RequestBegins DEF Ask, Actors, Points
    <2>2. QED
      BY <1>2, <2>1 DEF Ask, TypeOK, Entry
  <1>3. ASSUME NEW a \in Actors, Look(a) PROVE TypeOK'
    <2>1. act' \in [Actors -> Entry]
      BY <1>0, <1>3, StepMoves DEF Look, Points
    <2>2. QED
      BY <1>3, <2>1 DEF Look, TypeOK, Entry
  <1>4. ASSUME NEW a \in Actors, ModelAnswers(a) PROVE TypeOK'
    <2>1. act' \in [Actors -> Entry]
      BY <1>0, <1>4, StepMoves DEF ModelAnswers, Points
    <2>2. QED
      BY <1>4, <2>1 DEF ModelAnswers, TypeOK, Entry
  <1>5. ASSUME NEW a \in Actors, AppendGet(a) PROVE TypeOK'
    <2>1. act[a].case \in Cases
      BY <1>5 DEF AppendGet, Located, OnCase
    <2>2. act' \in [Actors -> Entry]
      BY <1>0, <1>5, <2>1, AppendGetReads DEF TypeOK
    <2>3. QED
      BY <1>5, <2>2 DEF AppendGet, TypeOK, Entry
  <1>6. ASSUME NEW a \in Actors, AppendPut(a) PROVE TypeOK'
    <2>1. act' \in [Actors -> Entry] /\ ledger' \in [Cases -> Seq(Actors)]
      BY <1>0, <1>6, AppendPutWrites DEF TypeOK
    <2>2. QED
      BY <1>6, <2>1 DEF AppendPut, TypeOK, Entry
  <1>7. ASSUME NEW t \in Threads, BatchStarts(t) PROVE TypeOK'
    <2>1. act' \in [Actors -> Entry]
      BY <1>0, <1>7, StepMoves DEF BatchStarts, Actors, Points
    <2>2. [batch EXCEPT !.state = "running", !.total = Cardinality(todo[t])] \in Status
      <3>1. Cardinality(todo[t]) \in Nat /\ batch \in Status
        BY CountsAreNaturals DEF TypeOK
      <3>2. QED
        BY <3>1 DEF Status, Pending
    <2>3. mem' \in [Threads -> Status] /\ batch' \in Status
      BY <1>7, <2>2 DEF BatchStarts, TypeOK
    <2>4. QED
      BY <1>7, <2>1, <2>3 DEF BatchStarts, TypeOK, Entry
  <1>8. ASSUME NEW t \in Threads, NEW c \in Cases, NextCase(t, c) PROVE TypeOK'
    <2>1. todo' \in [Threads -> SUBSET Cases]
      BY <1>8 DEF NextCase, TypeOK
    <2>2. CASE StillOpen(c)
      <3>1. /\ act' = [act EXCEPT ![t] = [act[t] EXCEPT !.pc = "look", !.case = c]]
            /\ mem' = mem /\ batch' = batch
        BY <1>8, <2>2 DEF NextCase
      <3>2. [act[t] EXCEPT !.pc = "look", !.case = c] \in Entry
        <4>1. act[t] \in Entry
          BY <1>0 DEF Actors
        <4>2. QED
          BY <4>1 DEF Entry, Points
      <3>3. act' \in [Actors -> Entry]
        BY <1>0, <3>1, <3>2
      <3>4. QED
        BY <1>8, <2>1, <3>1, <3>3 DEF NextCase, TypeOK, Entry
    <2>3. CASE ~StillOpen(c)
      <3>1. mem' \in [Threads -> Status] /\ batch' \in Status /\ act' = act
        BY <1>8, <2>3, ProgressSaved DEF NextCase, TypeOK
      <3>2. QED
        BY <1>8, <2>1, <3>1 DEF NextCase, TypeOK
    <2>4. QED
      BY <2>2, <2>3
  <1>9. ASSUME NEW t \in Threads, CaseDone(t) PROVE TypeOK'
    <2>1. act' \in [Actors -> Entry]
      BY <1>0, <1>9, StepMoves DEF CaseDone, Actors, Points
    <2>2. mem' \in [Threads -> Status] /\ batch' \in Status
      BY <1>9, ProgressSaved DEF CaseDone, TypeOK
    <2>3. QED
      BY <1>9, <2>1, <2>2 DEF CaseDone, TypeOK, Entry
  <1>10. ASSUME NEW t \in Threads, BatchDies(t) \/ ThreadExits(t) PROVE TypeOK'
    <2>1. act' \in [Actors -> Entry]
      BY <1>0, <1>10, StepMoves DEF BatchDies, ThreadExits, Actors, Points
    <2>2. QED
      BY <1>10, <2>1 DEF BatchDies, ThreadExits, TypeOK, Entry
  <1>11. ASSUME NEW t \in Threads, BatchEnds(t) PROVE TypeOK'
    <2>1. act' \in [Actors -> Entry]
      BY <1>0, <1>11, StepMoves DEF BatchEnds, Actors, Points
    <2>2. ASSUME NEW s \in Finished PROVE [mem[t] EXCEPT !.state = s] \in Status
      BY DEF TypeOK, Status
    <2>3. mem' \in [Threads -> Status] /\ batch' \in Status
      BY <1>11, <2>2 DEF BatchEnds, TypeOK, Finished
    <2>4. QED
      BY <1>11, <2>1, <2>3 DEF BatchEnds, TypeOK, Entry
  <1>12. CASE RunCompletes \/ Resume
    BY <1>12 DEF RunCompletes, Resume, ScheduleGoes, TypeOK
  <1>13. ASSUME NEW s \in Schedulers, ReadStatus(s) \/ CheckThread(s) PROVE TypeOK'
    BY <1>13 DEF ReadStatus, CheckThread, ScheduleGoes, TypeOK
  <1>14. ASSUME NEW s \in Schedulers, Select(s) PROVE TypeOK'
    <2>1. ASSUME NEW st \in {"not_configured", "completed_with_errors", "skipped"},
                 NEW f \in BOOLEAN, SaveState(s, st, f)
          PROVE  TypeOK'
      <3>2. batch' = [current[s] EXCEPT !.state = st, !.errors = IF f THEN 1 ELSE current[s].errors]
        BY <2>1 DEF SaveState
      <3>3. batch' \in Status
        <4>1. current[s] \in Status
          BY DEF TypeOK
        <4>2. QED
          BY <3>2, <4>1 DEF Status, Finished
      <3>4. QED
        BY <1>14, <2>1, <3>3 DEF Select, SaveState, ScheduleGoes, TypeOK
    <2>2. CASE ScheduleGoes(s, "select", "queue") /\ UNCHANGED batch
               /\ picked' = [picked EXCEPT ![s] = {c \in Cases : StillOpen(c)}]
      BY <1>14, <2>2 DEF Select, ScheduleGoes, TypeOK
    <2>3. \/ SaveState(s, "not_configured", FALSE)
          \/ SaveState(s, "completed_with_errors", TRUE)
          \/ SaveState(s, "skipped", FALSE)
          \/ /\ ScheduleGoes(s, "select", "queue") /\ UNCHANGED batch
             /\ picked' = [picked EXCEPT ![s] = {c \in Cases : StillOpen(c)}]
      BY <1>14 DEF Select
    <2>4. QED
      BY <2>1, <2>2, <2>3
  <1>15. ASSUME NEW s \in Schedulers, Enqueue(s) PROVE TypeOK'
    <2>1. Cardinality(picked[s]) \in Nat
      BY CountsAreNaturals DEF TypeOK
    <2>2. batch' \in Status
      BY <1>15, <2>1 DEF Enqueue, Status, Pending
    <2>3. QED
      BY <1>15, <2>2 DEF Enqueue, ScheduleGoes, TypeOK
  <1>16. ASSUME NEW s \in Schedulers, Spawn(s) PROVE TypeOK'
    <2>1. CASE LiveBatch
      BY <1>16, <2>1 DEF Spawn, ScheduleGoes, TypeOK
    <2>2. CASE ~LiveBatch
      <3>1. PICK t \in Threads :
               /\ act' = [act EXCEPT ![t].pc = "start"]
               /\ todo' = [todo EXCEPT ![t] = picked[s]] /\ newest' = t
        BY <1>16, <2>2 DEF Spawn, StartThread
      <3>2. [act[t] EXCEPT !.pc = "start"] \in Entry
        <4>1. act[t] \in Entry
          BY <1>0 DEF Actors
        <4>2. QED
          BY <4>1 DEF Entry, Points
      <3>3. act' \in [Actors -> Entry]
        BY <1>0, <3>1, <3>2
      <3>4. todo' \in [Threads -> SUBSET Cases] /\ newest' \in 0..MaxThreads
        BY <3>1 DEF TypeOK, Threads
      <3>5. QED
        BY <1>16, <3>3, <3>4 DEF Spawn, ScheduleGoes, TypeOK, Entry
    <2>3. QED
      BY <2>1, <2>2
  <1>17. CASE Crash
    <2>1. Idle \in Entry /\ NotStarted \in Status
      <3>1. <<>> \in Seq(Actors)
        OBVIOUS
      <3>2. QED
        BY <3>1 DEF Idle, NotStarted, Entry, Status, Points
    <2>2. \A a \in Actors : [act[a] EXCEPT !.pc = "lost"] \in Entry
      BY <1>0 DEF Entry, Points
    <2>3. act' \in [Actors -> Entry]
      BY <1>0, <1>17, <2>1, <2>2 DEF Crash
    <2>4. crashes' \in 0..MaxCrashes
      BY <1>17 DEF Crash, TypeOK
    <2>5. mem' \in [Threads -> Status] /\ current' \in [Schedulers -> Status]
      BY <1>17, <2>1 DEF Crash
    <2>6. sched' \in [Schedulers -> {"idle", "list", "read", "alive", "select",
                                     "queue", "spawn", "done"}]
      BY <1>17 DEF Crash
    <2>7. todo' \in [Threads -> SUBSET Cases] /\ picked' \in [Schedulers -> SUBSET Cases]
      BY <1>17 DEF Crash
    <2>8. up' = FALSE /\ newest' = 0 /\ UNCHANGED <<ledger, batch>>
      BY <1>17 DEF Crash
    <2>9. 0 \in 0..MaxThreads
      OBVIOUS
    <2>10. QED
      BY <2>3, <2>4, <2>5, <2>6, <2>7, <2>8, <2>9 DEF TypeOK, Entry
  <1>18. CASE Boot
    BY <1>18 DEF Boot, TypeOK
  <1>19. CASE UNCHANGED vars
    BY <1>19 DEF vars, TypeOK
  <1>20. QED
    BY <1>1, <1>2, <1>3, <1>4, <1>5, <1>6, <1>7, <1>8, <1>9, <1>10, <1>11, <1>12,
       <1>13, <1>14, <1>15, <1>16, <1>17, <1>18, <1>19
    DEF Next, Review, BatchStep, Schedule, Models, Actors
-----------------------------------------------------------------------------
(* Where the actors stand. *)

(* The steps of schedule() before it starts a thread, and of the platform. *)
Background ==
    \/ RunCompletes \/ Resume \/ Boot \/ UNCHANGED vars
    \/ \E s \in Schedulers : ReadStatus(s) \/ CheckThread(s) \/ Select(s) \/ Enqueue(s)

(* Neither moves an actor nor touches what is recorded.                    *)
LEMMA BackgroundKeeps == Background => UNCHANGED <<act, ledger, mem, todo, newest>>
  BY DEF Background, RunCompletes, Resume, Boot, ReadStatus, CheckThread, Select,
         SaveState, Enqueue, ScheduleGoes, threadVars, vars

(* Spawn starts the first idle thread, unless a thread is alive. *)
LEMMA SpawnStarts ==
    ASSUME act \in [Actors -> Entry], NEW s \in Schedulers, Spawn(s)
    PROVE  /\ UNCHANGED <<ledger, mem, batch, picked>>
           /\ \/ LiveBatch /\ UNCHANGED <<act, todo, newest>>
              \/ \E t \in Threads :
                    /\ ~LiveBatch /\ act[t].pc = "idle" /\ act'[t].pc = "start"
                    /\ \A b \in Actors \ {t} : act'[b] = act[b]
                    /\ todo' = [todo EXCEPT ![t] = picked[s]] /\ newest' = t
  <1>1. UNCHANGED <<ledger, mem, batch, picked>>
    BY DEF Spawn, ScheduleGoes
  <1>2. CASE LiveBatch
    BY <1>1, <1>2 DEF Spawn
  <1>3. ASSUME ~LiveBatch, NEW t \in Threads, act[t].pc = "idle",
               act' = [act EXCEPT ![t].pc = "start"]
        PROVE  act'[t].pc = "start" /\ \A b \in Actors \ {t} : act'[b] = act[b]
    <2>1. act[t] \in Entry
      BY DEF Actors
    <2>2. [act[t] EXCEPT !.pc = "start"].pc = "start"
      BY <2>1 DEF Entry
    <2>3. QED
      BY <1>3, <2>2 DEF Actors
  <1>4. QED
    BY <1>1, <1>2, <1>3 DEF Spawn, StartThread

(* NextCase takes a case off the list, and works on it if it is open.      *)
LEMMA NextCaseTakes ==
    ASSUME TypeOK, NEW t \in Threads, NEW c \in Cases, NextCase(t, c)
    PROVE  /\ act[t].pc = "next" /\ c \in todo[t]
           /\ todo' = [todo EXCEPT ![t] = todo[t] \ {c}]
           /\ UNCHANGED <<ledger, newest, sched, picked>>
           /\ \A b \in Actors \ {t} : act'[b] = act[b]
           /\ \/ /\ StillOpen(c) /\ act'[t].pc = "look" /\ act'[t].case = c
                 /\ UNCHANGED <<mem, batch>>
              \/ ~StillOpen(c) /\ act' = act /\ SaveProgress(t, 0)
  <1>1. act[t] \in Entry
    BY DEF TypeOK, Entry, Actors
  <1>2. [act[t] EXCEPT !.pc = "look", !.case = c].pc = "look"
        /\ [act[t] EXCEPT !.pc = "look", !.case = c].case = c
    BY <1>1 DEF Entry
  <1>3. StillOpen(c) => act' = [act EXCEPT ![t] = [act[t] EXCEPT !.pc = "look", !.case = c]]
    BY DEF NextCase
  <1>4. CASE StillOpen(c)
    <2>1. act'[t].pc = "look" /\ act'[t].case = c /\ \A b \in Actors \ {t} : act'[b] = act[b]
      BY <1>2, <1>3, <1>4 DEF TypeOK, Actors
    <2>2. QED
      BY <1>4, <2>1 DEF NextCase, schedVars
  <1>5. CASE ~StillOpen(c)
    BY <1>5 DEF NextCase, schedVars
  <1>6. QED
    BY <1>4, <1>5

(* A crash drops the threads and the requests that are under way. *)
LEMMA CrashDrops ==
    ASSUME TypeOK, Crash
    PROVE  /\ \A t \in Threads : act'[t].pc = "idle"
           /\ \A a \in Actors \ Threads : act'[a] = act[a] \/ act'[a].pc = "lost"
           /\ ledger' = ledger
  <1>1. \A a \in Actors : [act[a] EXCEPT !.pc = "lost"].pc = "lost"
    BY DEF TypeOK, Points
  <1>2. QED
    BY <1>1 DEF Crash, Idle, Actors

(* Every step leaves each actor at a point of its own kind.                *)
LEMMA LocatedStep == TypeOK /\ Located /\ [Next]_vars => Located'
  <1> SUFFICES ASSUME TypeOK, Located, [Next]_vars PROVE Located'
    OBVIOUS
  <1>0. act \in [Actors -> Entry]
    BY DEF TypeOK, Entry
  <1>1. ASSUME NEW h \in Humans, NEW c \in Cases, HumanDecides(h, c) PROVE Located'
    <2>1. act'[h].pc = "get" /\ act'[h].case = c /\ \A b \in Actors \ {h} : act'[b] = act[b]
      BY <1>0, <1>1, RequestBegins DEF HumanDecides, Points, Actors
    <2>2. mem' = mem
      BY <1>1 DEF HumanDecides, threadVars
    <2>3. QED
      BY <2>1, <2>2, ActorsAssumption DEF Located, OnCase, Begun, Actors, Models
  <1>2. ASSUME NEW a \in Askers, NEW c \in Cases, Ask(a, c) PROVE Located'
    <2>1. act'[a].pc = "look" /\ act'[a].case = c /\ \A b \in Actors \ {a} : act'[b] = act[b]
      BY <1>0, <1>2, RequestBegins DEF Ask, Points, Actors
    <2>2. mem' = mem
      BY <1>2 DEF Ask, threadVars
    <2>3. QED
      BY <2>1, <2>2, ActorsAssumption DEF Located, OnCase, Begun, Actors, Models
  <1>3. ASSUME NEW a \in Models, Look(a) PROVE Located'
    BY <1>0, <1>3, StepMoves, ActorsAssumption
      DEF Located, OnCase, Begun, Points, Actors, Models, Look, threadVars
  <1>4. ASSUME NEW a \in Models, ModelAnswers(a) PROVE Located'
    BY <1>0, <1>4, StepMoves, ActorsAssumption
      DEF Located, OnCase, Begun, Points, Actors, Models, ModelAnswers, threadVars
  <1>5. ASSUME NEW a \in Actors, AppendGet(a) PROVE Located'
    <2>1. act[a].pc = "get" /\ act[a].case \in Cases /\ mem' = mem
      BY <1>5 DEF AppendGet, threadVars, Located, OnCase
    <2>2. /\ act'[a].pc \in {"raised", "put"} /\ act'[a].case = act[a].case
          /\ \A b \in Actors \ {a} : act'[b] = act[b]
      BY <1>0, <1>5, <2>1, AppendGetReads DEF TypeOK
    <2>3. QED
      BY <2>1, <2>2 DEF Located, OnCase, Begun, Actors
  <1>6. ASSUME NEW a \in Actors, AppendPut(a) PROVE Located'
    <2>1. mem' = mem
      BY <1>6 DEF AppendPut, threadVars
    <2>2. /\ act[a].pc = "put" /\ act'[a].pc = "ok" /\ act'[a].case = act[a].case
          /\ \A b \in Actors \ {a} : act'[b] = act[b]
      BY <1>0, <1>6, AppendPutWrites DEF TypeOK
    <2>3. QED
      BY <2>1, <2>2 DEF Located, OnCase, Begun, Actors
  <1>7. ASSUME NEW t \in Threads, BatchStarts(t) PROVE Located'
    <2>1. mem'[t].state = "running" /\ \A u \in Threads \ {t} : mem'[u] = mem[u]
      BY <1>7 DEF BatchStarts, TypeOK, Status
    <2>2. QED
      BY <1>0, <1>7, <2>1, StepMoves, ActorsAssumption
      DEF Located, OnCase, Begun, Points, Actors, Models, BatchStarts
  <1>8. ASSUME NEW t \in Threads, NEW c \in Cases, NextCase(t, c) PROVE Located'
    <2>1. \A u \in Threads : mem'[u].state = mem[u].state
      BY <1>8, NextCaseTakes, ProgressSaved DEF TypeOK
    <2>2. QED
      BY <1>8, <2>1, NextCaseTakes, ActorsAssumption
      DEF Located, OnCase, Begun, Actors, Models
  <1>9. ASSUME NEW t \in Threads, CaseDone(t) PROVE Located'
    <2>1. \A u \in Threads : mem'[u].state = mem[u].state
      BY <1>9, ProgressSaved DEF CaseDone, TypeOK
    <2>2. QED
      BY <1>0, <1>9, <2>1, StepMoves, ActorsAssumption
      DEF Located, OnCase, Begun, Points, Actors, Models, CaseDone
  <1>10. ASSUME NEW t \in Threads, BatchDies(t) \/ ThreadExits(t) PROVE Located'
    BY <1>0, <1>10, StepMoves, ActorsAssumption
      DEF Located, OnCase, Begun, Points, Actors, Models, BatchDies, ThreadExits, threadVars
  <1>11. ASSUME NEW t \in Threads, BatchEnds(t) PROVE Located'
    <2>1. \A u \in Threads \ {t} : mem'[u] = mem[u]
      BY <1>11 DEF BatchEnds, TypeOK
    <2>2. QED
      BY <1>0, <1>11, <2>1, StepMoves, ActorsAssumption
      DEF Located, OnCase, Begun, Points, Actors, Models, BatchEnds
  <1>12. ASSUME NEW s \in Schedulers, Spawn(s) PROVE Located'
    BY <1>0, <1>12, SpawnStarts, ActorsAssumption
    DEF Located, OnCase, Begun, Actors, Models
  <1>13. CASE Crash
    BY <1>13, CrashDrops DEF Located, OnCase, Begun, Actors
  <1>14. CASE Background
    BY <1>14, BackgroundKeeps DEF Located
  <1>15. QED
    BY <1>1, <1>2, <1>3, <1>4, <1>5, <1>6, <1>7, <1>8, <1>9, <1>10, <1>11, <1>12,
       <1>13, <1>14
    DEF Next, Review, BatchStep, Schedule, Background
-----------------------------------------------------------------------------
(* The order of the decisions. *)

NoAppend == /\ ledger' = ledger
            /\ \A a \in Actors : act'[a].pc = "put" => act'[a] = act[a]

(* Only append() writes the ledger, and only its first half reads it. *)
LEMMA OnlyAppendWrites ==
    ASSUME TypeOK, Located, [Next]_vars,
           \A a \in Actors : ~AppendGet(a) /\ ~AppendPut(a)
    PROVE  NoAppend
  <1> USE DEF NoAppend
  <1>0. act \in [Actors -> Entry]
    BY DEF TypeOK, Entry
  <1>1. ASSUME NEW h \in Humans, NEW c \in Cases, HumanDecides(h, c) PROVE NoAppend
    <2>1. act'[h].pc = "get" /\ \A b \in Actors \ {h} : act'[b] = act[b]
      BY <1>0, <1>1, RequestBegins DEF HumanDecides, Points, Actors
    <2>2. QED
      BY <1>1, <2>1 DEF HumanDecides
  <1>2. ASSUME NEW a \in Askers, NEW c \in Cases, Ask(a, c) PROVE NoAppend
    <2>1. act'[a].pc = "look" /\ \A b \in Actors \ {a} : act'[b] = act[b]
      BY <1>0, <1>2, RequestBegins DEF Ask, Points, Actors
    <2>2. QED
      BY <1>2, <2>1 DEF Ask
  <1>3. ASSUME NEW a \in Actors, Look(a) \/ ModelAnswers(a) PROVE NoAppend
    BY <1>0, <1>3, StepMoves DEF Look, ModelAnswers, Points
  <1>4. ASSUME NEW t \in Threads, NEW c \in Cases, NextCase(t, c) PROVE NoAppend
    BY <1>4, NextCaseTakes
  <1>5. ASSUME NEW t \in Threads,
               BatchStarts(t) \/ CaseDone(t) \/ BatchDies(t) \/ BatchEnds(t) \/ ThreadExits(t)
        PROVE  NoAppend
    BY <1>0, <1>5, StepMoves
    DEF BatchStarts, CaseDone, BatchDies, BatchEnds, ThreadExits, Points, Actors
  <1>6. ASSUME NEW s \in Schedulers, Spawn(s) PROVE NoAppend
    BY <1>0, <1>6, SpawnStarts
  <1>7. CASE Crash
    BY <1>7, CrashDrops
  <1>8. CASE Background
    BY <1>8, BackgroundKeeps
  <1> HIDE DEF NoAppend
  <1>9. \A a \in Actors : Review(a) => Look(a) \/ ModelAnswers(a)
    BY DEF Review
  <1>10. QED
    BY <1>1, <1>2, <1>3, <1>4, <1>5, <1>6, <1>7, <1>8, <1>9
    DEF Next, BatchStep, Schedule, Background

(* One decision more: where it stands, and what the rest is. *)
LEMMA Appended ==
    ASSUME NEW d \in Seq(Actors), NEW a \in Actors
    PROVE  LET e == Append(d, a) IN
           /\ e \in Seq(Actors) /\ DOMAIN e = 1..(Len(d) + 1) /\ DOMAIN d = 1..Len(d)
           /\ Len(d) \in Nat /\ e[Len(d) + 1] = a
           /\ \A i \in DOMAIN d : e[i] = d[i]
  OBVIOUS

(* A decision appended to an ordered history leaves it ordered.            *)
LEMMA OrderKept ==
    ASSUME NEW d \in Seq(Actors), NEW a \in Actors, HumanFinal(d),
           a \in Models => ~HumanIn(d)
    PROVE  HumanFinal(Append(d, a))
  <1>1. a \notin Humans => ~HumanIn(d)
    BY DEF Actors, Models
  <1> DEFINE e == Append(d, a)
  <1>2. /\ DOMAIN e = 1..(Len(d) + 1) /\ DOMAIN d = 1..Len(d)
        /\ Len(d) \in Nat /\ e[Len(d) + 1] = a
        /\ \A i \in DOMAIN d : e[i] = d[i]
    BY Appended
  <1> HIDE DEF e
  <1>3. ASSUME NEW i \in DOMAIN e, NEW k \in DOMAIN e, i < k, e[i] \in Humans
        PROVE  e[k] \in Humans
    <2>1. i \in DOMAIN d /\ d[i] \in Humans
      BY <1>2, <1>3
    <2>2. CASE k = Len(d) + 1
      BY <1>1, <1>2, <2>1, <2>2 DEF HumanIn
    <2>3. CASE k \in DOMAIN d
      BY <1>2, <1>3, <2>1, <2>3 DEF HumanFinal
    <2>4. QED
      BY <1>2, <2>2, <2>3
  <1>4. QED
    BY <1>3 DEF HumanFinal, e

(* Every step keeps the order of what is recorded and of what was read.    *)
LEMMA OrderedStep == TypeOK /\ Located /\ Ordered /\ [Next]_vars => Ordered'
  <1> SUFFICES ASSUME TypeOK, Located, Ordered, [Next]_vars PROVE Ordered'
    OBVIOUS
  <1>0. act \in [Actors -> Entry] /\ ledger \in [Cases -> Seq(Actors)]
    BY DEF TypeOK, Entry
  <1>1. ASSUME NEW a \in Actors, AppendGet(a) PROVE Ordered'
    <2>1. act[a].case \in Cases
      BY <1>1 DEF AppendGet, Located, OnCase
    <2>2. /\ ledger' = ledger /\ \A b \in Actors \ {a} : act'[b] = act[b]
          /\ \/ act'[a].pc = "raised"
             \/ /\ act'[a].seen = ledger[act[a].case]
                /\ a \in Models => ~HumanIn(ledger[act[a].case])
      BY <1>0, <1>1, <2>1, AppendGetReads
    <2>3. QED
      BY <2>1, <2>2 DEF Ordered
  <1>2. ASSUME NEW a \in Actors, AppendPut(a) PROVE Ordered'
    <2>1. /\ act[a].pc = "put" /\ act'[a].pc = "ok"
          /\ \A b \in Actors \ {a} : act'[b] = act[b]
          /\ \A c \in Cases : ledger'[c] = IF c = act[a].case
                                           THEN Append(act[a].seen, a) ELSE ledger[c]
      BY <1>0, <1>2, AppendPutWrites
    <2>2. act[a].seen \in Seq(Actors)
      BY <1>0 DEF Entry
    <2>3. HumanFinal(Append(act[a].seen, a))
      BY <2>1, <2>2, OrderKept DEF Ordered
    <2>4. QED
      BY <2>1, <2>3 DEF Ordered
  <1>3. CASE \A a \in Actors : ~AppendGet(a) /\ ~AppendPut(a)
    BY <1>3, OnlyAppendWrites DEF Ordered, NoAppend
  <1>4. QED
    BY <1>1, <1>2, <1>3
-----------------------------------------------------------------------------
(* What a batch leaves open. *)

(* A case with a decision appended is closed.                              *)
LEMMA AppendCloses ==
    ASSUME NEW d \in Seq(Actors), NEW a \in Actors
    PROVE  HumanIn(Append(d, a)) \/ ModelIn(Append(d, a))
  <1> DEFINE e == Append(d, a)
  <1>1. Len(d) + 1 \in DOMAIN e /\ e[Len(d) + 1] = a
    BY Appended
  <1> HIDE DEF e
  <1>2. HumanIn(e) \/ ModelIn(e)
    BY <1>1 DEF HumanIn, ModelIn, Actors, Models
  <1>3. QED
    BY <1>2 DEF e

(* A case that is decided or proposed is never open again. *)
LEMMA ClosedStaysClosed ==
    TypeOK /\ Located /\ [Next]_vars
      => /\ \A c \in Cases : StillOpen(c)' => StillOpen(c)
         /\ \A S : Covered(S) => Covered(S)'
  <1> SUFFICES ASSUME TypeOK, Located, [Next]_vars
               PROVE  \A c \in Cases : StillOpen(c)' => StillOpen(c)
    BY DEF Covered
  <1>0. act \in [Actors -> Entry] /\ ledger \in [Cases -> Seq(Actors)]
    BY DEF TypeOK, Entry
  <1>1. ASSUME NEW a \in Actors, AppendPut(a), NEW c \in Cases, StillOpen(c)'
        PROVE  StillOpen(c)
    <2>1. ledger'[c] = IF c = act[a].case THEN Append(act[a].seen, a) ELSE ledger[c]
      BY <1>0, <1>1, AppendPutWrites
    <2>2. act[a].seen \in Seq(Actors)
      BY <1>0 DEF Entry
    <2>3. CASE c = act[a].case
      BY <1>1, <2>1, <2>2, <2>3, AppendCloses DEF StillOpen
    <2>4. CASE c # act[a].case
      BY <1>1, <2>1, <2>4 DEF StillOpen
    <2>5. QED
      BY <2>3, <2>4
  <1>2. CASE ledger' = ledger
    BY <1>2 DEF StillOpen
  <1>3. (\E a \in Actors : AppendPut(a)) \/ ledger' = ledger
    BY OnlyAppendWrites DEF NoAppend, AppendGet
  <1>4. QED
    BY <1>1, <1>2, <1>3

(* What was selected stays selected until its thread has started. *)
LEMMA SelectedStep ==
    TypeOK /\ Located /\ Selected /\ [Next]_vars => Selected'
  <1> SUFFICES ASSUME TypeOK, Located, Selected, [Next]_vars PROVE Selected'
    OBVIOUS
  <1>0. \A S : Covered(S) => Covered(S)'
    BY ClosedStaysClosed
  <1>1. CASE UNCHANGED <<sched, picked>>
    BY <1>0, <1>1 DEF Selected, Covered
  <1>2. CASE RunCompletes \/ Resume \/ Boot
    BY <1>0, <1>2 DEF RunCompletes, Resume, Boot, ScheduleGoes, Selected, Covered, TypeOK
  <1>3. ASSUME NEW s \in Schedulers, ReadStatus(s) \/ CheckThread(s) \/ Spawn(s)
        PROVE  Selected'
    BY <1>0, <1>3 DEF ReadStatus, CheckThread, Spawn, ScheduleGoes, Selected, Covered, TypeOK
  <1>4. ASSUME NEW s \in Schedulers, Enqueue(s) PROVE Selected'
    BY <1>0, <1>4 DEF Enqueue, ScheduleGoes, Selected, Covered, TypeOK
  <1>5. ASSUME NEW s \in Schedulers, Select(s) PROVE Selected'
    <2>1. CASE sched'[s] = "done" /\ picked' = picked
      BY <1>0, <1>5, <2>1 DEF Select, SaveState, ScheduleGoes, Selected, Covered, TypeOK
    <2>2. CASE picked' = [picked EXCEPT ![s] = {c \in Cases : StillOpen(c)}]
      <3>1. ledger' = ledger /\ \A u \in Schedulers \ {s} : sched'[u] = sched[u]
        BY <1>5 DEF Select, SaveState, ScheduleGoes, TypeOK
      <3>2. Covered({c \in Cases : StillOpen(c)})'
        BY <3>1 DEF Covered, StillOpen
      <3>3. \A u \in Schedulers :
               picked'[u] = IF u = s THEN {c \in Cases : StillOpen(c)} ELSE picked[u]
        BY <2>2 DEF TypeOK
      <3>4. QED
        BY <1>0, <3>1, <3>2, <3>3 DEF Selected, Covered
    <2>3. QED
      BY <1>5, <2>1, <2>2 DEF Select, SaveState, ScheduleGoes, TypeOK
  <1>6. CASE Crash
    BY <1>6 DEF Crash, Selected
  <1>7. QED
    BY <1>1, <1>2, <1>3, <1>4, <1>5, <1>6
    DEF Next, Review, BatchStep, Schedule, vars, schedVars, HumanDecides, Ask, Look,
        ModelAnswers, AppendGet, AppendPut, BatchStarts, NextCase, CaseDone,
        BatchDies, BatchEnds, ThreadExits

(* A thread that does not move keeps its account, whoever else moves.      *)
LEMMA OthersKeepAccount ==
    ASSUME TypeOK, Located, [Next]_vars, NEW t \in Threads, ThreadAccount(t),
           act'[t] = act[t], mem'[t] = mem[t], todo'[t] = todo[t]
    PROVE  ThreadAccount(t)'
  <1>1. \A S : Covered(S) => Covered(S)'
    BY ClosedStaysClosed
  <1>2. QED
    BY <1>1 DEF ThreadAccount, Covered

(* Each step of a thread hands its account on. *)
LEMMA ThreadAccountStep ==
    ASSUME TypeOK, Located, Selected, \A t \in Threads : ThreadAccount(t), [Next]_vars
    PROVE  \A t \in Threads : ThreadAccount(t)'
  <1>0. act \in [Actors -> Entry] /\ ledger \in [Cases -> Seq(Actors)]
        /\ mem \in [Threads -> Status] /\ Threads \subseteq Actors
        /\ \A u \in Threads : mem[u].errors \in Nat
    BY DEF TypeOK, Entry, Actors, Status
  <1>c. \A S : Covered(S) => Covered(S)'
    BY ClosedStaysClosed
  <1>s. ASSUME UNCHANGED <<act, mem, todo>> PROVE \A t \in Threads : ThreadAccount(t)'
    BY <1>s, OthersKeepAccount
  <1>1. ASSUME NEW h \in Humans \cup Askers, mem' = mem, todo' = todo,
               \A b \in Actors \ {h} : act'[b] = act[b]
        PROVE  \A t \in Threads : ThreadAccount(t)'
    <2>1. h \notin Threads
      BY ActorsAssumption DEF Models
    <2>2. \A t \in Threads : act'[t] = act[t]
      BY <1>0, <1>1, <2>1
    <2>3. QED
      BY <1>1, <2>2, OthersKeepAccount
  <1>2. ASSUME NEW t \in Threads, ThreadAccount(t)',
               \A u \in Threads \ {t} : /\ act'[u] = act[u] /\ mem'[u] = mem[u]
                                        /\ todo'[u] = todo[u]
        PROVE  \A u \in Threads : ThreadAccount(u)'
    BY <1>2, OthersKeepAccount
  <1>3. ASSUME NEW t \in Threads, Look(t) \/ ModelAnswers(t) PROVE \A u \in Threads : ThreadAccount(u)'
    <2>1. ThreadAccount(t)'
      BY <1>0, <1>3, <1>c, StepMoves
      DEF Look, ModelAnswers, threadVars, Points, ThreadAccount, Covered, OnCase, StillOpen
    <2>2. \A u \in Threads \ {t} : act'[u] = act[u] /\ mem'[u] = mem[u] /\ todo'[u] = todo[u]
      BY <1>0, <1>3, StepMoves DEF Look, ModelAnswers, threadVars, Points
    <2>3. QED
      BY <1>2, <2>1, <2>2
  <1>4. ASSUME NEW t \in Threads, AppendGet(t) PROVE \A u \in Threads : ThreadAccount(u)'
    <2>1. act[t].case \in Cases /\ act[t].pc = "get" /\ UNCHANGED <<mem, todo, ledger>>
      BY <1>0, <1>4 DEF AppendGet, Located, OnCase, threadVars
    <2>2. /\ act'[t].pc \in {"raised", "put"} /\ act'[t].case = act[t].case
          /\ \A b \in Actors \ {t} : act'[b] = act[b]
      BY <1>0, <1>4, <2>1, AppendGetReads
    <2>3. ThreadAccount(t)'
      BY <1>0, <1>c, <2>1, <2>2 DEF ThreadAccount, Covered, OnCase
    <2>4. QED
      BY <1>0, <1>2, <2>1, <2>2, <2>3
  <1>5. ASSUME NEW t \in Threads, AppendPut(t) PROVE \A u \in Threads : ThreadAccount(u)'
    <2>1. /\ act[t].pc = "put" /\ act'[t].pc = "ok" /\ act'[t].case = act[t].case
          /\ \A b \in Actors \ {t} : act'[b] = act[b]
          /\ \A c \in Cases : ledger'[c] = IF c = act[t].case
                                           THEN Append(act[t].seen, t) ELSE ledger[c]
      BY <1>0, <1>5, AppendPutWrites
    <2>2. act[t].case \in Cases /\ act[t].seen \in Seq(Actors) /\ UNCHANGED <<mem, todo>>
      BY <1>0, <1>5, <2>1 DEF AppendPut, Located, OnCase, Entry, threadVars
    <2>3. ~StillOpen(act[t].case)'
      <3>1. ledger'[act[t].case] = Append(act[t].seen, t)
        BY <2>1, <2>2
      <3>2. HumanIn(Append(act[t].seen, t)) \/ ModelIn(Append(act[t].seen, t))
        BY <1>0, <2>2, AppendCloses
      <3>3. HumanIn(ledger'[act'[t].case]) \/ ModelIn(ledger'[act'[t].case])
        BY <2>1, <3>1, <3>2
      <3>4. QED
        BY <3>3 DEF StillOpen
    <2>4. mem[t].errors > 0 \/ Covered(todo[t] \cup {act[t].case})'
      BY <1>c, <2>1, <2>2 DEF ThreadAccount, OnCase, Covered
    <2>5. Covered(todo[t] \cup {act[t].case})' => Covered(todo[t])'
      BY <2>3 DEF Covered
    <2>6. ThreadAccount(t)'
      BY <2>1, <2>2, <2>4, <2>5 DEF ThreadAccount, Covered, OnCase
    <2>7. QED
      BY <1>0, <1>2, <2>1, <2>2, <2>6
  <1>6. ASSUME NEW t \in Threads, BatchStarts(t) PROVE \A u \in Threads : ThreadAccount(u)'
    <2>1. todo' = todo /\ \A u \in Threads \ {t} : mem'[u] = mem[u]
      BY <1>0, <1>6 DEF BatchStarts
    <2>2. /\ act[t].pc = "start" /\ act'[t].pc = "next"
          /\ \A b \in Actors \ {t} : act'[b] = act[b]
      BY <1>0, <1>6, StepMoves DEF BatchStarts, Points
    <2>3. ThreadAccount(t)'
      BY <1>c, <2>1, <2>2 DEF ThreadAccount, Covered, OnCase
    <2>4. QED
      BY <1>0, <1>2, <2>1, <2>2, <2>3
  <1>7. ASSUME NEW t \in Threads, NEW c \in Cases, NextCase(t, c)
        PROVE  \A u \in Threads : ThreadAccount(u)'
    <2>1. /\ act[t].pc = "next" /\ c \in todo[t]
          /\ \A u \in Threads \ {t} : todo'[u] = todo[u] /\ act'[u] = act[u]
          /\ todo'[t] = todo[t] \ {c}
      BY <1>0, <1>7, NextCaseTakes DEF TypeOK
    <2>2. CASE StillOpen(c) /\ act'[t].pc = "look" /\ act'[t].case = c /\ mem' = mem
      <3>1. ThreadAccount(t)'
        BY <1>c, <2>1, <2>2 DEF ThreadAccount, Covered, OnCase
      <3>2. QED
        BY <1>2, <2>1, <2>2, <3>1
    <2>3. CASE ~StillOpen(c) /\ act' = act /\ SaveProgress(t, 0)
      <3>1. mem'[t].errors = mem[t].errors /\ \A u \in Threads \ {t} : mem'[u] = mem[u]
        BY <1>0, <2>3, ProgressSaved
      <3>2. ThreadAccount(t)'
        BY <1>c, <2>1, <2>3, <3>1, ClosedStaysClosed DEF ThreadAccount, Covered, OnCase
      <3>3. QED
        BY <1>2, <2>1, <3>1, <3>2
    <2>4. QED
      BY <1>7, <2>2, <2>3, NextCaseTakes
  <1>8. ASSUME NEW t \in Threads, CaseDone(t) PROVE \A u \in Threads : ThreadAccount(u)'
    <2>1. PICK n \in {0, 1} : /\ SaveProgress(t, n)
                              /\ Step(t, IF n = 0 THEN "ok" ELSE "refused", "next")
      BY <1>8 DEF CaseDone
    <2>2. /\ mem'[t].errors = mem[t].errors + n
          /\ \A u \in Threads \ {t} : mem'[u] = mem[u]
      BY <1>0, <2>1, ProgressSaved
    <2>3. /\ act[t].pc = IF n = 0 THEN "ok" ELSE "refused"
          /\ act'[t].pc = "next" /\ \A b \in Actors \ {t} : act'[b] = act[b]
      BY <1>0, <2>1, StepMoves DEF Points
    <2>4. todo' = todo
      BY <1>8 DEF CaseDone
    <2>5. CASE n = 0
      <3>1. mem'[t].errors = mem[t].errors /\ act[t].pc = "ok"
        BY <1>0, <2>2, <2>3, <2>5
      <3>2. ThreadAccount(t)'
        BY <1>c, <2>3, <2>4, <3>1 DEF ThreadAccount, Covered, OnCase
      <3>3. QED
        BY <1>0, <1>2, <2>2, <2>3, <2>4, <3>2
    <2>6. CASE n = 1
      <3>1. mem'[t].errors > 0
        BY <1>0, <2>2, <2>6
      <3>2. ThreadAccount(t)'
        BY <2>3, <3>1 DEF ThreadAccount, OnCase
      <3>3. QED
        BY <1>0, <1>2, <2>2, <2>3, <2>4, <3>2
    <2>7. QED
      BY <2>5, <2>6
  <1>9. ASSUME NEW t \in Threads, BatchDies(t) \/ BatchEnds(t) \/ ThreadExits(t)
        PROVE  \A u \in Threads : ThreadAccount(u)'
    <2>1. /\ act'[t].pc \in {"dead", "exiting", "ended"}
          /\ \A b \in Actors \ {t} : act'[b] = act[b]
      BY <1>0, <1>9, StepMoves DEF BatchDies, BatchEnds, ThreadExits, Points
    <2>2. todo' = todo /\ \A u \in Threads \ {t} : mem'[u] = mem[u]
      BY <1>0, <1>9 DEF BatchDies, BatchEnds, ThreadExits, threadVars
    <2>3. ThreadAccount(t)'
      BY <2>1 DEF ThreadAccount, OnCase
    <2>4. QED
      BY <1>0, <1>2, <2>1, <2>2, <2>3
  <1>10. ASSUME NEW s \in Schedulers, Spawn(s) PROVE \A u \in Threads : ThreadAccount(u)'
    <2>1. CASE UNCHANGED <<act, todo>>
      BY <1>0, <1>10, <1>s, <2>1, SpawnStarts
    <2>2. ASSUME NEW t \in Threads, act'[t].pc = "start",
                 \A b \in Actors \ {t} : act'[b] = act[b],
                 todo' = [todo EXCEPT ![t] = picked[s]]
          PROVE  \A u \in Threads : ThreadAccount(u)'
      <3>1. todo'[t] = picked[s] /\ \A u \in Threads \ {t} : todo'[u] = todo[u]
        BY <2>2 DEF TypeOK
      <3>2. sched[s] = "spawn" /\ mem' = mem
        BY <1>10 DEF Spawn, ScheduleGoes
      <3>3. ThreadAccount(t)'
        BY <1>c, <2>2, <3>1, <3>2 DEF ThreadAccount, Selected, Covered, OnCase
      <3>4. QED
        BY <1>0, <1>2, <2>2, <3>1, <3>2, <3>3
    <2>3. QED
      BY <1>0, <1>10, <2>1, <2>2, SpawnStarts
  <1>11. CASE Crash
    BY <1>11, CrashDrops DEF ThreadAccount, OnCase
  <1>12. CASE Background
    BY <1>12, <1>s, BackgroundKeeps
  <1>13. ASSUME NEW h \in Humans \cup Askers, h \in Actors,
                Look(h) \/ ModelAnswers(h) \/ AppendGet(h) \/ AppendPut(h)
         PROVE  \A t \in Threads : ThreadAccount(t)'
    <2>1. mem' = mem /\ todo' = todo
      BY <1>13 DEF Look, ModelAnswers, AppendGet, AppendPut, threadVars
    <2>2. AppendGet(h) => act[h].case \in Cases
      BY <1>13 DEF AppendGet, Located, OnCase
    <2>3. \A b \in Actors \ {h} : act'[b] = act[b]
      BY <1>0, <1>13, <2>2, StepMoves, AppendGetReads, AppendPutWrites
      DEF Look, ModelAnswers, Points
    <2>4. QED
      BY <1>1, <2>1, <2>3
  <1>14. ASSUME NEW h \in Humans \cup Askers, NEW c \in Cases,
                (h \in Humans /\ HumanDecides(h, c)) \/ (h \in Askers /\ Ask(h, c))
         PROVE  \A t \in Threads : ThreadAccount(t)'
    <2>1. mem' = mem /\ todo' = todo
      BY <1>14 DEF HumanDecides, Ask, threadVars
    <2>2. \A b \in Actors \ {h} : act'[b] = act[b]
      BY <1>0, <1>14, RequestBegins DEF HumanDecides, Ask, Points, Actors
    <2>3. QED
      BY <1>1, <2>1, <2>2
  <1>15. Actors = Humans \cup Askers \cup Threads
    BY DEF Actors
  <1>16. QED
    BY <1>3, <1>4, <1>5, <1>6, <1>7, <1>8, <1>9, <1>10, <1>11, <1>12, <1>13, <1>14, <1>15
    DEF Next, Review, BatchStep, Schedule, Background

(* A batch is called completed only by a thread that has accounted for all *)
(* its cases without an error.                                             *)
LEMMA CompletionStep ==
    TypeOK /\ Located /\ Accounted /\ [Next]_vars => CompletedBatchLeavesNothingOpen'
  <1> SUFFICES ASSUME TypeOK, Located, Accounted, [Next]_vars
               PROVE  CompletedBatchLeavesNothingOpen'
    OBVIOUS
  <1>0. act \in [Actors -> Entry] /\ mem \in [Threads -> Status]
    BY DEF TypeOK, Entry
  <1>c. \A c \in Cases : StillOpen(c)' => StillOpen(c)
    BY ClosedStaysClosed
  <1>s. CASE batch' = batch
    BY <1>c, <1>s DEF Accounted, CompletedBatchLeavesNothingOpen
  <1>o. CASE batch'.state # "completed"
    BY <1>o DEF CompletedBatchLeavesNothingOpen
  <1>1. ASSUME NEW t \in Threads, BatchStarts(t) PROVE batch'.state # "completed"
    <2>1. batch' = [batch EXCEPT !.state = "running", !.total = Cardinality(todo[t])]
      BY <1>1 DEF BatchStarts, TypeOK
    <2>2. QED
      BY <2>1 DEF TypeOK, Status
  <1>2. ASSUME NEW t \in Threads, NEW c \in Cases, NextCase(t, c)
        PROVE  batch' = batch \/ batch'.state # "completed"
    BY <1>0, <1>2, NextCaseTakes, ProgressSaved DEF Located, Begun
  <1>3. ASSUME NEW t \in Threads, CaseDone(t) PROVE batch'.state # "completed"
    <2>1. act[t].pc \in {"ok", "refused"}
      BY <1>3 DEF CaseDone, Step
    <2>2. batch'.state = mem[t].state
      BY <1>0, <1>3, ProgressSaved DEF CaseDone
    <2>3. QED
      BY <2>1, <2>2 DEF Located, Begun
  <1>4. ASSUME NEW t \in Threads, BatchEnds(t) PROVE CompletedBatchLeavesNothingOpen'
    <2>1. todo[t] = {} /\ act[t].pc = "next" /\ mem[t] \in Status
      BY <1>0, <1>4, StepMoves DEF BatchEnds, Step
    <2>2. batch' = [mem[t] EXCEPT !.state = IF mem[t].errors > 0
                                            THEN "completed_with_errors" ELSE "completed"]
      BY <1>0, <1>4 DEF BatchEnds
    <2>3. batch'.state = "completed" => ~(mem[t].errors > 0)
      BY <2>1, <2>2 DEF Status
    <2>4. batch'.state = "completed" => Covered({})
      BY <2>1, <2>3 DEF Accounted, ThreadAccount
    <2>5. QED
      BY <1>c, <2>4 DEF Covered, CompletedBatchLeavesNothingOpen
  <1>5. ASSUME NEW s \in Schedulers, Select(s)
        PROVE  batch' = batch \/ batch'.state # "completed"
    <2>1. current[s] \in Status
      BY DEF TypeOK
    <2>2. ASSUME NEW st \in {"not_configured", "completed_with_errors", "skipped"},
                 NEW n \in Nat, batch' = [current[s] EXCEPT !.state = st, !.errors = n]
          PROVE  batch'.state # "completed"
      BY <2>1, <2>2 DEF Status
    <2>3. current[s].errors \in Nat
      BY <2>1 DEF Status
    <2>4. QED
      BY <1>5, <2>2, <2>3 DEF Select, SaveState
  <1>6. ASSUME NEW s \in Schedulers, Enqueue(s) PROVE batch'.state # "completed"
    BY <1>6 DEF Enqueue
  <1>7. QED
    BY <1>s, <1>o, <1>1, <1>2, <1>3, <1>4, <1>5, <1>6
    DEF Next, Review, BatchStep, Schedule, vars, HumanDecides, Ask, Look, ModelAnswers,
        AppendGet, AppendPut, BatchDies, ThreadExits, threadVars, RunCompletes, Resume,
        ReadStatus, CheckThread, Spawn, Crash, Boot

(* Every step keeps the account of the cases.                              *)
LEMMA AccountedStep == TypeOK /\ Located /\ Accounted /\ [Next]_vars => Accounted'
  BY SelectedStep, ThreadAccountStep, CompletionStep DEF Accounted
-----------------------------------------------------------------------------
(* One proposal per case. *)

(* A batch thread at work is the one that was started last. *)
Alone == \A t \in Threads : ThreadAlive(t) => newest = t

(* A thread is started only when the last one has ended.                   *)
LEMMA AloneStep == TypeOK /\ Located /\ Alone /\ [Next]_vars => Alone'
  <1> SUFFICES ASSUME TypeOK, Located, Alone, [Next]_vars PROVE Alone'
    OBVIOUS
  <1>0. act \in [Actors -> Entry] /\ Threads \subseteq Actors
    BY DEF TypeOK, Entry, Actors
  <1>1. ASSUME NEW t \in Threads, newest' = newest, act[t].pc \notin {"idle", "ended", "dead"},
               \A u \in Threads \ {t} : act'[u] = act[u]
        PROVE  Alone'
    BY <1>1 DEF Alone, ThreadAlive
  <1>2. ASSUME NEW t \in Threads, Look(t) \/ ModelAnswers(t) \/ AppendPut(t)
        PROVE  Alone'
    BY <1>0, <1>1, <1>2, StepMoves DEF Look, ModelAnswers, AppendPut, schedVars, Points
  <1>3. ASSUME NEW t \in Threads, AppendGet(t) PROVE Alone'
    <2>1. act[t].case \in Cases /\ act[t].pc = "get" /\ newest' = newest
      BY <1>0, <1>3 DEF AppendGet, Located, OnCase, schedVars
    <2>2. QED
      BY <1>0, <1>1, <1>3, <2>1, AppendGetReads DEF TypeOK
  <1>4. ASSUME NEW t \in Threads,
               BatchStarts(t) \/ CaseDone(t) \/ BatchDies(t) \/ BatchEnds(t) \/ ThreadExits(t)
        PROVE  Alone'
    BY <1>0, <1>1, <1>4, StepMoves
    DEF BatchStarts, CaseDone, BatchDies, BatchEnds, ThreadExits, schedVars, Points
  <1>5. ASSUME NEW t \in Threads, NEW c \in Cases, NextCase(t, c) PROVE Alone'
    BY <1>0, <1>1, <1>5, NextCaseTakes
  <1>6. ASSUME NEW s \in Schedulers, Spawn(s) PROVE Alone'
    <2>1. CASE UNCHANGED <<act, newest>>
      BY <2>1 DEF Alone, ThreadAlive
    <2>2. ASSUME NEW t \in Threads, ~LiveBatch, newest' = t,
                 \A b \in Actors \ {t} : act'[b] = act[b]
          PROVE  Alone'
      <3>1. \A u \in Threads : ~ThreadAlive(u)
        BY <2>2 DEF LiveBatch, Alone, Threads
      <3>2. QED
        BY <1>0, <2>2, <3>1 DEF Alone, ThreadAlive
    <2>3. QED
      BY <1>0, <1>6, <2>1, <2>2, SpawnStarts
  <1>7. CASE Crash
    BY <1>7, CrashDrops DEF Alone, ThreadAlive
  <1>8. CASE Background
    BY <1>8, BackgroundKeeps DEF Alone, ThreadAlive
  <1>9. ASSUME NEW h \in Humans \cup Askers, newest' = newest,
               \A b \in Actors \ {h} : act'[b] = act[b]
        PROVE  Alone'
    <2>1. h \notin Threads
      BY ActorsAssumption DEF Models
    <2>2. QED
      BY <1>0, <1>9, <2>1 DEF Alone, ThreadAlive
  <1>10. ASSUME NEW h \in Humans \cup Askers, h \in Actors,
                Look(h) \/ ModelAnswers(h) \/ AppendGet(h) \/ AppendPut(h)
         PROVE  Alone'
    <2>1. newest' = newest
      BY <1>10 DEF Look, ModelAnswers, AppendGet, AppendPut, schedVars
    <2>2. AppendGet(h) => act[h].case \in Cases
      BY <1>10 DEF AppendGet, Located, OnCase
    <2>3. ledger \in [Cases -> Seq(Actors)]
      BY DEF TypeOK
    <2>4. \A b \in Actors \ {h} : act'[b] = act[b]
      BY <1>0, <1>10, <2>2, <2>3, StepMoves, AppendGetReads, AppendPutWrites
      DEF Look, ModelAnswers, Points
    <2>5. QED
      BY <1>9, <2>1, <2>4
  <1>11. ASSUME NEW h \in Humans \cup Askers, NEW c \in Cases,
                (h \in Humans /\ HumanDecides(h, c)) \/ (h \in Askers /\ Ask(h, c))
         PROVE  Alone'
    <2>1. newest' = newest
      BY <1>11 DEF HumanDecides, Ask, schedVars
    <2>2. \A b \in Actors \ {h} : act'[b] = act[b]
      BY <1>0, <1>11, RequestBegins DEF HumanDecides, Ask, Points, Actors
    <2>3. QED
      BY <1>9, <2>1, <2>2
  <1>12. Actors = Humans \cup Askers \cup Threads
    BY DEF Actors
  <1>13. QED
    BY <1>2, <1>3, <1>4, <1>5, <1>6, <1>7, <1>8, <1>10, <1>11, <1>12
    DEF Next, Review, BatchStep, Schedule, Background

(* A case with nothing recorded is one of which nothing has been read. *)
Fresh == \A a \in Actors :
            act[a].pc = "put" /\ ledger[act[a].case] = <<>> => act[a].seen = <<>>

(* Nothing recorded is ever lost again, so the first append decides.       *)
LEMMA FreshStep == TypeOK /\ Located /\ Fresh /\ [Next]_vars => Fresh'
  <1> SUFFICES ASSUME TypeOK, Located, Fresh, [Next]_vars PROVE Fresh'
    OBVIOUS
  <1>0. act \in [Actors -> Entry] /\ ledger \in [Cases -> Seq(Actors)]
    BY DEF TypeOK, Entry
  <1>1. ASSUME NEW a \in Actors, AppendGet(a) PROVE Fresh'
    <2>1. act[a].case \in Cases
      BY <1>1 DEF AppendGet, Located, OnCase
    <2>2. /\ ledger' = ledger /\ \A b \in Actors \ {a} : act'[b] = act[b]
          /\ act'[a].case = act[a].case
          /\ act'[a].pc = "put" => act'[a].seen = ledger[act[a].case]
      BY <1>0, <1>1, <2>1, AppendGetReads
    <2>3. QED
      BY <2>2 DEF Fresh
  <1>2. ASSUME NEW a \in Actors, AppendPut(a) PROVE Fresh'
    <2>1. /\ act'[a].pc = "ok" /\ \A b \in Actors \ {a} : act'[b] = act[b]
          /\ \A c \in Cases : ledger'[c] = IF c = act[a].case
                                           THEN Append(act[a].seen, a) ELSE ledger[c]
      BY <1>0, <1>2, AppendPutWrites
    <2>2. act[a].seen \in Seq(Actors)
      BY <1>0 DEF Entry
    <2>3. Append(act[a].seen, a) # <<>>
      BY <2>2
    <2>4. ASSUME NEW b \in Actors, act'[b].pc = "put", ledger'[act'[b].case] = <<>>
          PROVE  act'[b].seen = <<>>
      <3>1. b # a /\ act'[b] = act[b] /\ act[b].pc = "put"
        BY <2>1, <2>4
      <3>2. act[b].case \in Cases
        BY <3>1 DEF Located, OnCase
      <3>3. ledger[act[b].case] = <<>>
        BY <2>1, <2>3, <2>4, <3>1, <3>2
      <3>4. QED
        BY <3>1, <3>3 DEF Fresh
    <2>5. QED
      BY <2>4 DEF Fresh
  <1>3. CASE \A a \in Actors : ~AppendGet(a) /\ ~AppendPut(a)
    BY <1>3, OnlyAppendWrites DEF Fresh, NoAppend
  <1>4. QED
    BY <1>1, <1>2, <1>3

(* Where a thread works on a case it has not written. *)
Early == {"look", "model", "get"}

(* A thread comes to a case only if the case is open. *)
LEMMA ThreadArrives ==
    ASSUME TypeOK, Located, [Next]_vars, NEW t \in Threads, act'[t].pc \in Early
    PROVE  \/ act[t].pc \in Early /\ act'[t].case = act[t].case
           \/ StillOpen(act'[t].case) /\ act'[t].case \in Cases /\ ledger' = ledger
  <1> DEFINE Arrives == \/ act[t].pc \in Early /\ act'[t].case = act[t].case
                        \/ StillOpen(act'[t].case) /\ act'[t].case \in Cases /\ ledger' = ledger
  <1>0. act \in [Actors -> Entry] /\ ledger \in [Cases -> Seq(Actors)] /\ t \in Actors
    BY DEF TypeOK, Entry, Actors
  <1>1. CASE act'[t] = act[t]
    BY <1>1
  <1>2. ASSUME NEW h \in Humans, NEW c \in Cases, HumanDecides(h, c) PROVE Arrives
    <2>1. h \in Actors /\ t # h
      BY ActorsAssumption DEF Actors, Models
    <2>2. \A b \in Actors \ {h} : act'[b] = act[b]
      BY <1>0, <1>2, <2>1, RequestBegins DEF HumanDecides, Points
    <2>3. QED
      BY <1>0, <1>1, <2>1, <2>2
  <1>3. ASSUME NEW a \in Askers, NEW c \in Cases, Ask(a, c) PROVE Arrives
    <2>1. a \in Actors /\ t # a
      BY ActorsAssumption DEF Actors
    <2>2. \A b \in Actors \ {a} : act'[b] = act[b]
      BY <1>0, <1>3, <2>1, RequestBegins DEF Ask, Points
    <2>3. QED
      BY <1>0, <1>1, <2>1, <2>2
  <1>4. ASSUME NEW a \in Actors, Look(a) \/ ModelAnswers(a) PROVE Arrives
    <2>1. /\ act[a].pc \in Early /\ act'[a].case = act[a].case
          /\ \A b \in Actors \ {a} : act'[b] = act[b]
      BY <1>0, <1>4, StepMoves DEF Look, ModelAnswers, Points, Early
    <2>2. QED
      BY <1>0, <2>1
  <1>5. ASSUME NEW a \in Actors, AppendGet(a) PROVE Arrives
    <2>1. act[a].case \in Cases
      BY <1>5 DEF AppendGet, Located, OnCase
    <2>2. act'[a].pc \notin Early /\ \A b \in Actors \ {a} : act'[b] = act[b]
      BY <1>0, <1>5, <2>1, AppendGetReads DEF Early
    <2>3. QED
      BY <1>0, <2>2
  <1>6. ASSUME NEW a \in Actors, AppendPut(a) PROVE Arrives
    <2>1. act'[a].pc = "ok" /\ \A b \in Actors \ {a} : act'[b] = act[b]
      BY <1>0, <1>6, AppendPutWrites
    <2>2. QED
      BY <1>0, <2>1 DEF Early
  <1>7. ASSUME NEW u \in Threads,
               BatchStarts(u) \/ CaseDone(u) \/ BatchDies(u) \/ BatchEnds(u) \/ ThreadExits(u)
        PROVE  Arrives
    <2>1. /\ act'[u].pc \in {"next", "dead", "exiting", "ended"}
          /\ \A b \in Actors \ {u} : act'[b] = act[b]
      BY <1>0, <1>7, StepMoves
      DEF BatchStarts, CaseDone, BatchDies, BatchEnds, ThreadExits, Points, Actors
    <2>2. QED
      BY <1>0, <2>1 DEF Early
  <1>8. ASSUME NEW u \in Threads, NEW c \in Cases, NextCase(u, c) PROVE Arrives
    BY <1>0, <1>8, NextCaseTakes
  <1>9. ASSUME NEW s \in Schedulers, Spawn(s) PROVE Arrives
    BY <1>0, <1>9, SpawnStarts DEF Early
  <1>10. CASE Crash
    BY <1>10, CrashDrops DEF Early
  <1>11. CASE Background
    BY <1>11, BackgroundKeeps
  <1>12. QED
    BY <1>2, <1>3, <1>4, <1>5, <1>6, <1>7, <1>8, <1>9, <1>10, <1>11
    DEF Next, Review, BatchStep, Schedule, Background

SoleModel(d) == \A i, k \in DOMAIN d : d[i] \in Models /\ d[k] \in Models => i = k

(* While a thread works on a case, nobody has recorded a proposal for it,  *)
(* and no reviewer is about to write one back that he has read.            *)
NoRival(t) == LET c == act[t].case IN
    /\ ~ModelIn(ledger[c])
    /\ \A h \in Humans : act[h].pc = "put" /\ act[h].case = c => ~ModelIn(act[h].seen)

Sole ==
    /\ \A c \in Cases : SoleModel(ledger[c])
    /\ \A a \in Actors : act[a].pc = "put" => SoleModel(act[a].seen)
    /\ \A t \in Threads : act[t].pc \in Early => NoRival(t)
    /\ \A t \in Threads : act[t].pc = "put" => ~ModelIn(act[t].seen)

(* A reviewer's decision adds no proposal, and a proposal is the first. *)
LEMMA SoleKept ==
    ASSUME NEW d \in Seq(Actors), NEW a \in Actors, SoleModel(d),
           a \in Models => ~ModelIn(d)
    PROVE  SoleModel(Append(d, a)) /\ (a \notin Models /\ ~ModelIn(d) => ~ModelIn(Append(d, a)))
  <1> DEFINE e == Append(d, a)
  <1>1. /\ DOMAIN e = 1..(Len(d) + 1) /\ DOMAIN d = 1..Len(d)
        /\ Len(d) \in Nat /\ e[Len(d) + 1] = a
        /\ \A i \in DOMAIN d : e[i] = d[i]
    BY Appended
  <1> HIDE DEF e
  <1>2. \A i \in DOMAIN e : i \in DOMAIN d \/ i = Len(d) + 1
    BY <1>1
  <1>3. SoleModel(e)
    BY <1>1, <1>2 DEF SoleModel, ModelIn
  <1>4. a \notin Models /\ ~ModelIn(d) => ~ModelIn(e)
    BY <1>1, <1>2 DEF ModelIn
  <1>5. QED
    BY <1>3, <1>4 DEF e

(* Without askers the threads are the only models, and one works at a time. *)
LEMMA SoleStep ==
    ASSUME Askers = {}, TypeOK, Located, Alone, Fresh, Sole, [Next]_vars
    PROVE  Sole'
  <1>0. /\ act \in [Actors -> Entry] /\ ledger \in [Cases -> Seq(Actors)]
        /\ Models = Threads /\ Actors = Humans \cup Threads /\ Humans \cap Threads = {}
    BY ActorsAssumption DEF TypeOK, Entry, Actors, Models
  <1>1. ASSUME NEW a \in Actors, AppendGet(a) PROVE Sole'
    <2>1. act[a].case \in Cases /\ act[a].pc = "get"
      BY <1>1 DEF AppendGet, Located, OnCase
    <2>2. /\ ledger' = ledger /\ \A b \in Actors \ {a} : act'[b] = act[b]
          /\ act'[a].case = act[a].case /\ act'[a].pc \notin Early
          /\ act'[a].pc = "put" => act'[a].seen = ledger[act[a].case]
      BY <1>0, <1>1, <2>1, AppendGetReads DEF Early
    <2>3. a \in Threads => ~ModelIn(ledger[act[a].case])
      BY <2>1 DEF Sole, NoRival, Early
    <2>4. ASSUME NEW t \in Threads, act'[t].pc \in Early PROVE NoRival(t)'
      <3>1. act'[t] = act[t] /\ act[t].pc \in Early
        BY <1>0, <2>2, <2>4
      <3>2. NoRival(t)
        BY <3>1 DEF Sole
      <3>3. QED
        BY <1>0, <2>2, <3>1, <3>2 DEF NoRival
    <2>5. QED
      BY <1>0, <2>1, <2>2, <2>3, <2>4 DEF Sole
  <1>2. ASSUME NEW a \in Actors, AppendPut(a) PROVE Sole'
    <2>1. /\ act[a].pc = "put" /\ act'[a].pc = "ok" /\ act'[a].case = act[a].case
          /\ \A b \in Actors \ {a} : act'[b] = act[b]
          /\ \A c \in Cases : ledger'[c] = IF c = act[a].case
                                           THEN Append(act[a].seen, a) ELSE ledger[c]
      BY <1>0, <1>2, AppendPutWrites
    <2>2. act[a].seen \in Seq(Actors) /\ act[a].case \in Cases
      BY <1>0, <2>1 DEF Entry, Located, OnCase
    <2>3. SoleModel(act[a].seen) /\ (a \in Models => ~ModelIn(act[a].seen))
      BY <1>0, <2>1 DEF Sole
    <2>4. SoleModel(Append(act[a].seen, a))
          /\ (a \notin Models /\ ~ModelIn(act[a].seen) => ~ModelIn(Append(act[a].seen, a)))
      BY <2>2, <2>3, SoleKept
    <2>5. ASSUME NEW t \in Threads, act'[t].pc \in Early PROVE NoRival(t)'
      <3>1. t # a /\ act'[t] = act[t] /\ act[t].pc \in Early
        BY <1>0, <2>1, <2>5 DEF Early
      <3>2. NoRival(t) /\ act[t].case \in Cases
        BY <1>0, <3>1 DEF Sole, Located, Early, OnCase
      <3>3. a \in Humans
        <4>1. ThreadAlive(t) /\ (a \in Threads => ThreadAlive(a))
          BY <2>1, <3>1 DEF ThreadAlive, Early
        <4>2. QED
          BY <1>0, <3>1, <4>1 DEF Alone
      <3>4. act[a].case = act[t].case => ~ModelIn(act[a].seen) /\ a \notin Models
        BY <1>0, <2>1, <3>2, <3>3 DEF NoRival
      <3>5. ~ModelIn(ledger'[act[t].case])
        BY <2>1, <2>4, <3>2, <3>4 DEF NoRival
      <3>6. \A h \in Humans : act'[h].pc = "put" => act'[h] = act[h]
        BY <1>0, <2>1
      <3>7. QED
        BY <1>0, <3>1, <3>2, <3>5, <3>6 DEF NoRival
    <2>6. \A c \in Cases : SoleModel(ledger'[c])
      BY <2>1, <2>4 DEF Sole
    <2>7. \A b \in Actors : act'[b].pc = "put" => act'[b] = act[b]
      BY <2>1
    <2>8. QED
      BY <1>0, <2>5, <2>6, <2>7 DEF Sole
  <1>3. CASE \A a \in Actors : ~AppendGet(a) /\ ~AppendPut(a)
    <2>1. NoAppend
      BY <1>3, OnlyAppendWrites
    <2>2. ASSUME NEW t \in Threads, act'[t].pc \in Early PROVE NoRival(t)'
      <3>1. CASE act[t].pc \in Early /\ act'[t].case = act[t].case
        <4>1. NoRival(t)
          BY <3>1 DEF Sole
        <4>2. QED
          BY <1>0, <2>1, <3>1, <4>1 DEF NoAppend, NoRival
      <3>2. CASE StillOpen(act'[t].case) /\ act'[t].case \in Cases
        <4>1. ledger[act'[t].case] \in Seq(Actors)
          BY <1>0, <3>2
        <4>2. ledger[act'[t].case] = <<>>
          BY <1>0, <3>2, <4>1 DEF StillOpen, HumanIn, ModelIn
        <4>3. \A h \in Humans : act[h].pc = "put" /\ act[h].case = act'[t].case
                                  => ~ModelIn(act[h].seen)
          <5>1. ~ModelIn(<<>>)
            BY DEF ModelIn
          <5>2. QED
            BY <1>0, <4>2, <5>1 DEF Fresh
        <4>4. QED
          BY <1>0, <2>1, <3>2, <4>3 DEF NoAppend, NoRival, StillOpen
      <3>3. QED
        BY <2>2, <3>1, <3>2, ThreadArrives
    <2>3. QED
      BY <1>0, <2>1, <2>2 DEF NoAppend, Sole
  <1>4. QED
    BY <1>1, <1>2, <1>3
-----------------------------------------------------------------------------
(* The theorems. *)

IInv == TypeOK /\ Located /\ Ordered /\ Accounted /\ Alone /\ Fresh

(* The invariant holds at first.                                           *)
LEMMA InitInv == Init => IInv
  <1> SUFFICES ASSUME Init PROVE IInv
    OBVIOUS
  <1>0. \A a \in Actors : act[a] = Idle /\ Idle.pc = "idle"
    BY DEF Init, Idle
  <1>1. TypeOK
    <2>1. Idle \in [pc : Points, case : Cases \cup {"none"}, seen : Seq(Actors)]
      <3>1. <<>> \in Seq(Actors)
        OBVIOUS
      <3>2. QED
        BY <3>1 DEF Idle, Points
    <2>2. NotStarted \in Status
      BY DEF NotStarted, Status
    <2>3. \A c \in Cases : <<>> \in Seq(Actors)
      OBVIOUS
    <2>4. ledger \in [Cases -> Seq(Actors)]
      BY <2>3 DEF Init
    <2>5. QED
      BY <2>1, <2>2, <2>4 DEF Init, TypeOK
  <1>2. Located
    BY <1>0 DEF Located, OnCase, Begun, Actors
  <1>3. Ordered
    <2>1. HumanFinal(<<>>)
      BY DEF HumanFinal
    <2>2. QED
      BY <1>0, <2>1 DEF Ordered, Init
  <1>4. Accounted
    <2>1. batch.state # "completed"
      BY DEF Init, NotStarted
    <2>2. QED
      BY <1>0, <2>1 DEF Init, Accounted, Selected, ThreadAccount, OnCase, Actors,
                        CompletedBatchLeavesNothingOpen
  <1>5. Alone /\ Fresh
    BY <1>0 DEF Alone, ThreadAlive, Fresh, Actors
  <1>6. QED
    BY <1>1, <1>2, <1>3, <1>4, <1>5 DEF IInv

(* The invariant on which all theorems about the review ledger rest. *)
THEOREM Inductive == Spec => []IInv
  <1>1. IInv /\ [Next]_vars => IInv'
    BY TypeStep, LocatedStep, OrderedStep, AccountedStep, AloneStep, FreshStep DEF IInv
  <1>2. QED
    BY <1>1, InitInv, PTL DEF Spec

(* The variables of the review ledger keep their types. *)
THEOREM TypesAreKept == Spec => []TypeOK
  <1>1. IInv => TypeOK
    BY DEF IInv
  <1>2. QED
    BY <1>1, Inductive, PTL

(* No proposal of a model stands after a reviewer's decision, however the  *)
(* appends of reviewers, askers and batch threads interleave.              *)
THEOREM ReviewersHaveTheLastWord == Spec => []HumanIsFinal
  <1>1. IInv => HumanIsFinal
    BY DEF IInv, Ordered, HumanFinal, HumanIsFinal
  <1>2. QED
    BY <1>1, Inductive, PTL

(* A batch that reports completion without errors has closed every case,   *)
(* across crashes, resumptions and concurrent reviewers.                   *)
THEOREM CompletionIsReal == Spec => []CompletedBatchLeavesNothingOpen
  <1>1. IInv => CompletedBatchLeavesNothingOpen
    BY DEF IInv, Accounted
  <1>2. QED
    BY <1>1, Inductive, PTL

(* On a platform nobody asks for a second pass, no case is proposed twice: *)
(* the batch threads work one at a time, each skips what an earlier one    *)
(* has proposed, and a reviewer's late append cannot erase a proposal that *)
(* a thread then repeats.                                                  *)
THEOREM ProposalsAreSole == ASSUME Askers = {} PROVE Spec => []OneProposalPerCase
  <1>1. Init => Sole
    <2>1. ASSUME Init PROVE Sole
      <3>1. \A a \in Actors : act[a].pc = "idle"
        BY <2>1 DEF Init, Idle
      <3>2. SoleModel(<<>>)
        BY DEF SoleModel
      <3>3. QED
        BY <2>1, <3>1, <3>2 DEF Init, Sole, Early, Actors
    <2>2. QED
      BY <2>1
  <1>2. IInv /\ Sole /\ [Next]_vars => Sole'
    BY SoleStep DEF IInv
  <1>3. Sole => OneProposalPerCase
    BY DEF Sole, SoleModel, OneProposalPerCase
  <1>4. QED
    BY <1>1, <1>2, <1>3, Inductive, PTL DEF Spec
=============================================================================
