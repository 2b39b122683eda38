------------------------- MODULE WorkerSessionProofs -------------------------
(***************************************************************************)
(* A run on its workers, for any number of repetitions, questions, crashes *)
(* and any set of setups: that it is a run of WorkerPromise, that the      *)
(* verdict of the acceptance gate stands as long as questions are asked,   *)
(* and that what was accepted by its edges is stored with its text.        *)
(* The inductive invariant IInv says                                       *)
(*   Asked    which questions have a result where the loop stands,         *)
(*   Counted  what the places of the loop say of the question in hand,     *)
(*   Held     a handle that was cleared has no worker left behind it,      *)
(*   Watched  a watcher is over when the next repetition begins, unless    *)
(*            the run was cancelled,                                       *)
(*   Locked   who ends the worker holds the lock, and has the whole group  *)
(*            in its aim.                                                  *)
(* For the index Stocked and Stands are added to it: the inputs are made of*)
(* the document's segments, and an ingest request the client gave up works *)
(* only where no question can be asked any more.                           *)
(*                                                                         *)
(* For the hits of a benchmark run the contract is proved first: the pieces*)
(* of a text follow each other from its beginning to its end (SplitTiles,  *)
(* by induction over what is left of the text), so that the leaves a Gold  *)
(* Evidence is projected onto are returned exactly when the text it is     *)
(* about is (EvidenceIsShown, PathIsShown).  Ranked then says of the run   *)
(* that the inputs are those leaves, that an accepted index holds each of  *)
(* them, and that the last result is what they give.                       *)
(***************************************************************************)
EXTENDS WorkerSession, FiniteSetTheorems, WellFoundedInduction, TLAPS

Places == {"loop", "start", "handshake", "prepare", "ingest", "case", "send", "query",
           "stop", "closing", "snapshot", "kill", "join", "ended"}
WatcherPlaces == {"off", "polling", "cancelling", "killing", "recording"}

Typed ==
    /\ pc \in Places
    /\ rep \in 1 .. Reps /\ case \in 1 .. (Cases + 1)
    /\ watcher = [at |-> watcher.at, sure |-> watcher.sure]
    /\ watcher.at \in WatcherPlaces

Asked ==
    results = ((1 .. (rep - 1)) \X (1 .. Cases)) \cup ({rep} \X (1 .. (case - 1)))

Counted ==
    /\ pc \in {"loop", "start", "handshake", "prepare", "ingest"} => case = 1
    /\ pc \in {"send", "query"} => case <= Cases
    /\ StopIsSet /\ ~ raised /\ manifest # "cancelled" => case = Cases + 1

Held ==
    /\ ~ tracked => procs \cap OwnGroup = {}
    /\ pc \in {"loop", "ended"} => ~ tracked
    /\ pc = "join" => procs \cap OwnGroup = {}

Watched ==
    /\ pc = "start" \/ (pc = "loop" /\ ~ cancelled) => watcher.at = "off"
    /\ watcher.at \notin {"off", "polling"} => cancelled

Locked ==
    /\ IsLocal /\ pc \in {"closing", "snapshot", "kill"} => lock = "main"
    /\ watcher.at = "killing" => lock = "watcher" /\ OwnGroup \subseteq aimed
    /\ IsLocal /\ pc = "kill" => OwnGroup \subseteq aimed

IInv == Typed /\ Asked /\ Counted /\ Held /\ Watched /\ Locked

-----------------------------------------------------------------------------
(* The steps that leave the loop alone and add no worker: those of the     *)
(* servers, the adapters, the parser, and all crashes.                     *)

Aside ==
    /\ UNCHANGED <<setup, sessionVars, watcher, cancelled, tracked, aimed, lock>>
    /\ procs' \cap OwnGroup # {} => procs \cap OwnGroup # {}

LEMMA AsideKeeps ==
    ASSUME IInv, Aside
    PROVE  IInv'
<1>1. Typed' /\ Asked' /\ Counted'
  BY DEF IInv, Aside, Typed, Asked, Counted, sessionVars, StopIsSet
<1>2. Held'
  BY DEF IInv, Aside, Held, sessionVars
<1>3. Watched' /\ Locked'
  BY DEF IInv, Aside, Watched, Locked, IsLocal, sessionVars
<1>. QED
  BY <1>1, <1>2, <1>3 DEF IInv

LEMMA ChildrenAreAside ==
    ASSUME NEW child, Spawn(child) \/ ChildEnds(child) \/ Crash(IsLocal),
           UNCHANGED <<setup, sessionVars, watchVars>>
    PROVE  Aside
BY DEF Spawn, ChildEnds, Crash, Aside, OwnGroup, Alive, watchVars

(* The executor goes to another place and takes nothing with it, or leaves *)
(* with an exception for the finally block.                                *)
LEMMA RaiseKeeps ==
    ASSUME IInv, Raise, ~ StopIsSet, pc # "ended",
           UNCHANGED <<setup, handleVars, watchVars>>
    PROVE  IInv'
<1>1. Typed' /\ Asked'
  BY DEF IInv, Raise, Typed, Asked, Places, watchVars
<1>2. Counted'
  BY DEF Raise, Counted, StopIsSet
<1>3. Held' /\ Watched' /\ Locked'
  BY DEF IInv, Raise, Held, Watched, Locked, IsLocal, handleVars, watchVars
<1>. QED
  BY <1>1, <1>2, <1>3 DEF IInv

LEMMA ResultKeeps ==
    ASSUME IInv, SessionAssumption, pc = "query", NEW status, NEW found, NEW hit,
           Result(status, found, hit), UNCHANGED <<setup, handleVars, watchVars>>
    PROVE  IInv'
<1>1. /\ pc' \in {"stop", "case"} /\ case' = case + 1 /\ rep' = rep
      /\ results' = results \cup {<<rep, case>>}
      /\ pc' = "stop" => manifest' = "cancelled"
  BY DEF Result
<1>2. rep \in Nat /\ case \in 1 .. Cases /\ Cases \in Nat
  BY DEF IInv, Typed, Counted, SessionAssumption
<1>3. Typed'
  BY <1>1, <1>2 DEF IInv, Typed, Places, watchVars
<1>4. 1 .. (case' - 1) = (1 .. (case - 1)) \cup {case}
  BY <1>1, <1>2
<1>5. Asked'
  BY <1>1, <1>4 DEF IInv, Asked
<1>6. Counted'
  BY <1>1 DEF Counted, StopIsSet
<1>7. Held' /\ Watched' /\ Locked'
  BY <1>1 DEF IInv, Held, Watched, Locked, IsLocal, handleVars, watchVars
<1>. QED
  BY <1>3, <1>5, <1>6, <1>7 DEF IInv

-----------------------------------------------------------------------------
(* The executor's own steps.                                               *)

LEMMA BeginningKeeps ==
    ASSUME IInv, SessionAssumption, LoopTop \/ StartWorker \/ WorkerUp \/ HandshakeTimesOut \/ Handshake
    PROVE  IInv'
<1>1. CASE LoopTop
  <2>1. Typed' /\ Asked' /\ Counted'
    BY <1>1 DEF LoopTop, End, GoTo, IInv, Typed, Asked, Counted, Places, watchVars, StopIsSet
  <2>2. Held' /\ Watched' /\ Locked'
    BY <1>1 DEF LoopTop, End, GoTo, IInv, Held, Watched, Locked, IsLocal, watchVars, handleVars
  <2>. QED
    BY <2>1, <2>2 DEF IInv
<1>2. CASE StartWorker
  <2>1. Typed' /\ Asked' /\ Counted'
    BY <1>2 DEF StartWorker, End, IInv, Typed, Asked, Counted, Places, watchVars, sessionVars, StopIsSet
  <2>2. Held' /\ Watched' /\ Locked'
    BY <1>2 DEF StartWorker, Launch, End, IInv, Held, Watched, Locked, IsLocal, watchVars, handleVars, sessionVars
  <2>. QED
    BY <2>1, <2>2 DEF IInv
<1>3. CASE WorkerUp
  <2>1. Typed' /\ Asked' /\ Counted'
    BY <1>3 DEF WorkerUp, GoTo, IInv, Typed, Asked, Counted, Places, WatcherPlaces, StopIsSet
  <2>2. Held' /\ Watched' /\ Locked'
    BY <1>3 DEF WorkerUp, GoTo, IInv, Held, Watched, Locked, IsLocal, handleVars
  <2>. QED
    BY <2>1, <2>2 DEF IInv
<1>4. CASE HandshakeTimesOut
  BY <1>4, RaiseKeeps DEF HandshakeTimesOut, StopIsSet
<1>5. CASE Handshake
  <2>1. /\ pc = "handshake"
        /\ (pc' = "prepare" /\ UNCHANGED raised) \/ (pc' = "stop" /\ raised' = TRUE)
        /\ UNCHANGED <<setup, handleVars, watchVars, rep, case, results>>
    <3>1. pc = "handshake" /\ UNCHANGED <<setup, handleVars, watchVars, rep, case, results>>
      BY <1>5 DEF Handshake
    <3>2. CASE setup.corpus = "canonical" /\ ManifestFails(setup.doc, setup.gold)
      BY <1>5, <3>1, <3>2 DEF Handshake
    <3>3. CASE ~(setup.corpus = "canonical" /\ ManifestFails(setup.doc, setup.gold))
      <4>1. pc' = "prepare" /\ UNCHANGED raised
        BY Zenon, <1>5, <3>3 DEF Handshake
      <4>. QED
        BY <3>1, <4>1
    <3>. QED
      BY <3>1, <3>2, <3>3
  <2>2. Typed' /\ Asked' /\ Counted'
    BY <2>1 DEF IInv, Typed, Asked, Counted, Places, watchVars, StopIsSet
  <2>3. Held' /\ Watched' /\ Locked'
    BY <2>1 DEF IInv, Held, Watched, Locked, IsLocal, handleVars, watchVars
  <2>. QED
    BY <2>2, <2>3 DEF IInv
<1>. QED
  BY <1>1, <1>2, <1>3, <1>4, <1>5

LEMMA QuestionsKeep ==
    ASSUME IInv, SessionAssumption,
           NextCase \/ SendQuery \/ QueryAnswered \/ QueryFails \/ TimesOut \/ Broken
    PROVE  IInv'
<1>1. CASE NextCase
  <2>1. /\ pc = "case" /\ pc' = IF case > Cases \/ cancelled THEN "stop" ELSE "send"
        /\ manifest' = IF case <= Cases /\ cancelled THEN "cancelled" ELSE manifest
        /\ UNCHANGED <<setup, handleVars, watchVars, rep, case, results, raised>>
    BY <1>1 DEF NextCase
  <2>2. Typed' /\ Asked'
    BY <2>1 DEF IInv, Typed, Asked, Places, watchVars
  <2>3. Counted'
    BY <2>1 DEF IInv, Typed, Counted, StopIsSet, SessionAssumption
  <2>4. Held' /\ Watched' /\ Locked'
    BY <2>1 DEF IInv, Held, Watched, Locked, IsLocal, handleVars, watchVars
  <2>. QED
    BY <2>2, <2>3, <2>4 DEF IInv
<1>2. CASE SendQuery
  <2>1. CASE Raise
    BY <1>2, <2>1, RaiseKeeps DEF SendQuery, StopIsSet
  <2>2. CASE GoTo("query")
    <3>1. /\ pc = "send" /\ pc' = "query"
          /\ UNCHANGED <<setup, handleVars, watchVars, rep, case, results, raised, manifest>>
      BY <1>2, <2>2 DEF SendQuery, GoTo
    <3>2. Typed' /\ Asked' /\ Counted'
      BY <3>1 DEF IInv, Typed, Asked, Counted, Places, watchVars, StopIsSet
    <3>3. Held' /\ Watched' /\ Locked'
      BY <3>1 DEF IInv, Held, Watched, Locked, IsLocal, handleVars, watchVars
    <3>. QED
      BY <3>2, <3>3 DEF IInv
  <2>. QED
    BY <1>2, <2>1, <2>2 DEF SendQuery
<1>3. CASE QueryAnswered
  BY <1>3, ResultKeeps DEF QueryAnswered
<1>4. CASE QueryFails
  BY <1>4, ResultKeeps DEF QueryFails, Failed
<1>5. CASE TimesOut
  BY <1>5, ResultKeeps, RaiseKeeps DEF TimesOut, Failed, StopIsSet
<1>6. CASE Broken
  BY <1>6, ResultKeeps, RaiseKeeps DEF Broken, Failed, StopIsSet
<1>. QED
  BY <1>1, <1>2, <1>3, <1>4, <1>5, <1>6

LEMMA EndingKeeps ==
    ASSUME IInv, SessionAssumption, Stop \/ CloseAdapter \/ CloseFails \/ SnapshotTree \/ EndWorker
    PROVE  IInv'
<1>1. UNCHANGED <<setup, rep, case, manifest, raised, results, watcher, cancelled>>
  BY DEF Stop, CloseAdapter, CloseFails, SnapshotTree, EndWorker, GoTo, watchVars
<1>2. StopIsSet /\ pc' \in {"closing", "snapshot", "kill", "join"}
  BY DEF Stop, CloseAdapter, CloseFails, SnapshotTree, EndWorker, GoTo, StopIsSet
<1>3. Typed' /\ Asked' /\ Counted'
  BY <1>1, <1>2 DEF IInv, Typed, Asked, Counted, Places, StopIsSet
<1>4. Watched'
  BY <1>1, <1>2 DEF IInv, Watched
<1>5. CASE Stop
  <2>1. Held' /\ Locked'
    BY <1>5, <1>1 DEF Stop, GoTo, IInv, Held, Locked, IsLocal
  <2>. QED
    BY <1>3, <1>4, <2>1 DEF IInv
<1>6. CASE CloseAdapter \/ CloseFails
  <2>1. Held' /\ Locked'
    BY <1>6, <1>1 DEF CloseAdapter, CloseFails, GoTo, IInv, Held, Locked, IsLocal, handleVars
  <2>. QED
    BY <1>3, <1>4, <2>1 DEF IInv
<1>7. CASE SnapshotTree
  <2>1. Held' /\ Locked'
    BY <1>7, <1>1 DEF SnapshotTree, Snapshot, Targets, GoTo, IInv, Held, Locked, IsLocal, handleVars
  <2>. QED
    BY <1>3, <1>4, <2>1 DEF IInv
<1>8. CASE EndWorker
  <2>1. Held' /\ Locked'
    BY <1>8, <1>1 DEF EndWorker, Kill, RemoveContainer, GoTo, IInv, Held, Locked, IsLocal
  <2>. QED
    BY <1>3, <1>4, <2>1 DEF IInv
<1>. QED
  BY <1>5, <1>6, <1>7, <1>8

LEMMA JoinKeeps ==
    ASSUME IInv, SessionAssumption, Join
    PROVE  IInv'
<1>1. /\ pc = "join" /\ watcher.at # "polling" /\ tracked' = FALSE
      /\ UNCHANGED <<setup, procs, aimed, lock, watcher, cancelled, results>>
  BY DEF Join, watchVars, End
<1>2. \/ pc' = "ended" /\ UNCHANGED <<rep, case>>
      \/ /\ ~ raised /\ manifest # "cancelled" /\ rep # Reps
         /\ pc' = "loop" /\ rep' = rep + 1 /\ case' = 1
  BY DEF Join, End
<1>3. rep \in 1 .. Reps /\ Reps \in Nat /\ Cases \in Nat /\ case \in 1 .. (Cases + 1)
  BY DEF IInv, Typed, SessionAssumption
<1>4. Typed'
  BY <1>1, <1>2, <1>3 DEF IInv, Typed, Places
<1>5. Asked'
  <2>1. CASE UNCHANGED <<rep, case>>
    BY <1>1, <2>1 DEF IInv, Asked
  <2>2. CASE ~ raised /\ manifest # "cancelled" /\ rep' = rep + 1 /\ case' = 1
    <3>1. case - 1 = Cases
      BY <1>1, <1>3, <2>2 DEF IInv, Counted, StopIsSet
    <3>2. results = ((1 .. (rep - 1)) \X (1 .. Cases)) \cup ({rep} \X (1 .. Cases))
      BY <3>1 DEF IInv, Asked
    <3>3. 1 .. (rep' - 1) = (1 .. (rep - 1)) \cup {rep} /\ 1 .. (case' - 1) = {}
      BY <1>3, <2>2
    <3>. QED
      BY <1>1, <3>2, <3>3 DEF Asked
  <2>. QED
    BY <1>2, <2>1, <2>2
<1>6. Counted'
  BY <1>1, <1>2 DEF IInv, Counted, StopIsSet
<1>7. Held' /\ Watched' /\ Locked'
  BY <1>1, <1>2 DEF IInv, Typed, Held, Watched, Locked, IsLocal, WatcherPlaces
<1>. QED
  BY <1>4, <1>5, <1>6, <1>7 DEF IInv

-----------------------------------------------------------------------------
(* The watcher's steps, and the answers of the worker.                     *)

LEMMA WatcherKeeps ==
    ASSUME IInv, Watcher
    PROVE  IInv'
<1>1. UNCHANGED <<setup, sessionVars, cancelled>>
  BY DEF Watcher, WatcherSees, WatcherQuits, WatcherTakes, WatcherKills, WatcherRemoves, WatcherRecords
<1>2. Asked' /\ Counted'
  BY <1>1 DEF IInv, Asked, Counted, sessionVars, StopIsSet
<1>3. CASE WatcherSees \/ WatcherQuits
  <2>1. /\ watcher.at = "polling" /\ watcher'.at \in {"cancelling", "off"}
        /\ watcher'.at = "cancelling" => cancelled
        /\ watcher' = [at |-> watcher'.at, sure |-> watcher'.sure]
        /\ UNCHANGED handleVars
    BY <1>3 DEF WatcherSees, WatcherQuits, WatcherIs, IInv, Typed
  <2>2. Typed'
    BY <1>1, <2>1 DEF IInv, Typed, sessionVars, WatcherPlaces
  <2>3. Held' /\ Watched' /\ Locked'
    BY <1>1, <2>1 DEF IInv, Held, Watched, Locked, IsLocal, handleVars, sessionVars
  <2>. QED
    BY <1>2, <2>2, <2>3 DEF IInv
<1>4. CASE WatcherTakes
  <2>1. /\ watcher.at = "cancelling" /\ IsLocal /\ lock = "none"
        /\ watcher' = [at |-> watcher'.at, sure |-> watcher'.sure]
        /\ \/ tracked /\ lock' = "watcher" /\ aimed' = Targets /\ watcher'.at = "killing"
           \/ watcher'.at = "recording" /\ UNCHANGED <<lock, aimed>>
        /\ UNCHANGED <<procs, tracked>>
    BY <1>4 DEF WatcherTakes, WatcherIs, IInv, Typed
  <2>2. Typed'
    BY <1>1, <2>1 DEF IInv, Typed, sessionVars, WatcherPlaces
  <2>3. Held' /\ Watched' /\ Locked'
    BY <1>1, <2>1 DEF IInv, Held, Watched, Locked, IsLocal, sessionVars, Targets
  <2>. QED
    BY <1>2, <2>2, <2>3 DEF IInv
<1>5. CASE WatcherKills
  <2>1. /\ watcher.at = "killing" /\ IsLocal /\ lock = "watcher" /\ tracked' = FALSE
        /\ watcher' = [at |-> watcher'.at, sure |-> watcher'.sure]
        /\ watcher'.at = "recording" /\ lock' = "none" /\ procs' = procs \ aimed
    BY <1>5 DEF WatcherKills, Kill
  <2>2. Typed'
    BY <1>1, <2>1 DEF IInv, Typed, sessionVars, WatcherPlaces
  <2>3. Held' /\ Watched' /\ Locked'
    BY <1>1, <2>1 DEF IInv, Held, Watched, Locked, IsLocal, sessionVars
  <2>. QED
    BY <1>2, <2>2, <2>3 DEF IInv
<1>6. CASE WatcherRemoves
  <2>1. /\ watcher.at = "cancelling" /\ procs' = {} /\ UNCHANGED <<tracked, aimed, lock>>
        /\ watcher' = [at |-> watcher'.at, sure |-> watcher'.sure]
        /\ watcher'.at = "recording"
    BY <1>6 DEF WatcherRemoves, RemoveContainer
  <2>2. Typed'
    BY <1>1, <2>1 DEF IInv, Typed, sessionVars, WatcherPlaces
  <2>3. Held' /\ Watched' /\ Locked'
    BY <1>1, <2>1 DEF IInv, Held, Watched, Locked, IsLocal, sessionVars
  <2>. QED
    BY <1>2, <2>2, <2>3 DEF IInv
<1>7. CASE WatcherRecords
  <2>1. /\ watcher.at = "recording" /\ UNCHANGED <<procs, tracked, aimed, lock>>
        /\ watcher' = [at |-> watcher'.at, sure |-> watcher'.sure]
        /\ watcher'.at = "off"
    BY <1>7 DEF WatcherRecords, WatcherIs, IInv, Typed
  <2>2. Typed'
    BY <1>1, <2>1 DEF IInv, Typed, sessionVars, WatcherPlaces
  <2>3. Held' /\ Watched' /\ Locked'
    BY <1>1, <2>1 DEF IInv, Held, Watched, Locked, IsLocal, sessionVars
  <2>. QED
    BY <1>2, <2>2, <2>3 DEF IInv
<1>. QED
  BY <1>3, <1>4, <1>5, <1>6, <1>7 DEF Watcher

(* What the loop does on an answer of prepare or ingest. *)
LEMMA AnswersKeep ==
    ASSUME IInv, SessionAssumption, Prepared \/ PrepareFails \/ Ingested \/ IngestFails
    PROVE  IInv'
<1>1. UNCHANGED <<setup, handleVars, watchVars>>
  BY DEF Prepared, PrepareFails, Ingested, IngestFails
<1>2. \/ UNCHANGED sessionVars
      \/ Raise /\ pc \in {"prepare", "ingest"}
      \/ pc = "prepare" /\ pc' = "ingest" /\ UNCHANGED <<rep, case, raised, results>>
      \/ pc = "ingest" /\ pc' = "case" /\ case' = 1 /\ UNCHANGED <<rep, raised, results>>
  BY DEF Prepared, PrepareFails, Ingested, IngestFails, Answer
<1>3. CASE UNCHANGED sessionVars
  BY <1>1, <1>3, AsideKeeps DEF Aside, handleVars, watchVars
<1>4. CASE Raise /\ pc \in {"prepare", "ingest"}
  BY <1>1, <1>4, RaiseKeeps DEF StopIsSet
<1>5. CASE \/ pc = "prepare" /\ pc' = "ingest" /\ UNCHANGED <<rep, case, raised, results>>
           \/ pc = "ingest" /\ pc' = "case" /\ case' = 1 /\ UNCHANGED <<rep, raised, results>>
  <2>1. case' = case
    BY <1>5 DEF IInv, Counted
  <2>2. Typed' /\ Asked' /\ Counted'
    BY <1>1, <1>5, <2>1 DEF IInv, Typed, Asked, Counted, Places, StopIsSet, watchVars
  <2>3. Held' /\ Watched' /\ Locked'
    BY <1>1, <1>5 DEF IInv, Held, Watched, Locked, IsLocal, handleVars, watchVars
  <2>. QED
    BY <2>2, <2>3 DEF IInv
<1>. QED
  BY <1>2, <1>3, <1>4, <1>5

LEMMA OthersAreAside ==
    ASSUME \/ StartServer \/ LightIngest \/ RagIngest \/ Parser \/ LateQueryEnds
           \/ WorkerCrashes \/ ServerCrashes \/ UNCHANGED vars
    PROVE  Aside
<1>1. CASE StartServer \/ Parser \/ WorkerCrashes \/ ServerCrashes
  BY <1>1, ChildrenAreAside DEF StartServer, Parser, WorkerCrashes, ServerCrashes
<1>2. CASE LightIngest \/ RagIngest \/ LateQueryEnds \/ UNCHANGED vars
  BY <1>2 DEF LightIngest, RagIngest, LateQueryEnds, vars, Aside, handleVars, watchVars
<1>. QED
  BY <1>1, <1>2

LEMMA CancelKeeps ==
    ASSUME IInv, Cancel
    PROVE  IInv'
<1>1. cancelled' = TRUE /\ pc # "ended" /\ UNCHANGED <<setup, handleVars, sessionVars, watcher>>
  BY DEF Cancel
<1>2. Typed' /\ Asked' /\ Counted'
  BY <1>1 DEF IInv, Typed, Asked, Counted, sessionVars, StopIsSet
<1>3. Held' /\ Watched' /\ Locked'
  BY <1>1 DEF IInv, Held, Watched, Locked, IsLocal, sessionVars, handleVars
<1>. QED
  BY <1>2, <1>3 DEF IInv

LEMMA StepKeeps ==
    ASSUME IInv, SessionAssumption, [Next]_vars
    PROVE  IInv'
BY BeginningKeeps, QuestionsKeep, EndingKeeps, JoinKeeps, WatcherKeeps, AnswersKeep,
   OthersAreAside, AsideKeeps, CancelKeeps DEF Next, Executor, Worker, Ended

LEMMA InitHolds ==
    ASSUME Init, SessionAssumption
    PROVE  IInv
<1>1. /\ pc = "loop" /\ rep = 1 /\ case = 1 /\ results = {} /\ procs = {} /\ tracked = FALSE
      /\ watcher = NoWatcher /\ cancelled = FALSE
  BY DEF Init
<1>2. Typed
  BY <1>1 DEF Typed, Places, WatcherPlaces, NoWatcher, SessionAssumption
<1>3. Asked
  BY <1>1 DEF Asked
<1>4. Counted /\ Held /\ Watched /\ Locked
  BY <1>1 DEF Counted, Held, Watched, Locked, NoWatcher, StopIsSet
<1>. QED
  BY <1>2, <1>3, <1>4 DEF IInv

(* The invariant of the executor's loop, the watcher and the handle         *)
(* (RunExecutor.execute, watch_cancellation, WorkerProcess.stop and cancel).*)
THEOREM Inductive == Spec => []IInv
<1>1. Init => IInv
  BY InitHolds, SessionAssumption
<1>2. IInv /\ [Next]_vars => IInv'
  BY StepKeeps, SessionAssumption
<1>. QED
  BY <1>1, <1>2, PTL DEF Spec

-----------------------------------------------------------------------------
(* The refinement.  Up is a living worker, Indexed an accepted index.      *)

Up == procs \cap OwnGroup # {}
Indexed == pc \in {"case", "send", "query"}
Done == pc = "ended" /\ manifest = "completed"

Kept == [Promise!Next]_<<rep, Up, Indexed, results, Done>>

\* The worker lives on or not, and nothing else is seen.
LEMMA DiesIsPromised ==
    ASSUME UNCHANGED <<rep, results>>, Up' => Up, Indexed' <=> Indexed, Done' <=> Done
    PROVE  Kept
<1>1. CASE Up' <=> Up
  BY <1>1 DEF Kept
<1>2. CASE ~ Up'
  <2>1. Promise!Dies
    BY <1>2 DEF Promise!Dies, Up, Indexed, Done
  <2>. QED
    BY <2>1 DEF Kept, Promise!Next
<1>. QED
  BY <1>1, <1>2

\* The index is given up.
LEMMA GoneIsPromised ==
    ASSUME UNCHANGED <<rep, results>>, Up' => Up, ~ Indexed', Done' <=> Done
    PROVE  Kept
<1>1. Up' \in {Up, FALSE}
  <2>1. CASE Up'
    BY <2>1
  <2>2. CASE ~ Up'
    <3>1. Up' = FALSE
      BY <2>2 DEF Up
    <3>. QED
      BY <3>1
  <2>. QED
    BY <2>1, <2>2
<1>2. Indexed' = FALSE /\ Done' = Done
  BY DEF Indexed, Done
<1>3. Promise!Gone
  BY Zenon, <1>1, <1>2 DEF Promise!Gone, Up, Indexed, Done
<1>. QED
  BY <1>3 DEF Kept, Promise!Next

LEMMA AsideIsPromised ==
    ASSUME Aside
    PROVE  Kept
BY DiesIsPromised DEF Aside, sessionVars, Up, Indexed, Done

LEMMA RaiseIsPromised ==
    ASSUME Raise, UNCHANGED procs, pc # "ended"
    PROVE  Kept
BY GoneIsPromised DEF Raise, Up, Indexed, Done

(* A result is that of the next question of its repetition. *)
LEMMA ResultIsPromised ==
    ASSUME IInv, SessionAssumption, pc = "query", NEW status, NEW found, NEW hit,
           Result(status, found, hit), UNCHANGED procs
    PROVE  Kept
<1>1. /\ pc' \in {"stop", "case"} /\ rep' = rep
      /\ results' = results \cup {<<rep, case>>}
  BY DEF Result
<1>2. rep \in Nat /\ case \in 1 .. Cases /\ Cases \in Nat
  BY DEF IInv, Typed, Counted, SessionAssumption
<1>3. <<rep, case>> \notin results /\ \A d \in 1 .. (case - 1) : <<rep, d>> \in results
  BY <1>2 DEF IInv, Asked
<1>4. Promise!Ask(case)
  <2>1. Indexed /\ (Indexed)' \in BOOLEAN /\ ~ Done /\ ~ Done' /\ (Up' <=> Up)
    BY <1>1 DEF Indexed, Done, Up
  <2>. QED
    BY <1>1, <1>3, <2>1 DEF Promise!Ask, Up, Indexed, Done
<1>. QED
  BY <1>2, <1>4 DEF Kept, Promise!Next

LEMMA BeginningIsPromised ==
    ASSUME IInv, LoopTop \/ StartWorker \/ WorkerUp \/ HandshakeTimesOut \/ Handshake
    PROVE  Kept
<1>1. CASE LoopTop
  BY <1>1, GoneIsPromised DEF LoopTop, End, GoTo, handleVars, Up, Indexed, Done
<1>2. CASE StartWorker
  <2>1. /\ pc = "start" /\ ~ tracked /\ ~ Up /\ UNCHANGED <<rep, results>>
        /\ \/ pc' = "ended" /\ manifest' # "completed" /\ UNCHANGED procs
           \/ UNCHANGED <<pc, manifest>> /\ procs' = procs \cup {"worker"}
    BY <1>2 DEF StartWorker, Launch, End, handleVars, sessionVars, IInv, Held, Up
  <2>2. CASE pc' = "ended" /\ manifest' # "completed" /\ UNCHANGED procs
    BY <2>1, <2>2, GoneIsPromised DEF Up, Indexed, Done
  <2>3. CASE UNCHANGED <<pc, manifest>> /\ procs' = procs \cup {"worker"}
    <3>1. Up' /\ ~ Indexed /\ ~ Indexed' /\ ~ Done /\ ~ Done'
      BY <2>1, <2>3 DEF Up, Indexed, Done, OwnGroup
    <3>2. Promise!Start
      BY <2>1, <3>1 DEF Promise!Start, Up, Indexed, Done
    <3>. QED
      BY <3>2 DEF Kept, Promise!Next
  <2>. QED
    BY <2>1, <2>2, <2>3
<1>3. CASE WorkerUp \/ Handshake
  BY <1>3, GoneIsPromised DEF WorkerUp, Handshake, GoTo, handleVars, Up, Indexed, Done
<1>4. CASE HandshakeTimesOut
  BY <1>4, RaiseIsPromised DEF HandshakeTimesOut, handleVars
<1>. QED
  BY <1>1, <1>2, <1>3, <1>4

LEMMA QuestionsArePromised ==
    ASSUME IInv, SessionAssumption,
           NextCase \/ SendQuery \/ QueryAnswered \/ QueryFails \/ TimesOut \/ Broken
    PROVE  Kept
<1>1. CASE NextCase
  <2>1. /\ pc = "case" /\ pc' \in {"stop", "send"} /\ UNCHANGED <<procs, rep, results>>
    BY <1>1 DEF NextCase, handleVars
  <2>. QED
    BY <2>1, GoneIsPromised, DiesIsPromised DEF Up, Indexed, Done
<1>2. CASE SendQuery
  <2>1. pc = "send" /\ UNCHANGED procs /\ (Raise \/ GoTo("query"))
    BY <1>2 DEF SendQuery, handleVars
  <2>. QED
    BY <2>1, RaiseIsPromised, DiesIsPromised DEF GoTo, Up, Indexed, Done
<1>3. CASE QueryAnswered
  BY <1>3, ResultIsPromised DEF QueryAnswered, handleVars
<1>4. CASE QueryFails
  BY <1>4, ResultIsPromised DEF QueryFails, Failed, handleVars
<1>5. CASE TimesOut
  BY <1>5, ResultIsPromised, RaiseIsPromised DEF TimesOut, Failed, handleVars
<1>6. CASE Broken
  BY <1>6, ResultIsPromised, RaiseIsPromised DEF Broken, Failed, handleVars
<1>. QED
  BY <1>1, <1>2, <1>3, <1>4, <1>5, <1>6

LEMMA EndingIsPromised ==
    ASSUME Stop \/ CloseAdapter \/ CloseFails \/ SnapshotTree \/ EndWorker
    PROVE  Kept
<1>1. /\ UNCHANGED <<rep, results>> /\ pc # "ended"
      /\ pc' \in {"closing", "snapshot", "kill", "join"}
  BY DEF Stop, CloseAdapter, CloseFails, SnapshotTree, EndWorker, GoTo
<1>2. procs' \subseteq procs
  BY DEF Stop, CloseAdapter, CloseFails, SnapshotTree, EndWorker, Snapshot, Kill, RemoveContainer, handleVars
<1>. QED
  BY <1>1, <1>2, GoneIsPromised DEF Up, Indexed, Done

(* The run ends, or goes on to the next repetition, without a worker. *)
LEMMA JoinIsPromised ==
    ASSUME IInv, SessionAssumption, Join
    PROVE  Kept
<1>1. pc = "join" /\ ~ Up /\ ~ Up' /\ ~ Indexed /\ ~ Done /\ UNCHANGED results
  BY DEF Join, End, IInv, Held, Up, Indexed, Done
<1>2. rep \in 1 .. Reps /\ Reps \in Nat /\ Cases \in Nat \ {0} /\ case \in 1 .. (Cases + 1)
  BY DEF IInv, Typed, SessionAssumption
<1>3. CASE raised \/ manifest = "cancelled"
  <2>1. rep' = rep /\ pc' = "ended" /\ manifest' # "completed"
    BY <1>3 DEF Join, End
  <2>. QED
    BY <1>1, <2>1, GoneIsPromised DEF Indexed, Done
<1>4. CASE ~ raised /\ manifest # "cancelled"
  <2>1. case - 1 = Cases
    BY <1>1, <1>2, <1>4 DEF IInv, Counted, StopIsSet
  <2>2. results = ((1 .. (rep - 1)) \X (1 .. Cases)) \cup ({rep} \X (1 .. Cases))
    BY <2>1 DEF IInv, Asked
  <2>3. CASE rep = Reps
    <3>1. rep' = rep /\ pc' = "ended" /\ manifest' = "completed"
      BY <1>4, <2>3 DEF Join, End
    <3>2. 1 .. Reps = (1 .. (rep - 1)) \cup {rep}
      BY <1>2, <2>3
    <3>3. results = (1 .. Reps) \X (1 .. Cases)
      BY <2>2, <3>2
    <3>4. Done' /\ ~ Indexed'
      BY <3>1 DEF Done, Indexed
    <3>5. Promise!Complete
      BY <1>1, <3>1, <3>3, <3>4 DEF Promise!Complete, Up, Indexed, Done
    <3>. QED
      BY <3>5 DEF Kept, Promise!Next
  <2>4. CASE rep # Reps
    <3>1. rep' = rep + 1 /\ pc' = "loop"
      BY <1>4, <2>4 DEF Join
    <3>2. ~ Done' /\ ~ Indexed'
      BY <3>1 DEF Done, Indexed
    <3>3. <<rep, Cases>> \in results /\ rep < Reps
      BY <1>2, <2>2, <2>4
    <3>4. Promise!NextRound
      BY <1>1, <3>1, <3>2, <3>3 DEF Promise!NextRound, Up, Indexed, Done
    <3>. QED
      BY <3>4 DEF Kept, Promise!Next
  <2>. QED
    BY <2>3, <2>4
<1>. QED
  BY <1>3, <1>4

LEMMA WatcherIsPromised ==
    ASSUME Watcher
    PROVE  Kept
<1>1. UNCHANGED sessionVars /\ procs' \subseteq procs
  BY DEF Watcher, WatcherSees, WatcherQuits, WatcherTakes, WatcherKills, WatcherRemoves, WatcherRecords,
         Kill, RemoveContainer, handleVars
<1>. QED
  BY <1>1, DiesIsPromised DEF sessionVars, Up, Indexed, Done

LEMMA AnswersArePromised ==
    ASSUME Prepared \/ PrepareFails \/ Ingested \/ IngestFails
    PROVE  Kept
<1>1. UNCHANGED <<procs, setup, handleVars, watchVars>>
  BY DEF Prepared, PrepareFails, Ingested, IngestFails, handleVars
<1>2. \/ UNCHANGED sessionVars
      \/ Raise /\ pc \in {"prepare", "ingest"}
      \/ pc = "prepare" /\ pc' = "ingest" /\ UNCHANGED <<rep, results>>
      \/ pc = "ingest" /\ pc' = "case" /\ UNCHANGED <<rep, results>>
  BY DEF Prepared, PrepareFails, Ingested, IngestFails, Answer
<1>3. CASE UNCHANGED sessionVars
  BY <1>1, <1>3, DiesIsPromised DEF sessionVars, Up, Indexed, Done
<1>4. CASE Raise /\ pc \in {"prepare", "ingest"}
  BY <1>1, <1>4, RaiseIsPromised
<1>5. CASE pc = "prepare" /\ pc' = "ingest" /\ UNCHANGED <<rep, results>>
  BY <1>1, <1>5, GoneIsPromised DEF Up, Indexed, Done
<1>6. CASE pc = "ingest" /\ pc' = "case" /\ UNCHANGED <<rep, results>>
  <2>1. ~ Indexed /\ Indexed' /\ (Up' <=> Up) /\ ~ Done /\ ~ Done'
    BY <1>1, <1>6 DEF Up, Indexed, Done
  <2>2. Promise!Accept
    BY <1>6, <2>1 DEF Promise!Accept, Up, Indexed, Done
  <2>. QED
    BY <2>2 DEF Kept, Promise!Next
<1>. QED
  BY <1>2, <1>3, <1>4, <1>5, <1>6

LEMMA StepIsPromised ==
    ASSUME IInv, SessionAssumption, [Next]_vars
    PROVE  Kept
<1>1. ASSUME Cancel PROVE Kept
  BY <1>1, DiesIsPromised DEF Cancel, sessionVars, handleVars, Up, Indexed, Done
<1>. QED
  BY <1>1, BeginningIsPromised, QuestionsArePromised, EndingIsPromised, JoinIsPromised, WatcherIsPromised,
     AnswersArePromised, OthersAreAside, AsideIsPromised DEF Next, Executor, Worker, Ended

(* PromiseIsKept: whatever the adapters, the servers, the crashes and the  *)
(* cancellations do, the executor's loop (RunExecutor.execute) is seen to  *)
(* start one worker at a time, to ask its questions in order and only of   *)
(* an accepted index, and to complete only when each was asked.            *)
THEOREM PromiseIsKept == Spec => KeepsPromise
<1>1. Init => Promise!Init
  BY DEF Init, Promise!Init
<1>2. IInv /\ [Next]_vars => [Promise!Next]_(<<rep, procs \cap OwnGroup # {}, pc \in {"case", "send", "query"},
                                               results, pc = "ended" /\ manifest = "completed">>)
  BY StepIsPromised, SessionAssumption DEF Kept, Up, Indexed, Done
<1>. QED
  BY <1>1, <1>2, Inductive, PTL DEF Spec, KeepsPromise, Promise!Spec, Promise!promiseVars

-----------------------------------------------------------------------------
(* The index.  Past is where a late ingest request may still go on.        *)

Past == StopIsSet \/ pc \in {"loop", "ended"} \/ (pc = "start" /\ ~ tracked)

Stocked ==
    /\ setup \in Setups
    /\ store = [i \in DOMAIN inputs |-> store[i]]
    /\ setup.corpus = "canonical" /\ DOMAIN inputs # {} =>
          /\ \A i \in DOMAIN inputs : inputs[i] \subseteq Segments(setup.doc)
          /\ ~ ManifestFails(setup.doc, setup.gold)

Stands ==
    /\ "ingest" \in late => Past
    /\ Indexed => GatePasses

\* A document on the server stays there.
LEMMA StoredGrows ==
    ASSUME Stocked, NEW i \in DOMAIN store, Process(i), UNCHANGED inputs
    PROVE  Stored \subseteq Stored'
<1>1. PICK outcome \in Outcomes : store' = [store EXCEPT ![i] = outcome]
  BY DEF Process
<1>2. \A j \in DOMAIN inputs : store[j] = "exact" => store'[j] = "exact"
  BY <1>1 DEF Process, Stocked
<1>. QED
  BY <1>2 DEF Stored

LEMMA MoreIsDeterministic ==
    ASSUME NEW doc, NEW e, NEW less, NEW more, less \subseteq more, Deterministic(doc, e, less)
    PROVE  Deterministic(doc, e, more)
<1>1. UNION {s.full : s \in less} \subseteq UNION {s.full : s \in more}
  OBVIOUS
<1>. QED
  BY <1>1 DEF Deterministic

LEMMA GateStands ==
    ASSUME UNCHANGED <<setup, inputs>>, Stored \subseteq Stored', GatePasses
    PROVE  GatePasses'
BY MoreIsDeterministic DEF GatePasses

Calm ==
    /\ UNCHANGED <<setup, inputs, store>>
    /\ late' \subseteq late \cup {"prepare", "query"}
    /\ Indexed' => Indexed
    /\ Past => Past'

LEMMA CalmKeeps ==
    ASSUME Stocked, Stands, Calm
    PROVE  Stocked' /\ Stands'
<1>1. Stocked'
  BY DEF Stocked, Calm
<1>2. Stored' = Stored
  BY DEF Calm, Stored
<1>3. Stands'
  BY <1>2, GateStands DEF Stands, Calm
<1>. QED
  BY <1>1, <1>3

LEMMA LoopIsCalm ==
    ASSUME IInv, \/ LoopTop \/ WorkerUp \/ HandshakeTimesOut \/ NextCase \/ SendQuery
                 \/ QueryAnswered \/ QueryFails \/ Broken \/ Stop \/ CloseAdapter
                 \/ CloseFails \/ SnapshotTree \/ EndWorker \/ Join
    PROVE  Calm
<1>1. UNCHANGED <<setup, inputs, store, late>>
  BY DEF LoopTop, WorkerUp, HandshakeTimesOut, NextCase, SendQuery, QueryAnswered, QueryFails, Broken,
         Stop, CloseAdapter, CloseFails, SnapshotTree, EndWorker, Join, workerVars, lightVars
<1>2. CASE LoopTop
  BY <1>1, <1>2 DEF LoopTop, End, GoTo, Calm, Past, Indexed, StopIsSet, IInv, Held, handleVars
<1>3. CASE WorkerUp \/ HandshakeTimesOut
  BY <1>1, <1>3 DEF WorkerUp, HandshakeTimesOut, Raise, GoTo, Calm, Past, Indexed, StopIsSet
<1>4. CASE NextCase \/ SendQuery
  BY <1>1, <1>4 DEF NextCase, SendQuery, Raise, GoTo, Calm, Past, Indexed, StopIsSet
<1>5. CASE QueryAnswered \/ QueryFails \/ Broken
  BY <1>1, <1>5 DEF QueryAnswered, QueryFails, Broken, Failed, Result, Raise, Calm, Past, Indexed, StopIsSet
<1>6. CASE Stop \/ CloseAdapter \/ CloseFails \/ SnapshotTree \/ EndWorker
  BY <1>1, <1>6 DEF Stop, CloseAdapter, CloseFails, SnapshotTree, EndWorker, GoTo, Calm, Past, Indexed, StopIsSet
<1>7. CASE Join
  BY <1>1, <1>7 DEF Join, End, Calm, Past, Indexed, StopIsSet
<1>. QED
  BY <1>2, <1>3, <1>4, <1>5, <1>6, <1>7

LEMMA OthersAreCalm ==
    ASSUME \/ Watcher \/ StartServer \/ RagIngest \/ Parser \/ LateQueryEnds \/ Cancel
           \/ WorkerCrashes \/ ServerCrashes \/ Prepared \/ PrepareFails \/ IngestFails \/ UNCHANGED vars
    PROVE  Calm
<1>1. UNCHANGED <<setup, inputs, store>> /\ late' \subseteq late
  BY DEF Watcher, WatcherSees, WatcherQuits, WatcherTakes, WatcherKills, WatcherRemoves, WatcherRecords,
         StartServer, RagIngest, Parser, LateQueryEnds, Cancel, WorkerCrashes, ServerCrashes,
         Prepared, PrepareFails, IngestFails, Answer, vars, lightVars, workerVars
<1>2. CASE Watcher
  <2>1. UNCHANGED pc /\ tracked' \in {tracked, FALSE}
    BY <1>2 DEF Watcher, WatcherSees, WatcherQuits, WatcherTakes, WatcherKills, WatcherRemoves, WatcherRecords,
                Kill, RemoveContainer, sessionVars, handleVars
  <2>2. CASE UNCHANGED tracked
    BY <1>1, <2>1, <2>2 DEF Calm, Past, Indexed, StopIsSet
  <2>3. CASE tracked' = FALSE
    <3>1. ~ tracked'
      BY <2>3
    <3>2. (Past => Past') /\ (Indexed' => Indexed)
      BY <2>1, <3>1 DEF Past, Indexed, StopIsSet
    <3>. QED
      BY <1>1, <3>2 DEF Calm
  <2>. QED
    BY <2>1, <2>2, <2>3
<1>3. CASE \/ StartServer \/ RagIngest \/ Parser \/ LateQueryEnds \/ Cancel
           \/ WorkerCrashes \/ ServerCrashes \/ UNCHANGED vars
  <2>1. UNCHANGED <<pc, tracked>>
    BY <1>3 DEF StartServer, RagIngest, Parser, LateQueryEnds, Cancel, WorkerCrashes, ServerCrashes, vars,
                Spawn, ChildEnds, Crash, sessionVars, handleVars
  <2>. QED
    BY <1>1, <2>1 DEF Calm, Past, Indexed, StopIsSet
<1>4. CASE Prepared \/ PrepareFails \/ IngestFails
  <2>1. /\ UNCHANGED tracked
        /\ \/ UNCHANGED pc
           \/ pc \in {"prepare", "ingest"} /\ pc' \in {"ingest", "stop"}
    BY <1>4 DEF Prepared, PrepareFails, IngestFails, Answer, Raise, handleVars, sessionVars
  <2>2. CASE UNCHANGED pc
    BY <1>1, <2>1, <2>2 DEF Calm, Past, Indexed, StopIsSet
  <2>3. CASE pc \in {"prepare", "ingest"} /\ pc' \in {"ingest", "stop"}
    <3>1. ~ Past /\ ~ Indexed'
      BY <2>3 DEF Past, Indexed, StopIsSet
    <3>. QED
      BY <1>1, <3>1 DEF Calm
  <2>. QED
    BY <2>1, <2>2, <2>3
<1>. QED
  BY <1>2, <1>3, <1>4

\* The inputs of a canonical run hold the document's segments.
LEMMA BatchesHoldSegments ==
    ASSUME NEW s, s.corpus = "canonical", NEW i \in DOMAIN InputsOf(s)
    PROVE  InputsOf(s)[i] \subseteq Segments(s.doc)
<1>1. InputsOf(s) = Batches(s.doc)
  BY DEF InputsOf
<1>. QED
  BY <1>1 DEF Batches

LEMMA IndexKeeps ==
    ASSUME IInv, Stocked, Stands, [Next]_vars
    PROVE  Stocked' /\ Stands'
<1>1. CASE StartWorker
  <2>1. UNCHANGED <<setup, inputs>> /\ pc = "start" /\ store' = Unsent /\ late' = {} /\ pc' \in {"start", "ended"}
    BY <1>1 DEF StartWorker, End, sessionVars
  <2>. QED
    BY <2>1 DEF Stocked, Stands, Unsent, Indexed
<1>2. CASE Handshake
  <2>1. /\ UNCHANGED <<setup, late>> /\ pc = "handshake" /\ pc' \in {"stop", "prepare"}
        /\ \/ UNCHANGED <<inputs, store>>
           \/ /\ ~(setup.corpus = "canonical" /\ ManifestFails(setup.doc, setup.gold))
              /\ inputs' = InputsOf(setup) /\ store' = [i \in DOMAIN inputs' |-> "unsent"]
    BY <1>2 DEF Handshake, workerVars
  <2>2. "ingest" \notin late' /\ ~ Indexed'
    BY <2>1 DEF Stands, Past, StopIsSet, Indexed
  <2>3. Stocked'
    BY <2>1, BatchesHoldSegments DEF Stocked
  <2>. QED
    BY <2>2, <2>3 DEF Stands
<1>3. CASE TimesOut
  <2>1. UNCHANGED <<setup, inputs, store>>
    BY <1>3 DEF TimesOut, lightVars
  <2>2. CASE pc = "query"
    <3>1. Calm
      BY <1>3, <2>1, <2>2 DEF TimesOut, Failed, Result, Calm, Past, Indexed, StopIsSet
    <3>. QED
      BY <3>1, CalmKeeps
  <2>3. CASE pc # "query"
    <3>1. pc' = "stop"
      BY <1>3, <2>3 DEF TimesOut, Raise
    <3>. QED
      BY <2>1, <3>1 DEF Stocked, Stands, Past, StopIsSet, Indexed
  <2>. QED
    BY <2>2, <2>3
<1>4. CASE LightIngest
  <2>1. UNCHANGED <<setup, inputs, sessionVars, workerVars>> /\ UNCHANGED tracked
    BY <1>4 DEF LightIngest, handleVars
  <2>2. (Past' <=> Past) /\ (Indexed' <=> Indexed)
    BY <2>1 DEF Past, StopIsSet, Indexed, sessionVars
  <2>3. store' = [j \in DOMAIN inputs' |-> store'[j]]
    <3>1. store' = [j \in DOMAIN store |-> store'[j]]
      BY <1>4 DEF LightIngest, PostGroup, Await, Process, Stocked
    <3>. QED
      BY <2>1, <3>1 DEF Stocked
  <2>4. Stocked'
    BY <2>1, <2>3 DEF Stocked
  <2>5. ASSUME Indexed PROVE GatePasses'
    <3>1. ~ Ingesting
      BY <2>5 DEF Stands, Past, StopIsSet, Indexed, Ingesting, Serving
    <3>2. PICK i \in DOMAIN store : Process(i)
      BY <1>4, <3>1 DEF LightIngest
    <3>. QED
      BY <2>1, <2>5, <3>2, StoredGrows, GateStands DEF Stands
  <2>. QED
    BY <2>1, <2>2, <2>4, <2>5 DEF Stands, workerVars
<1>5. CASE Ingested
  <2>1. UNCHANGED <<setup, inputs, store, tracked>> /\ late' \subseteq late
    BY <1>5 DEF Ingested, Answer, lightVars, handleVars
  <2>2. CASE pc = "ingest" /\ GatePasses /\ pc' = "case"
    <3>1. "ingest" \notin late
      BY <2>2 DEF Stands, Past, StopIsSet
    <3>2. GatePasses'
      <4>1. Stored' = Stored
        BY <2>1 DEF Stored
      <4>. QED
        BY <2>1, <2>2, <4>1, GateStands
    <3>. QED
      BY <2>1, <3>1, <3>2 DEF Stocked, Stands
  <2>3. CASE UNCHANGED pc \/ (pc = "ingest" /\ pc' = "stop")
    <3>1. Calm
      BY <2>1, <2>3 DEF Calm, Past, Indexed, StopIsSet
    <3>. QED
      BY <3>1, CalmKeeps
  <2>4. \/ pc = "ingest" /\ GatePasses /\ pc' = "case"
        \/ UNCHANGED pc \/ (pc = "ingest" /\ pc' = "stop")
    BY <1>5 DEF Ingested, Answer, Raise, sessionVars
  <2>. QED
    BY <2>2, <2>3, <2>4
<1>. QED
  BY <1>1, <1>2, <1>3, <1>4, <1>5, LoopIsCalm, OthersAreCalm, CalmKeeps DEF Next, Executor, Worker, Ended

LEMMA IndexHolds ==
    ASSUME Init
    PROVE  Stocked /\ Stands
<1>1. setup \in Setups /\ inputs = <<>> /\ store = <<>> /\ late = {} /\ pc = "loop"
  BY DEF Init
<1>2. DOMAIN inputs = {} /\ DOMAIN store = {}
  BY <1>1
<1>3. store = [i \in DOMAIN inputs |-> store[i]]
  BY <1>1, <1>2
<1>. QED
  BY <1>1, <1>2, <1>3 DEF Stocked, Stands, Indexed

(* The invariant of the index: what was staged, and what the gate passed,   *)
(* stays so while questions are asked.                                      *)
THEOREM IndexInductive == Spec => [](Stocked /\ Stands)
<1>1. Init => Stocked /\ Stands
  BY IndexHolds
<1>2. IInv /\ (Stocked /\ Stands) /\ [Next]_vars => (Stocked /\ Stands)'
  BY IndexKeeps
<1>. QED
  BY <1>1, <1>2, Inductive, PTL DEF Spec

(* AcceptanceStands: as long as questions are asked, the index passes the  *)
(* checks it was accepted by (_gold_has_deterministic_canonical_mapping,   *)
(* validate_native_provenance_contract), although the server may still     *)
(* store documents and requests the client gave up go on.                  *)
THEOREM AcceptanceStands == Spec => [](pc \in {"case", "send", "query"} => GatePasses)
<1>1. Stocked /\ Stands => (pc \in {"case", "send", "query"} => GatePasses)
  BY DEF Stands, Indexed
<1>. QED
  BY <1>1, IndexInductive, PTL

(* A full edge to an object means that a segment shows it. *)
LEMMA FullIsShown ==
    ASSUME NEW doc, IsCanonical(doc), NEW s \in Segments(doc), NEW r \in Records(doc), r.id \in s.full
    PROVE  /\ r.kind # "table" /\ r.len > 0 => r.id \in s.shows
           /\ r.kind = "row" /\ r.len = 0 => \A c \in RowCells(doc, r) : c.len > 0 => c.id \in s.shows
<1>1. CASE \E t \in Tables(doc) : s \in RowSegments(doc, t)
  <2>1. PICK t \in Tables(doc) : s \in RowSegments(doc, t)
    BY <1>1
  <2>2. PICK w \in RowsOf(doc, t) : /\ s.full = Ids(Usable(RowCells(doc, w) \cup {w}))
                                    /\ RowText(doc, w).shows \subseteq s.shows
    <3>. DEFINE header == CHOOSE x \in RowsOf(doc, t) : \A o \in RowsOf(doc, t) : x.row <= o.row
                above(x) == IF x = header THEN [size |-> 0, shows |-> {}]
                            ELSE [size |-> header.len, shows |-> header.shows]
    <3>. HIDE DEF header, above
    <3>1. RowSegments(doc, t) =
            {[root |-> x.id, at |-> Order(doc, x.id),
              size |-> RowText(doc, x).size + above(x).size,
              shows |-> RowText(doc, x).shows \cup above(x).shows,
              full |-> Ids(Usable(RowCells(doc, x) \cup {x})),
              partial |-> {t.id}] : x \in {y \in RowsOf(doc, t) : RowText(doc, y).size > 0}}
      BY Zenon DEF RowSegments, header, above
    <3>2. PICK x \in RowsOf(doc, t) :
            s = [root |-> x.id, at |-> Order(doc, x.id),
                 size |-> RowText(doc, x).size + above(x).size,
                 shows |-> RowText(doc, x).shows \cup above(x).shows,
                 full |-> Ids(Usable(RowCells(doc, x) \cup {x})),
                 partial |-> {t.id}]
      BY <2>1, <3>1
    <3>. QED
      BY <3>2
  <2>3. w \in Records(doc) /\ w.kind = "row" /\ RowCells(doc, w) \subseteq Records(doc)
    BY <2>2 DEF RowsOf, RowCells
  <2>4. r \in RowCells(doc, w) \cup {w}
    BY <2>2, <2>3 DEF Ids, Usable, IsCanonical
  <2>5. \A c \in RowCells(doc, w) : c.len > 0 => c.id \in RowText(doc, w).shows
    <3>1. CASE w.len > 0
      BY <2>3, <3>1 DEF RowText, IsCanonical
    <3>2. CASE ~(w.len > 0)
      <4>. SUFFICES ASSUME NEW c \in RowCells(doc, w), c.len > 0 PROVE c.id \in RowText(doc, w).shows
        OBVIOUS
      <4>1. c.id \in c.shows
        BY <2>3 DEF IsCanonical, RowCells
      <4>2. c.id \in Shown(RowCells(doc, w))
        BY <4>1 DEF Shown
      <4>. QED
        BY <3>2, <4>2 DEF RowText
    <3>. QED
      BY <3>1, <3>2
  <2>6. w.len > 0 => w.id \in RowText(doc, w).shows
    BY <2>3 DEF RowText, IsCanonical
  <2>7. CASE r = w
    BY <2>2, <2>5, <2>6, <2>7
  <2>8. CASE r \in RowCells(doc, w)
    BY <2>2, <2>5, <2>8 DEF RowCells
  <2>. QED
    BY <2>4, <2>7, <2>8
<1>2. CASE \E w \in Records(doc) : w.len > 0 /\ s = WholeSegment(doc, w) /\ w.kind # "row"
  <2>1. PICK w \in Records(doc) : w.len > 0 /\ s = WholeSegment(doc, w) /\ w.kind # "row"
    BY <1>2
  <2>2. r = w
    BY <2>1 DEF WholeSegment, IsCanonical
  <2>. QED
    BY <2>1, <2>2 DEF WholeSegment, IsCanonical
<1>3. (\E t \in Tables(doc) : s \in RowSegments(doc, t))
      \/ (\E w \in Records(doc) : w.len > 0 /\ s = WholeSegment(doc, w) /\ w.kind # "row")
  <2>. DEFINE rowed == {t \in Tables(doc) : RowsOf(doc, t) # {}}
              alone == {x \in Usable(Records(doc)) : x.kind \in RootKinds} \cup (Tables(doc) \ rowed)
  <2>1. s \in {WholeSegment(doc, x) : x \in {y \in alone : y.len > 0}}
             \cup UNION {RowSegments(doc, t) : t \in rowed}
    BY Zenon DEF Segments
  <2>2. \/ \E t \in rowed : s \in RowSegments(doc, t)
        \/ \E w \in alone : w.len > 0 /\ s = WholeSegment(doc, w)
    <3>. HIDE DEF rowed, alone
    <3>. QED
      BY <2>1
  <2>3. \A w \in alone : w \in Records(doc) /\ w.kind # "row"
    BY DEF Tables, Usable, RootKinds
  <2>. QED
    BY <2>2, <2>3
<1>. QED
  BY <1>1, <1>2, <1>3

(* The gate asks for an object's text, or for the cells of a table, and    *)
(* gets it: an accepted Gold Evidence is stored.                           *)
LEMMA DeterministicIsStored ==
    ASSUME NEW doc, IsCanonical(doc), NEW stored \in SUBSET Segments(doc), NEW e,
           Catalogued(doc, e) # {}, Deterministic(doc, e, stored)
    PROVE  IsStored(doc, e, stored)
<1>. DEFINE held == UNION {s.full : s \in stored}
            table == e.by = "object" /\ RecordOf(doc, e.obj).kind = "table"
            cells == {c.id : c \in {r \in Records(doc) : r.kind = "cell" /\ r.table = e.obj}}
<1>1. \A r \in Records(doc) : RecordOf(doc, r.id) = r
  BY DEF RecordOf, IsCanonical
<1>2. ASSUME NEW r \in Records(doc), r.id \in held, r.kind # "table", r.len > 0
      PROVE  \E s \in stored : r.id \in s.shows
  BY <1>2, FullIsShown
<1>3. PICK r : r = RecordOf(doc, Target(doc, e))
  OBVIOUS
<1>4. CASE table
  <2>1. cells # {} /\ cells \subseteq held
    BY <1>4 DEF Deterministic
  <2>2. Candidates(doc, e) \subseteq {e.obj}
    BY <1>4 DEF Candidates
  <2>3. Candidates(doc, e) # {}
    BY DEF Catalogued
  <2>4. Target(doc, e) = e.obj /\ e.obj \in {x.id : x \in Records(doc)}
    BY <1>4, <2>2, <2>3 DEF Target, Candidates
  <2>5. r \in Records(doc) /\ r.id = e.obj /\ r.kind = "table"
    BY <1>1, <1>3, <1>4, <2>4
  <2>6. \A p \in CellsIn(doc, r.id) : p \in Records(doc) /\ p.kind = "cell" /\ p.id \in cells
    BY <2>5 DEF CellsIn, CellRecords, Records
  <2>. QED
    BY <1>2, <1>3, <2>1, <2>5, <2>6 DEF IsStored
<1>5. CASE ~ table
  <2>1. Candidates(doc, e) # {} /\ Candidates(doc, e) \subseteq held
    BY <1>5 DEF Deterministic
  <2>2. Target(doc, e) \in Candidates(doc, e)
    BY <2>1 DEF Target
  <2>3. PICK x \in Records(doc) : /\ x.id = Target(doc, e)
                                  /\ \/ e.by = "object" /\ x.id = e.obj
                                     \/ e.by = "cell" /\ x.kind = "cell"
    BY <2>2 DEF Candidates
  <2>4. r \in Records(doc) /\ r.id \in held /\ r.kind # "table"
    BY <1>1, <1>3, <1>5, <2>1, <2>2, <2>3
  <2>5. CASE r.kind = "row" /\ r.len = 0
    BY <1>3, <2>4, <2>5, FullIsShown DEF IsStored
  <2>6. CASE ~(r.kind = "row" /\ r.len = 0)
    BY <1>2, <1>3, <2>4, <2>6 DEF IsStored
  <2>. QED
    BY <2>5, <2>6
<1>. QED
  BY <1>4, <1>5

\* A manifest that is built has catalogued every Gold Evidence.
LEMMA BuiltIsCatalogued ==
    ASSUME NEW doc, NEW gold, ~ ManifestFails(doc, gold), NEW g \in DOMAIN gold.evidence
    PROVE  Catalogued(doc, gold.evidence[g]) # {}
BY DEF ManifestFails

LEMMA NothingIsDeterministic ==
    ASSUME NEW doc, NEW e
    PROVE  ~ Deterministic(doc, e, {})
BY DEF Deterministic

(* AcceptedGoldIsIndexed: over canonical documents a question is asked only*)
(* of an index whose stored segments show the text of every Gold Evidence: *)
(* what the gate checks by edges (_gold_has_deterministic_canonical_mapping)*)
(* holds of the texts.  The hypothesis on the documents is named, for a    *)
(* cell merged into the one above it may carry a text its row leaves out.  *)
THEOREM AcceptedGoldIsIndexed ==
    ASSUME \A s \in Setups : s.corpus = "canonical" => IsCanonical(s.doc)
    PROVE  Spec => []GoldIsIndexed
<1>1. Stocked /\ Stands => GoldIsIndexed
  <2>. SUFFICES ASSUME Stocked, Stands, pc = "query", setup.corpus = "canonical",
                       NEW g \in DOMAIN setup.gold.evidence
                PROVE  IsStored(setup.doc, setup.gold.evidence[g], Stored)
    BY Zenon DEF GoldIsIndexed
  <2>1. Deterministic(setup.doc, setup.gold.evidence[g], Stored)
    BY DEF Stands, Indexed, GatePasses
  <2>2. DOMAIN inputs # {}
    <3>1. DOMAIN inputs = {} => Stored = {}
      BY DEF Stored
    <3>. QED
      BY <2>1, <3>1, NothingIsDeterministic
  <2>3. Stored \subseteq Segments(setup.doc) /\ ~ ManifestFails(setup.doc, setup.gold)
    BY <2>2 DEF Stocked, Stored
  <2>4. IsCanonical(setup.doc)
    BY DEF Stocked
  <2>5. Catalogued(setup.doc, setup.gold.evidence[g]) # {}
    BY <2>3, BuiltIsCatalogued
  <2>. QED
    BY <2>1, <2>3, <2>4, <2>5, DeterministicIsStored
<1>. QED
  BY <1>1, IndexInductive, PTL

-----------------------------------------------------------------------------
(* Numbers: a set of them has a least one, and one that holds 0 and with a  *)
(* number the next holds them all.                                          *)

(* A set of numbers has a least one. *)
LEMMA LeastNumber ==
    ASSUME NEW S \in SUBSET Nat, S # {}
    PROVE  \E n \in S : \A m \in S : n <= m
<1>. DEFINE R == {ss \in Nat \X Nat : ss[1] < ss[2]}
<1>1. IsWellFoundedOn(R, Nat)
  BY NatLessThanWellFounded DEF OpToRel
<1>. HIDE DEF R
<1>2. PICK n \in S : \A m \in S : <<m, n>> \notin R
  BY <1>1, WFMin
<1>3. \A m \in S : ~ (m < n)
  BY <1>2 DEF R
<1>. QED
  BY <1>2, <1>3

(* A set that holds 0, and with a number the next, holds all numbers. *)
LEMMA SetInduction ==
    ASSUME NEW S, 0 \in S, \A n \in Nat : n \in S => n + 1 \in S
    PROVE  Nat \subseteq S
<1>1. SUFFICES ASSUME Nat \ S # {} PROVE FALSE
  OBVIOUS
<1>2. PICK n \in Nat \ S : \A m \in Nat \ S : n <= m
  BY <1>1, LeastNumber
<1>3. n # 0 /\ n - 1 \in Nat /\ n - 1 \in S
  BY <1>2
<1>. QED
  BY <1>2, <1>3

(* Max of a bounded set of numbers. *)
LEMMA MaxIs ==
    ASSUME NEW S \in SUBSET Nat, S # {}, NEW b \in Nat, \A m \in S : m <= b
    PROVE  Max(S) \in S /\ \A m \in S : m <= Max(S)
<1>. DEFINE U == {u \in Nat : \A m \in S : m <= u}
<1>1. PICK u \in U : \A v \in U : u <= v
  BY LeastNumber
<1>2. u \in S
  <2>1. SUFFICES ASSUME u \notin S PROVE FALSE
    OBVIOUS
  <2>2. \A m \in S : m <= u - 1
    BY <1>1, <2>1
  <2>3. PICK m \in S : m <= u - 1
    BY <2>2
  <2>4. u - 1 \in Nat
    BY <1>1, <2>3
  <2>. QED
    BY <1>1, <2>2, <2>4
<1>3. u \in S /\ \A m \in S : u >= m
  BY <1>1, <1>2
<1>4. Max(S) \in S /\ \A m \in S : Max(S) >= m
  BY <1>3 DEF Max
<1>. QED
  BY <1>4

-----------------------------------------------------------------------------
(* The pieces of a text (_split_preserving_text).                           *)

IsText(r) == r.len \in Nat /\ r.stops \subseteq Nat

\* A cut lies behind where the piece starts, and not behind the text.
LEMMA CutIs ==
    ASSUME NEW r, IsText(r), NEW room \in Nat \ {0}, NEW from \in 0 .. r.len, from # r.len
    PROVE  CutAfter(r, from, room) \in (from + 1) .. r.len
<1>. DEFINE stops == {s \in r.stops : from < s /\ s <= from + room}
<1>1. r.len \in Nat /\ from \in Nat /\ from < r.len
  BY DEF IsText
<1>2. CASE r.len - from <= room
  BY <1>1, <1>2 DEF CutAfter
<1>3. CASE ~ (r.len - from <= room)
  <2>1. from + room \in (from + 1) .. r.len
    BY <1>1, <1>3
  <2>2. ASSUME stops # {} PROVE Max(stops) \in stops
    <3>1. stops \in SUBSET Nat /\ from + room \in Nat /\ \A m \in stops : m <= from + room
      BY <1>1 DEF IsText
    <3>. HIDE DEF stops
    <3>. QED
      BY <2>2, <3>1, MaxIs
  <2>3. CutAfter(r, from, room) = IF stops = {} THEN from + room ELSE Max(stops)
    BY <1>3 DEF CutAfter
  <2>4. CASE stops = {}
    BY <2>1, <2>3, <2>4
  <2>5. CASE stops # {}
    <3>1. Max(stops) \in Nat /\ from < Max(stops) /\ Max(stops) <= from + room
      BY <1>1, <2>2, <2>5 DEF IsText
    <3>. HIDE DEF stops
    <3>. QED
      BY <1>1, <2>1, <2>3, <2>5, <3>1
  <2>. QED
    BY <2>4, <2>5
<1>. QED
  BY <1>2, <1>3

Piece(r, from, room) == [obj |-> r.id, from |-> from, to |-> CutAfter(r, from, room)]

\* f gives, for every offset, the pieces of the text behind it.
IsPieces(f, r, room) ==
    f = [from \in 0 .. r.len |->
            IF from = r.len THEN {}
            ELSE {Piece(r, from, room)} \cup f[CutAfter(r, from, room)]]

\* Split is the function that gives the pieces, at the beginning of the text.
LEMMA SplitChooses ==
    ASSUME NEW r, NEW room
    PROVE  Split(r, room) = (CHOOSE f : IsPieces(f, r, room))[0]
BY DEF Split, IsPieces, Piece

\* The recursion of Split ends: behind every offset there are its pieces.
LEMMA PiecesExist ==
    ASSUME NEW r, IsText(r), NEW room \in Nat \ {0}
    PROVE  \E f : IsPieces(f, r, room)
<1>. DEFINE Upto(n) == {from \in 0 .. r.len : r.len - from <= n}
            Gives(f, n) == f = [from \in Upto(n) |->
                                  IF from = r.len THEN {}
                                  ELSE {Piece(r, from, room)} \cup f[CutAfter(r, from, room)]]
            S == {n \in Nat : \E f : Gives(f, n)}
<1>1. r.len \in Nat
  BY DEF IsText
<1>2. 0 \in S
  <2>1. Upto(0) = {r.len}
    BY <1>1
  <2>2. Gives([from \in {r.len} |-> {}], 0)
    BY <2>1
  <2>. QED
    BY <2>2
<1>3. ASSUME NEW n \in Nat, n \in S PROVE n + 1 \in S
  <2>1. PICK f : Gives(f, n)
    BY <1>3
  <2>. DEFINE g == [from \in Upto(n + 1) |->
                      IF from = r.len THEN {}
                      ELSE {Piece(r, from, room)} \cup f[CutAfter(r, from, room)]]
  <2>2. ASSUME NEW from \in Upto(n + 1), from # r.len
        PROVE  CutAfter(r, from, room) \in Upto(n) /\ CutAfter(r, from, room) \in Upto(n + 1)
    BY <1>1, <2>2, CutIs
  <2>3. ASSUME NEW from \in Upto(n) PROVE g[from] = f[from]
    <3>1. from \in Upto(n + 1)
      BY <1>1
    <3>. QED
      BY <2>1, <3>1
  <2>4. Gives(g, n + 1)
    <3>1. \A from \in Upto(n + 1) : from # r.len =>
              f[CutAfter(r, from, room)] = g[CutAfter(r, from, room)]
      BY <2>2, <2>3
    <3>. HIDE DEF Upto
    <3>. QED
      BY <3>1
  <2>. HIDE DEF g, Gives
  <2>. QED
    BY <2>4
<1>4. r.len \in S
  <2>. HIDE DEF S
  <2>. QED
    BY <1>1, <1>2, <1>3, SetInduction
<1>5. Upto(r.len) = 0 .. r.len
  BY <1>1
<1>6. PICK f : Gives(f, r.len)
  BY <1>4
<1>7. IsPieces(f, r, room)
  <2>. HIDE DEF Upto
  <2>. QED
    BY <1>5, <1>6 DEF IsPieces
<1>. QED
  BY <1>7

\* The pieces follow each other, from the beginning of the text to its end.
Tiles(S, r) ==
    /\ \A l \in S : /\ l = [obj |-> r.id, from |-> l.from, to |-> l.to]
                    /\ l.from \in Nat /\ l.to \in Nat /\ l.from < l.to /\ l.to <= r.len
    /\ \A n \in 1 .. r.len : \E l \in S : l.from < n /\ n <= l.to
    /\ \A l, m \in S : \A n \in Nat : l.from < n /\ n <= l.to /\ m.from < n /\ n <= m.to => l = m

\* _split_preserving_text loses no offset and gives none to two pieces.
LEMMA SplitTiles ==
    ASSUME NEW r, IsText(r), NEW room \in Nat \ {0}
    PROVE  Tiles(Split(r, room), r)
<1>. DEFINE f == CHOOSE g : IsPieces(g, r, room)
            Behind(from) ==
              /\ \A l \in f[from] : /\ l = [obj |-> r.id, from |-> l.from, to |-> l.to]
                                    /\ l.from \in Nat /\ l.to \in Nat /\ l.from < l.to /\ l.to <= r.len
                                    /\ from <= l.from
              /\ \A n \in (from + 1) .. r.len : \E l \in f[from] : l.from < n /\ n <= l.to
              /\ \A l, m \in f[from] : \A n \in Nat :
                    l.from < n /\ n <= l.to /\ m.from < n /\ n <= m.to => l = m
            S == {n \in Nat : \A from \in 0 .. r.len : r.len - from <= n => Behind(from)}
<1>1. r.len \in Nat
  BY DEF IsText
<1>2. IsPieces(f, r, room)
  BY PiecesExist
<1>3. \A from \in 0 .. r.len :
        f[from] = IF from = r.len THEN {} ELSE {Piece(r, from, room)} \cup f[CutAfter(r, from, room)]
  <2>. HIDE DEF f
  <2>. QED
    BY <1>2 DEF IsPieces
<1>. HIDE DEF f
<1>0. Behind(r.len)
  <2>1. f[r.len] = {}
    <3>1. r.len \in 0 .. r.len
      BY <1>1
    <3>. QED
      BY Zenon, <1>3, <3>1
  <2>2. (r.len + 1) .. r.len = {}
    BY <1>1
  <2>. QED
    BY <2>1, <2>2
<1>4. 0 \in S
  <2>1. \A from \in 0 .. r.len : r.len - from <= 0 => from = r.len
    BY <1>1
  <2>. HIDE DEF Behind
  <2>. QED
    BY <1>0, <2>1
<1>5. ASSUME NEW n \in Nat, n \in S PROVE n + 1 \in S
  <2>. SUFFICES ASSUME NEW from \in 0 .. r.len, r.len - from <= n + 1
                PROVE  Behind(from)
    OBVIOUS
  <2>1. CASE from = r.len
    BY <1>0, <2>1
  <2>2. CASE from # r.len
    <3>1. PICK cut : cut = CutAfter(r, from, room)
      OBVIOUS
    <3>2. cut \in Nat /\ from \in Nat /\ from < cut /\ cut <= r.len
      BY <1>1, <2>2, <3>1, CutIs
    <3>3. Behind(cut)
      BY <1>1, <1>5, <3>2
    <3>4. f[from] = {[obj |-> r.id, from |-> from, to |-> cut]} \cup f[cut]
      BY <1>3, <2>2, <3>1 DEF Piece
    <3>. DEFINE p == [obj |-> r.id, from |-> from, to |-> cut]
    <3>5. p.from = from /\ p.to = cut /\ p = [obj |-> r.id, from |-> p.from, to |-> p.to]
      OBVIOUS
    <3>6. \A l \in f[from] : l = p \/ l \in f[cut]
      BY <3>4
    <3>7. p \in f[from] /\ f[cut] \subseteq f[from]
      BY <3>4
    <3>. HIDE DEF p
    <3>8. \A l \in f[from] : /\ l = [obj |-> r.id, from |-> l.from, to |-> l.to]
                             /\ l.from \in Nat /\ l.to \in Nat /\ l.from < l.to /\ l.to <= r.len
                             /\ from <= l.from
      BY <1>1, <3>2, <3>3, <3>5, <3>6
    <3>9. ASSUME NEW k \in (from + 1) .. r.len PROVE \E l \in f[from] : l.from < k /\ k <= l.to
      <4>1. CASE k <= cut
        BY <1>1, <3>2, <3>5, <3>7, <4>1
      <4>2. CASE k > cut
        <5>1. k \in (cut + 1) .. r.len
          BY <1>1, <3>2, <4>2
        <5>. QED
          BY <3>3, <3>7, <5>1
      <4>. QED
        BY <1>1, <3>2, <4>1, <4>2
    <3>10. ASSUME NEW l \in f[from], NEW m \in f[from], NEW k \in Nat,
                  l.from < k, k <= l.to, m.from < k, k <= m.to
           PROVE  l = m
      <4>1. ASSUME NEW x \in f[cut] PROVE x.from \in Nat /\ cut <= x.from
        BY <3>3
      <4>2. CASE l = p /\ m \in f[cut]
        BY <3>2, <3>5, <3>10, <4>1, <4>2
      <4>3. CASE m = p /\ l \in f[cut]
        BY <3>2, <3>5, <3>10, <4>1, <4>3
      <4>4. CASE l \in f[cut] /\ m \in f[cut]
        BY <3>3, <3>10, <4>4
      <4>. QED
        BY <3>6, <4>2, <4>3, <4>4
    <3>. QED
      BY <3>8, <3>9, <3>10
  <2>. QED
    BY <2>1, <2>2
<1>6. r.len \in S
  <2>. HIDE DEF S
  <2>. QED
    BY <1>1, <1>4, <1>5, SetInduction
<1>7. Behind(0)
  BY <1>1, <1>6
<1>8. Split(r, room) = f[0]
  BY SplitChooses DEF f
<1>. QED
  BY <1>1, <1>7, <1>8 DEF Tiles

-----------------------------------------------------------------------------
(* What a set of leaves shows.                                              *)

(* The leaves of one text that meet a span of it lie in a set of leaves     *)
(* exactly when the set shows every offset of the span.                     *)
LEMMA SpanIsShown ==
    ASSUME NEW r, IsText(r), NEW S, Tiles(S, r), NEW R, {l \in R : l.obj = r.id} \subseteq S,
           NEW from \in Nat, NEW to \in Nat, from < to, to <= r.len
    PROVE  {l \in S : l.from < to /\ l.to > from} \subseteq R
           <=> (from + 1) .. to \subseteq ShownOffsets(R, r.id)
<1>1. \A l \in S : /\ l = [obj |-> r.id, from |-> l.from, to |-> l.to]
                   /\ l.from \in Nat /\ l.to \in Nat /\ l.from < l.to /\ l.to <= r.len
  BY DEF Tiles
<1>2. \A l \in S : l.obj = r.id
  <2>1. \A l \in S : [obj |-> r.id, from |-> l.from, to |-> l.to].obj = r.id
    OBVIOUS
  <2>. QED
    BY <1>1, <2>1
<1>3. r.len \in Nat
  BY DEF IsText
<1>4. \A n \in Nat : n \in ShownOffsets(R, r.id) <=> \E l \in R : l.obj = r.id /\ n \in (l.from + 1) .. l.to
  BY DEF ShownOffsets
<1>5. ASSUME {l \in S : l.from < to /\ l.to > from} \subseteq R, NEW n \in (from + 1) .. to
      PROVE  n \in ShownOffsets(R, r.id)
  <2>1. n \in 1 .. r.len
    BY <1>3
  <2>2. PICK l \in S : l.from < n /\ n <= l.to
    BY <2>1 DEF Tiles
  <2>3. l \in R
    BY <1>1, <1>5, <2>2
  <2>4. n \in (l.from + 1) .. l.to
    BY <1>1, <2>1, <2>2
  <2>. QED
    BY <1>2, <1>4, <2>1, <2>3, <2>4
<1>6. ASSUME (from + 1) .. to \subseteq ShownOffsets(R, r.id), NEW l \in S, l.from < to, l.to > from
      PROVE  l \in R
  <2>1. PICK n \in (from + 1) .. to : l.from < n /\ n <= l.to
    <3>1. CASE l.from <= from
      <4>1. from + 1 \in (from + 1) .. to /\ l.from < from + 1 /\ from + 1 <= l.to
        BY <1>1, <1>6, <3>1
      <4>. QED
        BY <4>1
    <3>2. CASE l.from > from
      <4>1. l.from + 1 \in (from + 1) .. to /\ l.from < l.from + 1 /\ l.from + 1 <= l.to
        BY <1>1, <1>6, <3>2
      <4>. QED
        BY <4>1
    <3>. QED
      BY <1>1, <3>1, <3>2
  <2>2. n \in Nat /\ n \in ShownOffsets(R, r.id)
    BY <1>6, <2>1
  <2>3. PICK m \in R : m.obj = r.id /\ n \in (m.from + 1) .. m.to
    BY <1>4, <2>2
  <2>4. m \in S
    BY <2>3
  <2>5. m.from < n /\ n <= m.to
    BY <1>1, <2>2, <2>3, <2>4
  <2>6. l = m
    BY <2>1, <2>2, <2>4, <2>5 DEF Tiles
  <2>. QED
    BY <2>3, <2>6
<1>. QED
  BY <1>5, <1>6

\* The same of all leaves of a text and the whole text.
LEMMA WholeIsShown ==
    ASSUME NEW r, IsText(r), NEW S, Tiles(S, r), NEW R, {l \in R : l.obj = r.id} \subseteq S
    PROVE  r.len > 0 => (S \subseteq R <=> 1 .. r.len \subseteq ShownOffsets(R, r.id))
<1>. SUFFICES ASSUME r.len > 0 PROVE S \subseteq R <=> 1 .. r.len \subseteq ShownOffsets(R, r.id)
  OBVIOUS
<1>1. r.len \in Nat
  BY DEF IsText
<1>2. {l \in S : l.from < r.len /\ l.to > 0} = S
  <2>1. \A l \in S : l.from \in Nat /\ l.to \in Nat /\ l.from < l.to /\ l.to <= r.len
    BY DEF Tiles
  <2>. QED
    BY <1>1, <2>1
<1>3. \A a, b \in Nat : a < b /\ b <= r.len =>
        ({l \in S : l.from < b /\ l.to > a} \subseteq R <=> (a + 1) .. b \subseteq ShownOffsets(R, r.id))
  BY SpanIsShown
<1>4. PICK none \in Nat : none = 0
  OBVIOUS
<1>5. {l \in S : l.from < r.len /\ l.to > none} \subseteq R
      <=> (none + 1) .. r.len \subseteq ShownOffsets(R, r.id)
  BY <1>1, <1>3, <1>4
<1>6. (none + 1) .. r.len = 1 .. r.len
  BY <1>1, <1>4
<1>. QED
  BY Zenon, <1>2, <1>4, <1>5, <1>6

-----------------------------------------------------------------------------
(* The leaves of a document.                                                *)

\* The records of a document are known by their ids, its cells by their places.
LEMMA DocumentHas ==
    ASSUME NEW doc, IsDocument(doc)
    PROVE  /\ \A r \in Records(doc) : IsText(r) /\ r.row \in Nat /\ r.col \in Nat
           /\ \A r, o \in Records(doc) : r.id = o.id => r = o
           /\ \A r \in Records(doc) : RecordOf(doc, r.id) = r
           /\ CellRecords(doc) = {c \in Records(doc) : c.kind = "cell"}
           /\ \A c, d \in CellRecords(doc) : Position(c) = Position(d) => c = d
<1>1. \A r \in Records(doc) : IsText(r) /\ r.row \in Nat /\ r.col \in Nat
  BY DEF IsDocument, Records, IsText
<1>2. \A r, o \in Records(doc) : r.id = o.id => r = o
  BY DEF IsDocument, Records
<1>3. \A r \in Records(doc) : RecordOf(doc, r.id) = r
  BY <1>2 DEF RecordOf
<1>4. CellRecords(doc) = {c \in Records(doc) : c.kind = "cell"}
  <2>1. ASSUME NEW n \in DOMAIN doc, doc[n].kind = "cell"
        PROVE  doc[n] \in CellRecords(doc)
    <3>1. \A m \in DOMAIN doc : m > n /\ doc[m].kind = "cell" => Position(doc[m]) # Position(doc[n])
      BY <2>1 DEF IsDocument
    <3>. QED
      BY <2>1, <3>1 DEF CellRecords
  <2>. QED
    BY <2>1 DEF CellRecords, Records
<1>5. \A c, d \in CellRecords(doc) : Position(c) = Position(d) => c = d
  <2>. SUFFICES ASSUME NEW c \in CellRecords(doc), NEW d \in CellRecords(doc), Position(c) = Position(d)
                PROVE  c = d
    OBVIOUS
  <2>1. PICK m \in DOMAIN doc, n \in DOMAIN doc : c = doc[m] /\ d = doc[n] /\ c.kind = "cell" /\ d.kind = "cell"
    BY DEF CellRecords
  <2>. QED
    BY <2>1 DEF IsDocument
<1>. QED
  BY <1>1, <1>2, <1>3, <1>4, <1>5

\* A header has some number of characters, so that a cell has some room.
LEMMA RoomIs ==
    ASSUME NEW doc, IsDocument(doc), NEW r \in Retrievable(doc)
    PROVE  Room(doc, r) \in Int
<1>. DEFINE there(row, col) == {m \in CellsIn(doc, r.table) : m.row = row /\ m.col = col}
            size(row, col) ==
              IF there(row, col) = {} THEN 0 ELSE (CHOOSE c \in there(row, col) : TRUE).len
            first == Min({c.row : c \in CellsIn(doc, r.table)})
            left == Min({c.col : c \in CellsIn(doc, r.table)})
<1>1. \A row, col : size(row, col) \in Nat
  <2>. SUFFICES ASSUME NEW row, NEW col PROVE size(row, col) \in Nat
    OBVIOUS
  <2>1. \A c \in there(row, col) : c.len \in Nat
    BY DocumentHas DEF CellsIn, IsText
  <2>. HIDE DEF there
  <2>2. CASE there(row, col) = {}
    BY <2>2
  <2>3. CASE there(row, col) # {}
    <3>1. (CHOOSE c \in there(row, col) : TRUE) \in there(row, col)
      BY <2>3
    <3>. QED
      BY <2>1, <2>3, <3>1
  <2>. QED
    BY <2>2, <2>3
<1>2. HeaderSize(doc, r) = size(first, r.col) + size(r.row, left)
  BY Zenon DEF HeaderSize
<1>. HIDE DEF size, first, left
<1>3. HeaderSize(doc, r) \in Nat
  BY <1>1, <1>2
<1>. QED
  BY <1>3, EnvelopeAssumption DEF Room

\* Every retrievable text is tiled by leaves of its own.
LEMMA LeavesTile ==
    ASSUME NEW doc, IsDocument(doc), ~ SegmentsFail(doc)
    PROVE  /\ \A r \in Retrievable(doc) : /\ r \in Records(doc) /\ r.len > 0
                                          /\ Tiles({l \in Leaves(doc) : l.obj = r.id}, r)
           /\ \A l \in Leaves(doc) : \E r \in Retrievable(doc) : l.obj = r.id
<1>1. \A r \in Retrievable(doc) : r \in Records(doc) /\ r.len > 0
  BY DocumentHas DEF Retrievable
<1>2. ASSUME NEW r \in Retrievable(doc)
      PROVE  Tiles(Split(r, Room(doc, r)), r) /\ \A l \in Split(r, Room(doc, r)) : l.obj = r.id
  <2>1. Room(doc, r) \in Nat \ {0}
    BY RoomIs DEF SegmentsFail
  <2>2. IsText(r)
    BY <1>1, DocumentHas
  <2>3. Tiles(Split(r, Room(doc, r)), r)
    BY <2>1, <2>2, SplitTiles
  <2>4. \A l \in Split(r, Room(doc, r)) : l = [obj |-> r.id, from |-> l.from, to |-> l.to]
    BY <2>3 DEF Tiles
  <2>5. \A l \in Split(r, Room(doc, r)) : [obj |-> r.id, from |-> l.from, to |-> l.to].obj = r.id
    OBVIOUS
  <2>. QED
    BY <2>3, <2>4, <2>5
<1>3. \A l : l \in Leaves(doc) <=> \E r \in Retrievable(doc) : l \in Split(r, Room(doc, r))
  BY DEF Leaves
<1>4. ASSUME NEW r \in Retrievable(doc)
      PROVE  {l \in Leaves(doc) : l.obj = r.id} = Split(r, Room(doc, r))
  <2>1. \A o \in Retrievable(doc) : o.id = r.id => o = r
    BY <1>1, DocumentHas
  <2>. QED
    BY <1>2, <1>3, <2>1
<1>. QED
  BY <1>1, <1>2, <1>3, <1>4

\* A cell or a paragraph is shown by its leaves; one without text has none.
LEMMA TextIsShown ==
    ASSUME NEW doc, IsDocument(doc), ~ SegmentsFail(doc), NEW R \in SUBSET Leaves(doc),
           NEW r \in Records(doc), r.kind = "cell" \/ r \in Retrievable(doc)
    PROVE  {l \in Leaves(doc) : l.obj = r.id} \subseteq R
           <=> 1 .. r.len \subseteq ShownOffsets(R, r.id)
<1>1. r.len \in Nat /\ IsText(r)
  BY DocumentHas DEF IsText
<1>2. CASE r \in Retrievable(doc)
  <2>1. Tiles({l \in Leaves(doc) : l.obj = r.id}, r) /\ r.len > 0
    BY <1>2, LeavesTile
  <2>2. {l \in R : l.obj = r.id} \subseteq {l \in Leaves(doc) : l.obj = r.id}
    OBVIOUS
  <2>. QED
    BY <1>1, <2>1, <2>2, WholeIsShown
<1>3. CASE r \notin Retrievable(doc)
  <2>1. r \in CellRecords(doc) /\ ~ (r.len > 0)
    BY <1>3, DocumentHas DEF Retrievable
  <2>2. \A l \in Leaves(doc) : l.obj # r.id
    <3>. SUFFICES ASSUME NEW l \in Leaves(doc), l.obj = r.id PROVE FALSE
      OBVIOUS
    <3>1. PICK o \in Retrievable(doc) : l.obj = o.id
      BY LeavesTile
    <3>2. o \in Records(doc) /\ o = r
      BY <3>1, LeavesTile, DocumentHas
    <3>. QED
      BY <1>3, <3>2
  <2>3. 1 .. r.len = {}
    BY <1>1, <2>1
  <2>. QED
    BY <2>2, <2>3
<1>. QED
  BY <1>2, <1>3

\* The leaves of some objects are those of each of them.
LEMMA MembersAreShown ==
    ASSUME NEW doc, IsDocument(doc), ~ SegmentsFail(doc), NEW R \in SUBSET Leaves(doc),
           NEW parts \in SUBSET Records(doc), \A r \in parts : r.kind = "cell" \/ r \in Retrievable(doc)
    PROVE  {l \in Leaves(doc) : l.obj \in {r.id : r \in parts}} \subseteq R
           <=> \A r \in parts : 1 .. r.len \subseteq ShownOffsets(R, r.id)
<1>1. \A r \in parts : {l \in Leaves(doc) : l.obj = r.id} \subseteq R
                       <=> 1 .. r.len \subseteq ShownOffsets(R, r.id)
  BY TextIsShown
<1>2. {l \in Leaves(doc) : l.obj \in {r.id : r \in parts}} \subseteq R
      <=> \A r \in parts : {l \in Leaves(doc) : l.obj = r.id} \subseteq R
  OBVIOUS
<1>. QED
  BY <1>1, <1>2

(* The leaves a Gold Evidence is projected onto (_gold_segments) are all    *)
(* there exactly when the text it is about is.                              *)
LEMMA EvidenceIsShown ==
    ASSUME NEW doc, IsDocument(doc), ~ SegmentsFail(doc), NEW R \in SUBSET Leaves(doc),
           NEW e, ~ EvidenceFails(doc, e),
           Narrowed(doc, e) /\ e.witness # Ambiguous =>
                /\ e.witness.from \in Nat /\ e.witness.to \in Nat
                /\ e.witness.from < e.witness.to
                /\ e.witness.to <= RecordOf(doc, Target(doc, e)).len
    PROVE  EvidenceLeaves(doc, e) \subseteq R <=> ShowsEvidence(doc, e, R)
<1>1. Candidates(doc, e) # {} /\ LeavesOf(doc, Target(doc, e)) # {}
  BY FS_EmptySet DEF EvidenceFails
<1>2. Target(doc, e) \in Candidates(doc, e)
  BY <1>1 DEF Target
<1>3. PICK r \in Records(doc) : /\ r.id = Target(doc, e)
                                /\ \/ e.by = "object" /\ r.id = e.obj
                                   \/ e.by = "cell" /\ r.kind = "cell"
  BY <1>2 DEF Candidates
<1>4. RecordOf(doc, Target(doc, e)) = r
  BY <1>3, DocumentHas
<1>5. IsStructural(doc, e) <=> r.kind \in {"table", "row"}
  BY <1>3, <1>4 DEF IsStructural, Structural
<1>6. \A t : CellsIn(doc, t) = {c \in Records(doc) : c.kind = "cell" /\ c.table = t}
  BY DocumentHas DEF CellsIn
<1>7. CASE r.kind = "table"
  <2>. DEFINE parts == {c \in Records(doc) : c.kind = "cell" /\ c.table = r.id}
  <2>1. LeavesOf(doc, r.id) = {l \in Leaves(doc) : l.obj \in {c.id : c \in parts}}
    BY <1>3, <1>4, <1>6, <1>7 DEF LeavesOf
  <2>2. EvidenceLeaves(doc, e) = LeavesOf(doc, r.id)
    BY <1>3, <1>5, <1>7 DEF EvidenceLeaves, Narrowed
  <2>3. ShowsEvidence(doc, e, R) <=> \A c \in parts : 1 .. c.len \subseteq ShownOffsets(R, c.id)
    BY <1>3, <1>4, <1>5, <1>7 DEF ShowsEvidence, Narrowed
  <2>4. parts \in SUBSET Records(doc) /\ \A c \in parts : c.kind = "cell" \/ c \in Retrievable(doc)
    OBVIOUS
  <2>. HIDE DEF parts
  <2>5. {l \in Leaves(doc) : l.obj \in {c.id : c \in parts}} \subseteq R
        <=> \A c \in parts : 1 .. c.len \subseteq ShownOffsets(R, c.id)
    BY <2>4, MembersAreShown
  <2>. QED
    BY Zenon, <1>3, <2>1, <2>2, <2>3, <2>5
<1>8. CASE r.kind = "row"
  <2>. DEFINE parts == {c \in Records(doc) : c.kind = "cell" /\ c.table = r.table /\ c.row = r.row}
  <2>1. LeavesOf(doc, r.id) = {l \in Leaves(doc) : l.obj \in {c.id : c \in parts}}
    <3>1. parts = {m \in CellsIn(doc, r.table) : m.row = r.row}
      BY <1>6
    <3>. QED
      BY <1>3, <1>4, <1>8, <3>1 DEF LeavesOf
  <2>2. EvidenceLeaves(doc, e) = LeavesOf(doc, r.id)
    BY <1>3, <1>5, <1>8 DEF EvidenceLeaves, Narrowed
  <2>3. ShowsEvidence(doc, e, R) <=> \A c \in parts : 1 .. c.len \subseteq ShownOffsets(R, c.id)
    BY <1>3, <1>4, <1>5, <1>8 DEF ShowsEvidence, Narrowed
  <2>4. parts \in SUBSET Records(doc) /\ \A c \in parts : c.kind = "cell" \/ c \in Retrievable(doc)
    OBVIOUS
  <2>. HIDE DEF parts
  <2>5. {l \in Leaves(doc) : l.obj \in {c.id : c \in parts}} \subseteq R
        <=> \A c \in parts : 1 .. c.len \subseteq ShownOffsets(R, c.id)
    BY <2>4, MembersAreShown
  <2>. QED
    BY Zenon, <1>3, <2>1, <2>2, <2>3, <2>5
<1>9. CASE r.kind \notin {"table", "row"}
  <2>1. LeavesOf(doc, r.id) = {l \in Leaves(doc) : l.obj = r.id}
    BY <1>3, <1>4, <1>9 DEF LeavesOf
  <2>2. r \in Retrievable(doc)
    <3>1. PICK l \in Leaves(doc) : l.obj = r.id
      BY <1>1, <1>3, <2>1
    <3>2. PICK o \in Retrievable(doc) : l.obj = o.id
      BY LeavesTile
    <3>3. o \in Records(doc) /\ o = r
      BY <3>1, <3>2, LeavesTile, DocumentHas
    <3>. QED
      BY <3>3
  <2>3. CASE ~ Narrowed(doc, e)
    <3>1. EvidenceLeaves(doc, e) = {l \in Leaves(doc) : l.obj = r.id}
      BY <1>3, <2>1, <2>3 DEF EvidenceLeaves
    <3>2. ShowsEvidence(doc, e, R) <=> 1 .. r.len \subseteq ShownOffsets(R, r.id)
      BY <1>3, <1>4, <1>9, <2>3 DEF ShowsEvidence
    <3>. QED
      BY <2>2, <3>1, <3>2, TextIsShown
  <2>4. CASE Narrowed(doc, e)
    <3>. DEFINE S == {l \in Leaves(doc) : l.obj = r.id}
    <3>1. EvidenceLeaves(doc, e) = {l \in S : l.from < e.witness.to /\ l.to > e.witness.from}
      BY <1>3, <2>1, <2>4 DEF EvidenceLeaves
    <3>2. ShowsEvidence(doc, e, R) <=> (e.witness.from + 1) .. e.witness.to \subseteq ShownOffsets(R, r.id)
      BY <1>3, <2>4 DEF ShowsEvidence
    <3>3. /\ e.witness.from \in Nat /\ e.witness.to \in Nat
          /\ e.witness.from < e.witness.to /\ e.witness.to <= r.len
      BY <1>4, <2>4 DEF EvidenceFails
    <3>4. IsText(r) /\ Tiles(S, r) /\ {l \in R : l.obj = r.id} \subseteq S
      BY <2>2, LeavesTile, DocumentHas
    <3>. HIDE DEF S
    <3>5. \A a, b \in Nat : a < b /\ b <= r.len =>
            ({l \in S : l.from < b /\ l.to > a} \subseteq R <=> (a + 1) .. b \subseteq ShownOffsets(R, r.id))
      BY <3>4, SpanIsShown
    <3>. QED
      BY <3>1, <3>2, <3>3, <3>5
  <2>. QED
    BY <2>3, <2>4
<1>. QED
  BY <1>7, <1>8, <1>9

(* evaluate_segment_retrieval finds an evidence path within the leaves      *)
(* exactly when they show evidence that answers the question.               *)
LEMMA PathIsShown ==
    ASSUME NEW doc, NEW gold, ~ ContractFails(doc, gold), IsDocument(doc), IsWitnessed(doc, gold),
           NEW R \in SUBSET Leaves(doc)
    PROVE  (\E path \in EvidencePaths(doc, gold) : path \subseteq R)
           <=> ~ gold.abstain /\ ShowsGold(doc, gold, R)
<1>1. CASE gold.abstain
  BY <1>1 DEF EvidencePaths
<1>2. CASE ~ gold.abstain
  <2>. DEFINE leaves(g) == EvidenceLeaves(doc, gold.evidence[g])
              Choice(path, c) == [i \in DOMAIN path |-> leaves(c[i])]
  <2>1. ASSUME NEW g \in DOMAIN gold.evidence
        PROVE  leaves(g) \subseteq R <=> ShowsEvidence(doc, gold.evidence[g], R)
    <3>1. ~ SegmentsFail(doc) /\ ~ EvidenceFails(doc, gold.evidence[g])
      BY DEF ContractFails
    <3>2. Narrowed(doc, gold.evidence[g]) /\ gold.evidence[g].witness # Ambiguous =>
                /\ gold.evidence[g].witness.from \in Nat /\ gold.evidence[g].witness.to \in Nat
                /\ gold.evidence[g].witness.from < gold.evidence[g].witness.to
                /\ gold.evidence[g].witness.to <= RecordOf(doc, Target(doc, gold.evidence[g])).len
      BY Zenon DEF IsWitnessed
    <3>. QED
      BY <3>1, <3>2, EvidenceIsShown
  <2>2. \A p \in DOMAIN gold.paths : \A i \in DOMAIN gold.paths[p] :
            gold.paths[p][i] \subseteq DOMAIN gold.evidence
    BY <1>2 DEF ContractFails
  <2>3. Expanded(doc, gold) =
          UNION {{Choice(gold.paths[p], c) : c \in PathChoices(gold.paths[p])} : p \in DOMAIN gold.paths}
    BY DEF Expanded
  <2>4. EvidencePaths(doc, gold) = {UNION {x[i] : i \in DOMAIN x} : x \in Expanded(doc, gold)}
    BY <1>2 DEF EvidencePaths
  <2>8. \A y \in Expanded(doc, gold) : UNION {y[i] : i \in DOMAIN y} \in EvidencePaths(doc, gold)
    BY <2>4
  <2>5. \A path, c : /\ DOMAIN Choice(path, c) = DOMAIN path
                     /\ \A i \in DOMAIN path : Choice(path, c)[i] = leaves(c[i])
    OBVIOUS
  <2>. HIDE DEF leaves, Choice
  <2>6. ASSUME NEW path \in EvidencePaths(doc, gold), path \subseteq R
        PROVE  ShowsGold(doc, gold, R)
    <3>1. PICK x \in Expanded(doc, gold) : path = UNION {x[i] : i \in DOMAIN x}
      BY <2>4, <2>6
    <3>2. PICK p \in DOMAIN gold.paths : x \in {Choice(gold.paths[p], c) : c \in PathChoices(gold.paths[p])}
      BY <2>3, <3>1
    <3>3. PICK c \in PathChoices(gold.paths[p]) : x = Choice(gold.paths[p], c)
      BY <3>2
    <3>4. \A i \in DOMAIN gold.paths[p] : c[i] \in gold.paths[p][i]
      BY DEF PathChoices
    <3>5. \A i \in DOMAIN gold.paths[p] : leaves(c[i]) \subseteq R
      <4>. SUFFICES ASSUME NEW i \in DOMAIN gold.paths[p] PROVE leaves(c[i]) \subseteq R
        OBVIOUS
      <4>1. i \in DOMAIN x /\ x[i] = leaves(c[i])
        BY <2>5, <3>3
      <4>2. x[i] \subseteq path
        BY <3>1, <4>1
      <4>. QED
        BY <2>6, <4>1, <4>2
    <3>6. \A i \in DOMAIN gold.paths[p] : c[i] \in DOMAIN gold.evidence
      BY <2>2, <3>4
    <3>. QED
      BY <2>1, <3>4, <3>5, <3>6 DEF ShowsGold
  <2>7. ASSUME ShowsGold(doc, gold, R)
        PROVE  \E path \in EvidencePaths(doc, gold) : path \subseteq R
    <3>1. PICK p \in DOMAIN gold.paths : \A i \in DOMAIN gold.paths[p] :
             \E g \in gold.paths[p][i] : ShowsEvidence(doc, gold.evidence[g], R)
      BY <2>7 DEF ShowsGold
    <3>. DEFINE c == [i \in DOMAIN gold.paths[p] |->
                        CHOOSE g \in gold.paths[p][i] : ShowsEvidence(doc, gold.evidence[g], R)]
    <3>2. \A i \in DOMAIN gold.paths[p] :
             c[i] \in gold.paths[p][i] /\ ShowsEvidence(doc, gold.evidence[c[i]], R)
      BY <3>1
    <3>3. c \in PathChoices(gold.paths[p])
      <4>1. c \in [DOMAIN gold.paths[p] -> UNION {gold.paths[p][i] : i \in DOMAIN gold.paths[p]}]
        BY <3>2
      <4>. HIDE DEF c
      <4>. QED
        BY <3>2, <4>1 DEF PathChoices
    <3>. HIDE DEF c
    <3>4. \A i \in DOMAIN gold.paths[p] : leaves(c[i]) \subseteq R
      BY <2>1, <2>2, <3>2
    <3>. DEFINE x == Choice(gold.paths[p], c)
    <3>5. x \in Expanded(doc, gold)
      BY <2>3, <3>3
    <3>6. UNION {x[i] : i \in DOMAIN x} \subseteq R
      <4>1. \A i \in DOMAIN x : x[i] \subseteq R
        BY <2>5, <3>4
      <4>. HIDE DEF x
      <4>. QED
        BY <4>1
    <3>. HIDE DEF x
    <3>7. UNION {x[i] : i \in DOMAIN x} \in EvidencePaths(doc, gold)
      BY <2>8, <3>5
    <3>. QED
      BY <3>6, <3>7
  <2>. QED
    BY <1>2, <2>6, <2>7
<1>. QED
  BY <1>1, <1>2

-----------------------------------------------------------------------------
(* The order of the inputs.                                                 *)

\* The image of a finite set is finite.
LEMMA ImageIsFinite ==
    ASSUME NEW S, IsFiniteSet(S), NEW f
    PROVE  IsFiniteSet({f[x] : x \in S})
<1>. DEFINE T == {f[x] : x \in S}
            g == [x \in S |-> f[x]]
<1>1. g \in Surjection(S, T)
  BY DEF Surjection
<1>. QED
  BY <1>1, FS_Surjection

\* The leaves of a document are finitely many.
LEMMA LeavesFinite ==
    ASSUME NEW doc, IsDocument(doc), ~ SegmentsFail(doc)
    PROVE  IsFiniteSet(Leaves(doc))
<1>1. IsFiniteSet(Records(doc))
  <2>1. IsFiniteSet(DOMAIN doc)
    BY FS_Interval DEF IsDocument
  <2>2. IsFiniteSet({doc[i] : i \in DOMAIN doc})
    BY <2>1, ImageIsFinite
  <2>. QED
    BY <2>2 DEF Records
<1>2. IsFiniteSet(Retrievable(doc))
  <2>1. Retrievable(doc) \subseteq Records(doc)
    BY LeavesTile
  <2>. QED
    BY <1>1, <2>1, FS_Subset
<1>. DEFINE own == [r \in Retrievable(doc) |-> {l \in Leaves(doc) : l.obj = r.id}]
<1>3. ASSUME NEW r \in Retrievable(doc) PROVE IsFiniteSet(own[r])
  <2>1. r.len \in Nat
    BY LeavesTile, DocumentHas DEF IsText
  <2>. DEFINE spans == (0 .. r.len) \X (0 .. r.len)
              leaf == [s \in spans |-> [obj |-> r.id, from |-> s[1], to |-> s[2]]]
  <2>2. IsFiniteSet(spans)
    <3>1. IsFiniteSet(0 .. r.len)
      BY <2>1, FS_Interval
    <3>. QED
      BY <3>1, FS_Product
  <2>3. IsFiniteSet({leaf[s] : s \in spans})
    <3>. HIDE DEF leaf, spans
    <3>. QED
      BY <2>2, ImageIsFinite
  <2>4. own[r] \subseteq {leaf[s] : s \in spans}
    <3>. SUFFICES ASSUME NEW l \in own[r] PROVE l \in {leaf[s] : s \in spans}
      OBVIOUS
    <3>1. l = [obj |-> r.id, from |-> l.from, to |-> l.to] /\ l.from \in 0 .. r.len /\ l.to \in 0 .. r.len
      BY <2>1, LeavesTile DEF Tiles
    <3>2. <<l.from, l.to>> \in spans
      BY <3>1
    <3>3. leaf[<<l.from, l.to>>] = l
      BY <3>1, <3>2
    <3>. HIDE DEF leaf, spans
    <3>. QED
      BY <3>2, <3>3
  <2>. HIDE DEF own
  <2>. QED
    BY <2>3, <2>4, FS_Subset
<1>4. Leaves(doc) \subseteq UNION {own[r] : r \in Retrievable(doc)}
  BY LeavesTile
<1>. HIDE DEF own
<1>5. IsFiniteSet(UNION {own[r] : r \in Retrievable(doc)})
  <2>1. IsFiniteSet({own[r] : r \in Retrievable(doc)})
    BY <1>2, ImageIsFinite
  <2>2. \A T \in {own[r] : r \in Retrievable(doc)} : IsFiniteSet(T)
    BY <1>3
  <2>. QED
    BY <2>1, <2>2, FS_UNION
<1>. QED
  BY <1>4, <1>5, FS_Subset

\* A finite set that is ordered can be counted in that order.
LEMMA CountedInOrder ==
    ASSUME NEW L, IsFiniteSet(L), NEW R,
           \A l \in L : <<l, l>> \notin R,
           \A l, m \in L : l # m => <<l, m>> \in R \/ <<m, l>> \in R,
           \A l, m, n \in L : <<l, m>> \in R /\ <<m, n>> \in R => <<l, n>> \in R
    PROVE  \E s \in [1 .. Cardinality(L) -> L] :
               \A i, j \in 1 .. Cardinality(L) : i < j => <<s[i], s[j]>> \in R
<1>. DEFINE below(l) == {m \in L : <<m, l>> \in R}
            rank == [l \in L |-> Cardinality(below(l)) + 1]
            n == Cardinality(L)
<1>1. n \in Nat
  BY FS_CardinalityType
<1>2. ASSUME NEW l \in L
      PROVE  IsFiniteSet(below(l)) /\ Cardinality(below(l)) \in Nat /\ Cardinality(below(l)) < n
  <2>1. below(l) \in SUBSET L /\ below(l) # L
    OBVIOUS
  <2>. HIDE DEF below
  <2>2. IsFiniteSet(below(l)) /\ Cardinality(below(l)) <= n /\ n # Cardinality(below(l))
    BY <2>1, FS_Subset
  <2>3. Cardinality(below(l)) \in Nat
    BY <2>2, FS_CardinalityType
  <2>. QED
    BY <1>1, <2>2, <2>3
<1>3. ASSUME NEW l \in L, NEW m \in L, <<l, m>> \in R
      PROVE  Cardinality(below(l)) < Cardinality(below(m))
  <2>1. below(l) \in SUBSET below(m) /\ below(l) # below(m)
    <3>1. l \in below(m) /\ l \notin below(l)
      BY <1>3
    <3>2. \A x \in below(l) : x \in below(m)
      BY <1>3
    <3>. QED
      BY <3>1, <3>2
  <2>2. IsFiniteSet(below(m)) /\ Cardinality(below(l)) \in Nat /\ Cardinality(below(m)) \in Nat
    BY <1>2
  <2>. HIDE DEF below
  <2>3. Cardinality(below(l)) <= Cardinality(below(m)) /\ Cardinality(below(m)) # Cardinality(below(l))
    BY <2>1, <2>2, FS_Subset
  <2>. QED
    BY <2>2, <2>3
<1>. HIDE DEF below
<1>4. rank \in [L -> 1 .. n]
  BY <1>1, <1>2
<1>5. \A l, m \in L : <<l, m>> \in R => rank[l] < rank[m]
  BY <1>2, <1>3
<1>6. \A l \in L : rank[l] \in Nat
  BY <1>2
<1>. HIDE DEF rank
<1>7. rank \in Injection(L, 1 .. n)
  <2>1. ASSUME NEW l \in L, NEW m \in L, rank[l] = rank[m] PROVE l = m
    <3>1. SUFFICES ASSUME l # m PROVE FALSE
      OBVIOUS
    <3>2. rank[l] < rank[m] \/ rank[m] < rank[l]
      BY <1>5, <3>1
    <3>. QED
      BY <1>6, <2>1, <3>2
  <2>. HIDE DEF n
  <2>2. DOMAIN rank = L
    BY <1>4
  <2>3. IsInjective(rank)
    BY <2>1, <2>2 DEF IsInjective
  <2>. QED
    BY <1>4, <2>3 DEF Injection
<1>8. rank \in Surjection(L, 1 .. n)
  <2>1. IsFiniteSet(1 .. n) /\ Cardinality(1 .. n) = n
    BY <1>1, FS_Interval
  <2>. QED
    BY <1>7, <2>1, FS_Injection
<1>9. \A i \in 1 .. n : \E l \in L : rank[l] = i
  BY <1>8 DEF Surjection
<1>. DEFINE s == [i \in 1 .. n |-> CHOOSE l \in L : rank[l] = i]
<1>10. \A i \in 1 .. n : s[i] \in L /\ rank[s[i]] = i
  BY <1>9
<1>11. s \in [1 .. n -> L]
  BY <1>10
<1>. HIDE DEF s, n
<1>12. ASSUME NEW i \in 1 .. n, NEW j \in 1 .. n, i < j PROVE <<s[i], s[j]>> \in R
  <2>1. s[i] # s[j]
    BY <1>1, <1>10, <1>12
  <2>2. <<s[j], s[i]>> \notin R
    <3>1. ~ (j < i)
      BY <1>1, <1>12
    <3>. QED
      BY <1>5, <1>10, <3>1
  <2>. QED
    BY <1>10, <2>1, <2>2
<1>. QED
  BY <1>11, <1>12 DEF n

\* The leaves have an order, and the inputs are the leaves in it.
LEMMA InputsAreLeaves ==
    ASSUME NEW doc, IsDocument(doc), ~ SegmentsFail(doc)
    PROVE  /\ Cardinality(Leaves(doc)) \in Nat
           /\ LeavesInOrder(doc) \in [1 .. Cardinality(Leaves(doc)) -> Leaves(doc)]
<1>. DEFINE L == Leaves(doc)
            key(x) == LET r == RecordOf(doc, x.obj)
                      IN  IF r.kind = "cell" THEN <<0, r.row, r.col, Order(doc, x.obj), x.from>>
                          ELSE <<1, 0, 0, Order(doc, x.obj), x.from>>
            R == {p \in L \X L : Before(doc, p[1], p[2])}
<1>1. ASSUME NEW l \in L
      PROVE  /\ \A i \in 1 .. 5 : key(l)[i] \in Nat
             /\ key(l)[4] = Order(doc, l.obj) /\ key(l)[5] = l.from
             /\ doc[Order(doc, l.obj)].id = l.obj
  <2>1. PICK r \in Retrievable(doc) : l.obj = r.id
    BY LeavesTile
  <2>2. r \in Records(doc) /\ RecordOf(doc, l.obj) = r /\ r.row \in Nat /\ r.col \in Nat
    BY <2>1, LeavesTile, DocumentHas
  <2>3. l.from \in Nat
    BY <2>1, LeavesTile DEF Tiles
  <2>4. Order(doc, l.obj) \in DOMAIN doc /\ doc[Order(doc, l.obj)].id = l.obj
    BY <2>1, <2>2 DEF Order, Records
  <2>5. Order(doc, l.obj) \in Nat
    BY <2>4 DEF IsDocument
  <2>6. key(l) = IF r.kind = "cell" THEN <<0, r.row, r.col, Order(doc, l.obj), l.from>>
                 ELSE <<1, 0, 0, Order(doc, l.obj), l.from>>
    BY <2>2
  <2>. HIDE DEF key
  <2>. QED
    BY <2>2, <2>3, <2>4, <2>5, <2>6
<1>2. \A l, m \in L : Before(doc, l, m) <=>
          \/ key(l)[1] < key(m)[1]
          \/ key(l)[1] = key(m)[1] /\ key(l)[2] < key(m)[2]
          \/ key(l)[1] = key(m)[1] /\ key(l)[2] = key(m)[2] /\ key(l)[3] < key(m)[3]
          \/ /\ key(l)[1] = key(m)[1] /\ key(l)[2] = key(m)[2] /\ key(l)[3] = key(m)[3]
             /\ key(l)[4] < key(m)[4]
          \/ /\ key(l)[1] = key(m)[1] /\ key(l)[2] = key(m)[2] /\ key(l)[3] = key(m)[3]
             /\ key(l)[4] = key(m)[4] /\ key(l)[5] < key(m)[5]
  <2>1. \A l, m \in L : Before(doc, l, m) <=>
           \E n \in 1 .. 5 : key(l)[n] < key(m)[n] /\ \A k \in 1 .. (n - 1) : key(l)[k] = key(m)[k]
    BY Zenon DEF Before
  <2>2. \A f, g : (\E n \in 1 .. 5 : f[n] < g[n] /\ \A k \in 1 .. (n - 1) : f[k] = g[k]) <=>
          \/ f[1] < g[1]
          \/ f[1] = g[1] /\ f[2] < g[2]
          \/ f[1] = g[1] /\ f[2] = g[2] /\ f[3] < g[3]
          \/ f[1] = g[1] /\ f[2] = g[2] /\ f[3] = g[3] /\ f[4] < g[4]
          \/ f[1] = g[1] /\ f[2] = g[2] /\ f[3] = g[3] /\ f[4] = g[4] /\ f[5] < g[5]
    OBVIOUS
  <2>. HIDE DEF key
  <2>. QED
    BY <2>1, <2>2
<1>3. ASSUME NEW l \in L, NEW m \in L, key(l)[4] = key(m)[4], key(l)[5] = key(m)[5] PROVE l = m
  <2>1. l.obj = m.obj /\ l.from = m.from
    <3>. HIDE DEF key
    <3>. QED
      BY <1>1, <1>3
  <2>2. PICK r \in Retrievable(doc) : l.obj = r.id
    BY LeavesTile
  <2>3. Tiles({x \in L : x.obj = r.id}, r)
    BY <2>2, LeavesTile
  <2>4. l.from \in Nat /\ l.to \in Nat /\ m.to \in Nat /\ l.from < l.to /\ l.from < m.to
    BY <2>1, <2>2, <2>3 DEF Tiles
  <2>5. l.from + 1 \in Nat /\ l.from < l.from + 1 /\ l.from + 1 <= l.to /\ l.from + 1 <= m.to
    BY <2>4
  <2>. QED
    BY <2>1, <2>2, <2>3, <2>5 DEF Tiles
<1>. HIDE DEF key
<1>4. \A l, m \in L : <<l, m>> \in R <=> Before(doc, l, m)
  OBVIOUS
<1>. HIDE DEF R
<1>5. \A l \in L : <<l, l>> \notin R
  BY <1>1, <1>2, <1>4
<1>6. ASSUME NEW l \in L, NEW m \in L, l # m PROVE <<l, m>> \in R \/ <<m, l>> \in R
  <2>1. /\ key(l)[1] \in Nat /\ key(l)[2] \in Nat /\ key(l)[3] \in Nat /\ key(l)[4] \in Nat /\ key(l)[5] \in Nat
        /\ key(m)[1] \in Nat /\ key(m)[2] \in Nat /\ key(m)[3] \in Nat /\ key(m)[4] \in Nat /\ key(m)[5] \in Nat
    BY <1>1
  <2>2. key(l)[4] # key(m)[4] \/ key(l)[5] # key(m)[5]
    BY <1>3, <1>6
  <2>. QED
    BY <1>2, <1>4, <2>1, <2>2
<1>7. ASSUME NEW l \in L, NEW m \in L, NEW n \in L, <<l, m>> \in R, <<m, n>> \in R
      PROVE  <<l, n>> \in R
  <2>1. /\ key(l)[1] \in Nat /\ key(l)[2] \in Nat /\ key(l)[3] \in Nat /\ key(l)[4] \in Nat /\ key(l)[5] \in Nat
        /\ key(m)[1] \in Nat /\ key(m)[2] \in Nat /\ key(m)[3] \in Nat /\ key(m)[4] \in Nat /\ key(m)[5] \in Nat
        /\ key(n)[1] \in Nat /\ key(n)[2] \in Nat /\ key(n)[3] \in Nat /\ key(n)[4] \in Nat /\ key(n)[5] \in Nat
    BY <1>1
  <2>2. Before(doc, l, m) /\ Before(doc, m, n)
    BY <1>4, <1>7
  <2>3. Before(doc, l, n)
    BY <1>2, <2>1, <2>2
  <2>. QED
    BY <1>4, <2>3
<1>8. IsFiniteSet(L)
  BY LeavesFinite
<1>9. \E s \in [1 .. Cardinality(L) -> L] :
        \A i, j \in 1 .. Cardinality(L) : i < j => <<s[i], s[j]>> \in R
  <2>. HIDE DEF L
  <2>. QED
    BY <1>5, <1>6, <1>7, <1>8, CountedInOrder
<1>10. \E s \in [1 .. Cardinality(L) -> L] : \A i, j \in DOMAIN s : i < j => Before(doc, s[i], s[j])
  <2>1. PICK s \in [1 .. Cardinality(L) -> L] :
           \A i, j \in 1 .. Cardinality(L) : i < j => <<s[i], s[j]>> \in R
    BY <1>9
  <2>2. DOMAIN s = 1 .. Cardinality(L) /\ \A i \in DOMAIN s : s[i] \in L
    BY <2>1
  <2>3. \A i, j \in DOMAIN s : i < j => Before(doc, s[i], s[j])
    <3>. HIDE DEF L
    <3>. QED
      BY <1>4, <2>1, <2>2
  <2>. QED
    BY <2>3
<1>11. LeavesInOrder(doc) = CHOOSE s \in [1 .. Cardinality(L) -> L] :
                                \A i, j \in DOMAIN s : i < j => Before(doc, s[i], s[j])
  BY DEF LeavesInOrder
<1>12. LeavesInOrder(doc) \in [1 .. Cardinality(L) -> L]
  <2>. HIDE DEF L
  <2>. QED
    BY Zenon, <1>10, <1>11
<1>. QED
  BY <1>8, <1>12, FS_CardinalityType

-----------------------------------------------------------------------------
(* The retrieval of a benchmark run: the inputs are the leaves of the       *)
(* document, each stored as one unchanged chunk while questions are asked,  *)
(* and the last result is the one these leaves give.                        *)

IsRanked == IsLight /\ setup.corpus = "benchmark"

Listed ==
    setup.corpus = "benchmark" => inputs = <<>> \/ inputs = LeavesInOrder(setup.doc)

Exact == IsRanked /\ Indexed => \A i \in DOMAIN inputs : store[i] = "exact"

Scored ==
    scored.status = "observed" =>
        /\ pc = "case" /\ IsRanked
        /\ scored.found \subseteq DOMAIN inputs
        /\ scored.hit <=> \E path \in EvidencePaths(setup.doc, setup.gold) :
                              path \subseteq {inputs[i] : i \in scored.found}

Ranked == Listed /\ Exact /\ Scored

\* The setups of the theorem: what the contract of a benchmark is built from.
Benchmarked ==
    \A s \in Setups : s.corpus = "benchmark" => IsDocument(s.doc) /\ IsWitnessed(s.doc, s.gold)

\* Every input of a benchmark is a leaf of its document.
LEMMA ListedAreLeaves ==
    ASSUME Benchmarked, Stocked, Listed, setup.corpus = "benchmark"
    PROVE  /\ DOMAIN inputs = 1 .. Len(inputs)
           /\ \A i \in DOMAIN inputs : inputs[i] \in Leaves(setup.doc)
<1>1. CASE inputs = <<>>
  BY <1>1
<1>2. CASE inputs = LeavesInOrder(setup.doc)
  <2>1. IsDocument(setup.doc) /\ ~ SegmentsFail(setup.doc)
    <3>1. setup \in Setups
      BY DEF Stocked
    <3>. QED
      BY <3>1, SetupsAreBuilt DEF Benchmarked, ContractFails
  <2>2. PICK n \in Nat : inputs \in [1 .. n -> Leaves(setup.doc)]
    BY <1>2, <2>1, InputsAreLeaves
  <2>. QED
    BY <2>2
<1>. QED
  BY <1>1, <1>2 DEF Listed

\* An index is accepted only when every input is a chunk of the server.
LEMMA AcceptedIsExact ==
    ASSUME NEW n, Accepted(n), NEW i \in 1 .. n
    PROVE  store[i] = "exact"
<1>1. Cardinality(Chunks(i)) = 1 /\ \A c \in Chunks(i) : c.same /\ c.whole
  BY DEF Accepted
<1>2. Chunks(i) # {}
  BY <1>1, FS_EmptySet
<1>3. store[i] # "altered"
  <2>1. SUFFICES ASSUME store[i] = "altered" PROVE FALSE
    OBVIOUS
  <2>2. Chunks(i) = {[input |-> i, n |-> 1, same |-> FALSE, whole |-> TRUE]}
    BY <2>1 DEF Chunks
  <2>. QED
    BY <1>1, <2>2
<1>4. store[i] # "unspanned"
  <2>1. SUFFICES ASSUME store[i] = "unspanned" PROVE FALSE
    OBVIOUS
  <2>2. Chunks(i) = {[input |-> i, n |-> 1, same |-> TRUE, whole |-> FALSE]}
    BY <2>1 DEF Chunks
  <2>. QED
    BY <1>1, <2>2
<1>5. store[i] # "split"
  <2>1. SUFFICES ASSUME store[i] = "split" PROVE FALSE
    OBVIOUS
  <2>2. [input |-> i, n |-> 1, same |-> FALSE, whole |-> FALSE] \in Chunks(i)
    BY <2>1 DEF Chunks
  <2>. QED
    BY <1>1, <2>2
<1>. QED
  BY <1>2, <1>3, <1>4, <1>5 DEF Chunks

\* Only an accepted index is asked, and no step takes a chunk from it.
LEMMA ListedKeeps ==
    ASSUME IInv, Stocked, Stands, Listed, Exact, Benchmarked, [Next]_vars
    PROVE  Listed' /\ Exact'
<1>1. CASE Calm
  BY <1>1 DEF Calm, Listed, Exact, IsRanked, IsLight
<1>2. CASE StartWorker
  <2>1. UNCHANGED <<setup, inputs>> /\ pc' \in {"start", "ended"}
    BY <1>2 DEF StartWorker, End, sessionVars
  <2>. QED
    BY <2>1 DEF Listed, Exact, Indexed
<1>3. CASE Handshake
  <2>1. /\ UNCHANGED setup /\ pc' \in {"stop", "prepare"}
        /\ UNCHANGED inputs \/ inputs' = InputsOf(setup)
    BY <1>3 DEF Handshake
  <2>2. setup.corpus = "benchmark" => InputsOf(setup) = LeavesInOrder(setup.doc)
    BY DEF InputsOf
  <2>. QED
    BY <2>1, <2>2 DEF Listed, Exact, Indexed
<1>4. CASE TimesOut
  <2>1. UNCHANGED <<setup, inputs, store>>
    BY <1>4 DEF TimesOut, lightVars
  <2>2. Indexed' => Indexed
    BY <1>4 DEF TimesOut, Failed, Result, Raise, Indexed
  <2>. QED
    BY <2>1, <2>2 DEF Listed, Exact, IsRanked, IsLight
<1>5. CASE LightIngest
  <2>1. UNCHANGED <<setup, inputs, pc>>
    BY <1>5 DEF LightIngest, sessionVars
  <2>2. ASSUME IsRanked, Indexed PROVE FALSE
    <3>1. ~ Ingesting
      BY <2>2 DEF Stands, Past, StopIsSet, Indexed, Ingesting, Serving
    <3>2. PICK i \in DOMAIN store : Process(i)
      BY <1>5, <3>1 DEF LightIngest
    <3>3. DOMAIN store = DOMAIN inputs
      BY DEF Stocked
    <3>. QED
      BY <2>2, <3>2, <3>3 DEF Exact, Process
  <2>. QED
    BY <2>1, <2>2 DEF Listed, Exact, IsRanked, IsLight, Indexed
<1>6. CASE Ingested
  <2>1. UNCHANGED <<setup, inputs, store>>
    BY <1>6 DEF Ingested, lightVars
  <2>2. CASE UNCHANGED pc \/ pc' = "stop"
    BY <2>1, <2>2 DEF Listed, Exact, IsRanked, IsLight, Indexed
  <2>3. CASE pc = "ingest"
    <3>1. ASSUME IsRanked, NEW i \in DOMAIN inputs PROVE store[i] = "exact"
      <4>1. Accepted(Len(inputs))
        BY <1>6, <3>1 DEF Ingested, IsRanked
      <4>2. i \in 1 .. Len(inputs)
        BY <3>1, ListedAreLeaves DEF IsRanked
      <4>. QED
        BY <4>1, <4>2, AcceptedIsExact
    <3>. QED
      BY <2>1, <3>1 DEF Listed, Exact, IsRanked, IsLight
  <2>4. UNCHANGED pc \/ pc = "ingest"
    BY <1>6 DEF Ingested, Answer, sessionVars
  <2>. QED
    BY <2>2, <2>3, <2>4
<1>. QED
  BY <1>1, <1>2, <1>3, <1>4, <1>5, <1>6, LoopIsCalm, OthersAreCalm DEF Next, Executor, Worker, Ended

\* What is observed was found among the inputs.
LEMMA ObservationIs ==
    ASSUME NEW reply, Observation(reply).status = "observed"
    PROVE  Observation(reply).found \subseteq DOMAIN inputs
<1>1. Observation(reply) = [status |-> "observed", found |-> {reply[i].chunk : i \in DOMAIN reply}]
  BY DEF Observation
<1>2. \A i \in DOMAIN reply : reply[i].chunk \in DOMAIN inputs
  BY DEF Observation
<1>. QED
  BY <1>1, <1>2

\* A result is scored as its question is answered, and no other step touches
\* it until the next question.
LEMMA ScoredKeeps ==
    ASSUME Scored, [Next]_vars
    PROVE  Scored'
<1>1. CASE NextCase
  BY <1>1 DEF NextCase, NoResult, Scored
<1>2. CASE QueryAnswered
  <2>1. PICK o \in Observed : Result(o.status, o.found, Hit(o))
    BY <1>2 DEF QueryAnswered
  <2>2. UNCHANGED <<setup, inputs>>
    BY <1>2 DEF QueryAnswered
  <2>3. scored' = [status |-> o.status, found |-> o.found, hit |-> Hit(o)]
        /\ pc' = IF o.status = "cancelled" THEN "stop" ELSE "case"
    BY <2>1 DEF Result
  <2>. SUFFICES ASSUME o.status = "observed" PROVE Scored'
    BY <2>3 DEF Scored
  <2>4. IsRanked /\ o.found \subseteq DOMAIN inputs
    <3>1. IsRanked
      BY DEF Observed, IsRanked
    <3>2. PICK reply \in Replies : o = Observation(reply)
      BY <3>1 DEF Observed, IsRanked
    <3>. QED
      BY <3>1, <3>2, ObservationIs
  <2>5. Hit(o) <=> \E path \in EvidencePaths(setup.doc, setup.gold) :
                       path \subseteq {inputs[i] : i \in o.found}
    BY DEF Hit
  <2>. QED
    BY <2>2, <2>3, <2>4, <2>5 DEF Scored, IsRanked, IsLight
<1>3. CASE QueryFails \/ ((TimesOut \/ Broken) /\ pc = "query")
  <2>1. PICK status \in {"system_error", "timeout", "cancelled"} : Result(status, {}, FALSE)
    BY <1>3 DEF QueryFails, TimesOut, Broken, Failed
  <2>. QED
    BY <2>1 DEF Result, Scored
<1>4. ASSUME UNCHANGED scored, pc = "case" => UNCHANGED <<pc, setup, inputs>>
      PROVE  Scored'
  BY <1>4 DEF Scored, IsRanked, IsLight
<1>5. CASE LoopTop \/ StartWorker \/ WorkerUp \/ HandshakeTimesOut \/ SendQuery
  BY <1>4, <1>5 DEF LoopTop, StartWorker, WorkerUp, HandshakeTimesOut, SendQuery, End, GoTo, Raise, sessionVars
<1>6. CASE Handshake
  BY <1>4, <1>6 DEF Handshake
<1>7. CASE (TimesOut \/ Broken) /\ pc # "query"
  BY <1>4, <1>7 DEF TimesOut, Broken, Raise
<1>8. CASE Stop \/ CloseAdapter \/ CloseFails \/ SnapshotTree \/ EndWorker \/ Join
  BY <1>4, <1>8 DEF Stop, CloseAdapter, CloseFails, SnapshotTree, EndWorker, Join, GoTo, End
<1>9. CASE Prepared \/ PrepareFails \/ Ingested \/ IngestFails
  BY <1>4, <1>9 DEF Prepared, PrepareFails, Ingested, IngestFails, Answer, Raise, sessionVars
<1>10. CASE \/ Watcher \/ StartServer \/ LightIngest \/ RagIngest \/ Parser \/ LateQueryEnds \/ Cancel
            \/ WorkerCrashes \/ ServerCrashes \/ UNCHANGED vars
  BY <1>4, <1>10 DEF Watcher, WatcherSees, WatcherQuits, WatcherTakes, WatcherKills, WatcherRemoves,
                     WatcherRecords, StartServer, LightIngest, RagIngest, Parser, LateQueryEnds, Cancel,
                     WorkerCrashes, ServerCrashes, vars, sessionVars
<1>. QED
  BY <1>1, <1>2, <1>3, <1>5, <1>6, <1>7, <1>8, <1>9, <1>10 DEF Next, Executor, Worker, Ended

(* The retrieval of a benchmark run stays as the inputs and the acceptance  *)
(* made it (materialize_benchmark_segment_documents,                        *)
(* _build_benchmark_segment_mapping).                                       *)
THEOREM RankedInductive == ASSUME Benchmarked PROVE Spec => []Ranked
<1>1. Init => Ranked
  BY DEF Init, Ranked, Listed, Exact, Scored, NoResult, Indexed
<1>2. IInv /\ (Stocked /\ Stands) /\ Ranked /\ [Next]_vars => Ranked'
  BY ListedKeeps, ScoredKeeps DEF Ranked
<1>. QED
  BY <1>1, <1>2, Inductive, IndexInductive, PTL DEF Spec

(* ScoredHitsAreReal: for every set of runs whose documents have ids and    *)
(* cells of their own and whose witnesses lie in the text they are of, the  *)
(* hit a question's result counts (evaluate_segment_retrieval) is real: it  *)
(* says that the texts the server returned show, of the document itself,    *)
(* evidence that answers the question, and no hit says that they do not.    *)
THEOREM ScoredHitsAreReal ==
    ASSUME Benchmarked
    PROVE  Spec => []ScoredHitIsReal
<1>1. Stocked /\ Ranked => ScoredHitIsReal
  <2>. SUFFICES ASSUME Stocked, Ranked, scored.status = "observed"
                PROVE  scored.hit <=> ~ setup.gold.abstain /\ ShowsGold(setup.doc, setup.gold, Returned)
    BY DEF ScoredHitIsReal
  <2>1. /\ IsRanked /\ Indexed /\ scored.found \subseteq DOMAIN inputs
        /\ scored.hit <=> \E path \in EvidencePaths(setup.doc, setup.gold) :
                              path \subseteq {inputs[i] : i \in scored.found}
    BY DEF Ranked, Scored, Indexed
  <2>2. Returned = {inputs[i] : i \in scored.found}
    BY <2>1 DEF Returned, Ranked, Exact
  <2>3. Returned \in SUBSET Leaves(setup.doc)
    BY <2>1, <2>2, ListedAreLeaves DEF IsRanked, Ranked
  <2>4. /\ IsDocument(setup.doc) /\ IsWitnessed(setup.doc, setup.gold)
        /\ ~ ContractFails(setup.doc, setup.gold)
    <3>1. setup \in Setups /\ setup.corpus = "benchmark"
      BY <2>1 DEF Stocked, IsRanked
    <3>. QED
      BY <3>1, SetupsAreBuilt DEF Benchmarked
  <2>5. (\E path \in EvidencePaths(setup.doc, setup.gold) : path \subseteq Returned)
        <=> ~ setup.gold.abstain /\ ShowsGold(setup.doc, setup.gold, Returned)
    BY <2>3, <2>4, PathIsShown
  <2>. QED
    BY <2>1, <2>2, <2>5
<1>. QED
  BY <1>1, IndexInductive, RankedInductive, PTL
=============================================================================
