----------------------------- MODULE WorkerHandle -----------------------------
(***************************************************************************)
(* The executor's hold on one worker: the processes below it, the client   *)
(* that talks to it, and the ways to end it (worker/process.py,            *)
(* execution_provider.py).                                                 *)
(*                                                                         *)
(* Locally the worker leads a process group that its managed server joins; *)
(* a document parser runs in a group of its own.  In Docker everything     *)
(* lives in one container.  SIGKILL and docker rm are taken to take effect *)
(* within the grace period.                                                *)
(***************************************************************************)
EXTENDS Naturals, FiniteSets

VARIABLES
    procs,   \* the live processes: "worker", "server", "parser"
    aimed,   \* the processes whose groups the terminating thread will signal
    tracked, \* WorkerProcess.process is set
    client,  \* the HTTP client: "none", "open" or "closed"
    lock,    \* who holds WorkerProcess._lock: "none", "main" or "watcher"
    name     \* what holds the container's name: "none", "ours" or "foreign"

handleVars == <<procs, aimed, tracked, client, lock, name>>

OwnGroup == {"worker", "server"}
Alive == "worker" \in procs

\* Popen, or docker run: a stale container is removed only on the proof of
\* its labels, a foreign one makes the launch fail.
Launch ==
    /\ procs' = procs \cup {"worker"}
    /\ tracked' = TRUE /\ client' = "open"
    /\ aimed' = {} /\ name' = IF name = "foreign" THEN name ELSE "none"
    /\ UNCHANGED lock

\* snapshot_process_tree: a parser is found only through a living worker.
Targets ==
    OwnGroup \cup (IF Alive THEN procs ELSE {})

\* A live process of the worker's group brings the whole group down.
Snapshot ==
    /\ aimed' = Targets
    /\ UNCHANGED <<procs, tracked, client, lock, name>>

(* Mutated form: the worker's process is signalled, not its group.          *)
KillLeader(who) ==
    /\ procs' = procs \ (aimed \ {"server"})
    /\ client' = "closed" /\ tracked' = FALSE /\ aimed' = {}
    /\ lock = who /\ lock' = "none"
    /\ UNCHANGED name

\* terminate_process_group has returned; the client is closed, the handle
\* cleared.
Kill(who) ==
    /\ procs' = procs \ aimed
    /\ client' = "closed" /\ tracked' = FALSE /\ aimed' = {}
    /\ lock = who /\ lock' = "none"
    /\ UNCHANGED name

\* docker rm --force.
RemoveContainer ==
    /\ procs' = {}
    /\ UNCHANGED <<aimed, tracked, lock, name>>

\* The worker crashes: its container ends with it, local children live on.
Crash(local) ==
    /\ Alive
    /\ procs' = IF local THEN procs \ {"worker"} ELSE {}
    /\ UNCHANGED <<aimed, tracked, client, lock, name>>

Spawn(child) ==
    /\ Alive /\ child \notin procs
    /\ procs' = procs \cup {child}
    /\ UNCHANGED <<aimed, tracked, client, lock, name>>

ChildEnds(child) ==
    /\ child \in procs
    /\ procs' = procs \ {child}
    /\ UNCHANGED <<aimed, tracked, client, lock, name>>
=============================================================================
