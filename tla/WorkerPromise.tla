---------------------------- MODULE WorkerPromise ----------------------------
(***************************************************************************)
(* What a run asks of its workers, whatever adapter and provider it uses:  *)
(* one worker at a time, a fresh one for every round; a round's questions  *)
(* are asked in their order and only of an accepted index; the run counts  *)
(* as completed only when every question of every round was asked.         *)
(***************************************************************************)
EXTENDS Naturals, FiniteSets

CONSTANTS Reps, Cases

VARIABLES round, alive, indexed, asked, completed

promiseVars == <<round, alive, indexed, asked, completed>>

Init ==
    /\ round = 1 /\ alive = FALSE /\ indexed = FALSE
    /\ asked = {} /\ completed = FALSE

Start ==
    /\ ~ alive /\ ~ indexed
    /\ alive' = TRUE
    /\ UNCHANGED <<round, indexed, asked, completed>>

NextRound ==
    /\ ~ alive /\ ~ indexed /\ round < Reps /\ <<round, Cases>> \in asked
    /\ round' = round + 1
    /\ UNCHANGED <<alive, indexed, asked, completed>>

Accept ==
    /\ ~ indexed
    /\ indexed' = TRUE
    /\ UNCHANGED <<round, alive, asked, completed>>

Ask(c) ==
    /\ indexed
    /\ <<round, c>> \notin asked
    /\ \A d \in 1 .. (c - 1) : <<round, d>> \in asked
    /\ asked' = asked \cup {<<round, c>>}
    /\ indexed' \in BOOLEAN
    /\ UNCHANGED <<round, alive, completed>>

Gone ==
    /\ alive' \in {alive, FALSE} /\ indexed' = FALSE
    /\ UNCHANGED <<round, asked, completed>>

Dies ==
    /\ alive' = FALSE
    /\ UNCHANGED <<round, indexed, asked, completed>>

Complete ==
    /\ ~ completed /\ ~ alive
    /\ asked = (1 .. Reps) \X (1 .. Cases)
    /\ completed' = TRUE
    /\ UNCHANGED <<round, alive, indexed, asked>>

Next == Start \/ NextRound \/ Accept \/ (\E c \in 1 .. Cases : Ask(c)) \/ Gone \/ Dies \/ Complete

Spec == Init /\ [][Next]_promiseVars
=============================================================================
