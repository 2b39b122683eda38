---------------------------- MODULE JobLifecycle ----------------------------
(***************************************************************************)
(* What the platform promises about an evaluation job, whatever happens    *)
(* inside it: a submitted job is started only while no other job is        *)
(* active, an accepted cancellation excludes completion, and a settled job *)
(* never changes again.  The detailed module JobSupervisor implements this *)
(* specification.                                                          *)
(***************************************************************************)
CONSTANT Jobs

VARIABLE status          \* status[j]: what GET /jobs/{id} would report

ActiveStatus  == {"running", "cancelling"}
Init == status = [j \in Jobs |-> "absent"]

Move(j, from, to) ==
    /\ status[j] \in from
    /\ status' = [status EXCEPT ![j] = to]

Submit(j)    == Move(j, {"absent"}, "queued")
Withdraw(j)  == Move(j, {"queued"}, "cancelled")
Start(j)     == /\ \A k \in Jobs : status[k] \notin ActiveStatus
                /\ Move(j, {"queued"}, "running")
AskToStop(j) == Move(j, {"running"}, "cancelling")
Complete(j)  == Move(j, {"running"}, "completed")
Abandon(j)   == \/ Move(j, {"cancelling"}, "cancelled")
                \/ Move(j, ActiveStatus, "failed")
                \/ Move(j, ActiveStatus, "interrupted")

Settle(j) == Complete(j) \/ Abandon(j)

Next == \E j \in Jobs : \/ Submit(j) \/ Withdraw(j) \/ Start(j)
                        \/ AskToStop(j) \/ Settle(j)

Spec == Init /\ [][Next]_status
=============================================================================
