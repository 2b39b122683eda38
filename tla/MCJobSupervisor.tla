--------------------------- MODULE MCJobSupervisor ---------------------------
(* Small instances of JobSupervisor for TLC. *)
EXTENDS JobSupervisor

CONSTANTS j1, j2

TwoJobs == {j1, j2}
FirstIsLocal == {j1}
=============================================================================
