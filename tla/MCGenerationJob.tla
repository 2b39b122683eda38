-------------------------- MODULE MCGenerationJob --------------------------
(* Small instances of GenerationJob for TLC. *)
EXTENDS GenerationJob

CONSTANTS j1, j2

OneJob  == {j1}
TwoJobs == {j1, j2}
=============================================================================
