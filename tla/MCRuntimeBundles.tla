-------------------------- MODULE MCRuntimeBundles --------------------------
(* Small instances of RuntimeBundles for TLC. *)
EXTENDS RuntimeBundles, TLC

CONSTANTS c1, c2, v1, v2, s1, s2, t1

TwoCases == {c1, c2}
TwoVersions == {v1, v2}
TwoSlots == {s1, s2}
OneThread == {t1}
Names == Permutations(Cases) \cup Permutations(Versions) \cup Permutations(Slots)
         \cup Permutations(Threads)
=============================================================================
