-------------------------- MODULE MCSemanticReview --------------------------
(* Small instances of SemanticReview for TLC. *)
EXTENDS SemanticReview

CONSTANTS c1, c2, h1, h2, a1

TwoCases == {c1, c2}
OneCase  == {c1}
OneHuman == {h1}
OneAsker == {a1}
Nobody   == {}
=============================================================================
