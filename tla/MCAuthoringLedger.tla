------------------------- MODULE MCAuthoringLedger --------------------------
(* Small instances of AuthoringLedger for TLC. *)
EXTENDS AuthoringLedger, TLC

CONSTANTS q1, q2, a1, a2, author, r1

TwoQuestions == {q1, q2}
OneAnswer    == {a1}
AnyName      == {r1, author}
OneReviewer  == {r1}
LegacyStates == {"review_required", "approved"}
Texts        == Permutations(Questions) \cup Permutations(Answers)
=============================================================================
