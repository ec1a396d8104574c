------------------------- MODULE MCSubmissionIngest -------------------------
(* TLC instances of SubmissionIngest: two anonymous requests of one        *)
(* respondent beside a signed-in request of another.                       *)
EXTENDS SubmissionIngest

CONSTANTS r1, r2, r3, anna, bert

MCRespondentOf == [r \in Requests |-> IF r = r3 THEN bert ELSE anna]
=============================================================================
