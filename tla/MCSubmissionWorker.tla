------------------------- MODULE MCSubmissionWorker -------------------------
EXTENDS SubmissionWorker, TLC

CONSTANTS s1, s2, h1, w1, w2

\* Two registrations of one record, the second filed by a report.
BothRegister == s1 :> "r1" @@ s2 :> "r1"

\* One registration; the report is about a record that exists.
OneRegisters == s1 :> "r1" @@ s2 :> NoIdentity

Slots == Permutations(Workers)
=============================================================================
