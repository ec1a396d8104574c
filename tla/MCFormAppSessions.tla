-------------------------- MODULE MCFormAppSessions --------------------------
(* TLC instances of FormAppSessions.  The app has up to three steps: a     *)
(* registration, a check filed once per record and window, and a visit     *)
(* that a record may have twice.                                           *)
EXTENDS FormAppSessions, TLC

CONSTANTS r1, r2, s1, s2, p1, p2, pupil, term, reg, check,
          visit, filled, blank

MCScope == [k \in Steps |-> IF k = check THEN "SUBJECT_PERIOD" ELSE "SUBJECT"]
MCMin == [k \in Steps |-> IF k = visit THEN 1 ELSE 0]
MCMax == [k \in Steps |-> IF k = visit THEN 2 ELSE 1]

\* No session yet, nothing staged; or two coordinators who each opened one about a pupil.
NoDrafts == [s \in Sessions |-> None]
TwoDrafts ==
    [s \in Sessions |->
        [status |-> "DRAFT", who |-> IF s = s1 THEN p1 ELSE p2, about |-> pupil,
         mode |-> "FOLLOW_UP", period |-> term, asked |-> Steps, judged |-> {}]]

NothingStaged == {[e \in EntryIds |-> None]}

\* Each may have staged the check and up to two visits, s2 only one.
Row(s, k, i) == [session |-> s, step |-> k, index |-> i, answer |-> filled,
                 filedBy |-> None]
Prepared == << Row(s1, check, 0), Row(s2, check, 0), Row(s1, visit, 0),
               Row(s2, visit, 0), Row(s1, visit, 1) >>
SomeStaged ==
    {[e \in EntryIds |-> IF e \in present THEN Prepared[e] ELSE None] :
        present \in {p \in SUBSET EntryIds : 5 \in p => 3 \in p}}

\* Requests, sessions and respondents are interchangeable.
MCSymmetry == Permutations(Requests) \cup Permutations(Sessions)
                \cup Permutations(Respondents)
RequestSymmetry == Permutations(Requests)
=============================================================================
