---------------------- MODULE SubmissionIngestProofs ----------------------
(* Proofs about SubmissionIngest, for every number of requests, every cap  *)
(* and quota, and every combination of environment events.                 *)
EXTENDS SubmissionIngest, FiniteSetTheorems, TLAPS

\* What a request holds and has achieved at each point of submitForm, as long
\* as Redis failed nothing: the strengthening of SlotsFollowOutcome.
Unclaimed == {"start", "load", "fill", "checks", "dedupe", "month"}
NoFormSlot == {"monthOver", "cap", "close", "drop", "giveBack"}
InCap == {"count", "seed", "over"}
Admitted == {"enqueue", "unwind", "accepted"}

\* The monthly slot is given back, to its own month or to a later one.
Returned(r) == monthSlot[r] # 0 => monthSlot[r] < gaveBack[r]

RequestSlots(r) ==
    /\ monthSlot[r] <= month
    /\ pc[r] \notin {"rejected", "unwindForm", "crashed"} => gaveBack[r] = 0
    /\ pc[r] \in Unclaimed => monthSlot[r] = 0 /\ ~formSlot[r]
    /\ pc[r] = "rejected" => Returned(r) /\ ~formSlot[r]
    /\ pc[r] \in NoFormSlot => monthSlot[r] # 0 /\ ~formSlot[r]
    /\ pc[r] \in InCap => monthSlot[r] # 0 /\ formSlot[r] /\ FormCap > 0
    /\ pc[r] \in Admitted => monthSlot[r] # 0 /\ (formSlot[r] <=> FormCap > 0)
    /\ pc[r] = "unwindForm" => Returned(r) /\ formSlot[r] /\ FormCap > 0

SlotsInv == Never({"store_error"}) => \A r \in Requests : RequestSlots(r)

\* A submission exists exactly for the requests that were told so.
RowInv == \A r \in Requests : pc[r] = "accepted" <=> row[r] # "none"

Claiming == Running \cup {"accepted"}
MonthGranted(m) ==
    {r \in MonthHolders(m) : pc[r] \notin {"monthOver", "crashed"}}

\* The month's counter is exact, and the slots granted fit in the quota, both
\* up to the refusals of earlier months that were charged to this one.
MonthOK(m) ==
    /\ monthUsed[m] = Cardinality(MonthHolders(m)) - Cardinality(Misplaced(m))
    /\ Cardinality(MonthGranted(m)) <= MonthlyMax + Cardinality(Misplaced(m))

MonthInv ==
    Never({"store_error"}) => \A m \in MonthIds : MonthOK(m)

FormGranted ==
    {r \in FormHolders : pc[r] \in Admitted \cup {"unwindForm"}}
FormFaults == {"store_error", "counter_expired", "seed_interrupted"}

\* Outside a seeding window the form counter is the rows the form already had
\* plus the slots held; inside one, its only holder is the seeder.
FormCount ==
    Seeders = {} => \/ formUsed = Cardinality(FormHolders) + PriorRows
                    \/ formUsed = 0 /\ FormHolders = {}
FormSeeding ==
    \A r \in Seeders : /\ formUsed = 1
                       /\ FormHolders = {r}
                       /\ pc[r] = "seed" => seen[r] = PriorRows
FormRoom ==
    FormGranted = {} \/ PriorRows + Cardinality(FormGranted) <= FormCap

FormInv ==
    FormCap > 0 /\ Never(FormFaults) => FormCount /\ FormSeeding /\ FormRoom

\* An anonymous request past the duplicate check owns its respondent's marker.
PastDedupe(r) ==
    /\ r \notin SignedIn
    /\ pc[r] \in Running \cup {"accepted"}
    /\ pc[r] \notin Unclaimed \ {"month"}

DedupeInv ==
    ~AllowMultiple /\ Never({"store_error"})
    => /\ \A r \in Requests : PastDedupe(r) => RespondentOf[r] \in markers
       /\ \A q, r \in Requests :
             /\ PastDedupe(q) /\ PastDedupe(r)
             /\ RespondentOf[q] = RespondentOf[r]
             => q = r

-----------------------------------------------------------------------------
\* The number of stored rows is a natural number.
LEMMA StoredCountType ==
    ASSUME NEW S \in SUBSET Requests
    PROVE  IsFiniteSet(S) /\ Cardinality(S) \in Nat
BY IngestAssumption, FS_Subset, FS_CardinalityType

\* The types and the shapes of the variables are kept by every step.
LEMMA TypeStep == TypeOK /\ [Next]_vars => TypeOK'
<1> SUFFICES ASSUME TypeOK, [Next]_vars PROVE TypeOK'
  OBVIOUS
<1> USE IngestAssumption DEF TypeOK, Running, Finished, FaultKinds, MonthIds,
        StoreError, Step, ReleaseMonth
<1>1. ASSUME NEW r \in Requests, ReadCachedPolicy(r) PROVE TypeOK'
  <2>1. pc' \in [Requests -> Running \cup Finished]
    BY <1>1 DEF ReadCachedPolicy
  <2>2. snap' \in [Requests -> Form \cup {NotCached}]
    BY ZenonT(60), <1>1 DEF ReadCachedPolicy
  <2>3. faults' \subseteq FaultKinds
    BY <1>1 DEF ReadCachedPolicy
  <2> QED
    BY <1>1, <2>1, <2>2, <2>3 DEF ReadCachedPolicy, locals, monthVars, formVars, policyVars
<1>2. ASSUME NEW r \in Requests, LoadPolicy(r) PROVE TypeOK'
  BY <1>2 DEF LoadPolicy, locals, monthVars, formVars, policyVars
<1>3. ASSUME NEW r \in Requests, FillPolicy(r) PROVE TypeOK'
  BY <1>3 DEF FillPolicy, locals, monthVars, formVars, policyVars
<1>4. ASSUME NEW r \in Requests, Refuse(r) PROVE TypeOK'
  BY <1>4 DEF Refuse, locals, monthVars, formVars, policyVars
<1>5. ASSUME NEW r \in Requests, PassChecks(r) PROVE TypeOK'
  BY <1>5 DEF PassChecks, locals, monthVars, formVars, policyVars
<1>6. ASSUME NEW r \in Requests, DedupeSignedIn(r) PROVE TypeOK'
  BY <1>6 DEF DedupeSignedIn, locals, monthVars, formVars, policyVars
<1>7. ASSUME NEW r \in Requests, DedupeAnonymous(r) PROVE TypeOK'
  <2>1. pc' \in [Requests -> Running \cup Finished]
    BY ZenonT(60), <1>7 DEF DedupeAnonymous
  <2>2. markers' \subseteq Respondents
    BY <1>7 DEF DedupeAnonymous
  <2>3. faults' \subseteq FaultKinds
    BY <1>7 DEF DedupeAnonymous
  <2> QED
    BY <1>7, <2>1, <2>2, <2>3 DEF DedupeAnonymous, locals, monthVars, formVars, policyVars
<1>8. ASSUME NEW r \in Requests, ClaimMonth(r) PROVE TypeOK'
  <2>1. pc' \in [Requests -> Running \cup Finished]
    BY ZenonT(60), <1>8 DEF ClaimMonth
  <2>2. monthUsed' \in [MonthIds -> Int]
    BY <1>8 DEF ClaimMonth
  <2>3. monthSlot' \in [Requests -> MonthIds \cup {0}]
    BY ZenonT(60), <1>8 DEF ClaimMonth
  <2>4. faults' \subseteq FaultKinds
    BY <1>8 DEF ClaimMonth
  <2> QED
    BY <1>8, <2>1, <2>2, <2>3, <2>4 DEF ClaimMonth, locals, monthVars, formVars,
       policyVars
<1>9. ASSUME NEW r \in Requests, RefuseMonth(r) PROVE TypeOK'
  <2>1. pc' \in [Requests -> Running \cup Finished]
    BY ZenonT(60), <1>9 DEF RefuseMonth
  <2>2. monthUsed' \in [MonthIds -> Int]
    BY <1>9 DEF RefuseMonth
  <2>3. monthSlot' \in [Requests -> MonthIds \cup {0}]
    BY <1>9 DEF RefuseMonth
  <2>4. faults' \subseteq FaultKinds
    BY <1>9 DEF RefuseMonth
  <2> QED
    BY <1>9, <2>1, <2>2, <2>3, <2>4 DEF RefuseMonth, locals, monthVars, formVars,
       policyVars
<1>10. ASSUME NEW r \in Requests, ClaimForm(r) PROVE TypeOK'
  <2>1. pc' \in [Requests -> Running \cup Finished]
    BY ZenonT(60), <1>10 DEF ClaimForm
  <2>2. formUsed' \in Int
    BY <1>10 DEF ClaimForm
  <2>3. formSlot' \in [Requests -> BOOLEAN]
    BY <1>10 DEF ClaimForm
  <2>4. faults' \subseteq FaultKinds
    BY <1>10 DEF ClaimForm
  <2> QED
    BY <1>10, <2>1, <2>2, <2>3, <2>4 DEF ClaimForm, locals, monthVars, formVars,
       policyVars
<1>11. ASSUME NEW r \in Requests, CountStored(r) PROVE TypeOK'
  <2>1. pc' \in [Requests -> Running \cup Finished]
    BY <1>11 DEF CountStored
  <2>2. StoredCount \in Nat
    <3> DEFINE stored == {q \in Requests : row[q] = "SUBMITTED"}
    <3>1. Cardinality(stored) \in Nat
      BY StoredCountType
    <3> QED
      BY <3>1 DEF StoredCount
  <2>3. seen' \in [Requests -> Nat]
    BY ZenonT(60), <1>11, <2>2 DEF CountStored
  <2>4. faults' \subseteq FaultKinds
    BY <1>11 DEF CountStored
  <2> QED
    BY <1>11, <2>1, <2>3, <2>4 DEF CountStored, locals, monthVars, formVars,
       policyVars
<1>12. ASSUME NEW r \in Requests, SeedCounter(r) PROVE TypeOK'
  <2>1. pc' \in [Requests -> Running \cup Finished]
    BY ZenonT(60), <1>12 DEF SeedCounter
  <2>2. formUsed' \in Int
    BY <1>12 DEF SeedCounter
  <2>3. faults' \subseteq FaultKinds
    BY <1>12 DEF SeedCounter
  <2> QED
    BY <1>12, <2>1, <2>2, <2>3 DEF SeedCounter, locals, monthVars, formVars, policyVars
<1>13. ASSUME NEW r \in Requests, RefuseForm(r) PROVE TypeOK'
  <2>1. pc' \in [Requests -> Running \cup Finished]
    BY ZenonT(60), <1>13 DEF RefuseForm
  <2>2. formUsed' \in Int
    BY <1>13 DEF RefuseForm
  <2>3. formSlot' \in [Requests -> BOOLEAN]
    BY <1>13 DEF RefuseForm
  <2>4. faults' \subseteq FaultKinds
    BY <1>13 DEF RefuseForm
  <2> QED
    BY <1>13, <2>1, <2>2, <2>3, <2>4 DEF RefuseForm, locals, monthVars, formVars,
       policyVars
<1>14. ASSUME NEW r \in Requests, CloseForm(r) PROVE TypeOK'
  BY <1>14 DEF CloseForm, Form, locals, monthVars, formVars, policyVars
<1>15. ASSUME NEW r \in Requests, DropPolicy(r) PROVE TypeOK'
  BY <1>15 DEF DropPolicy, locals, monthVars, formVars, policyVars
<1>16. ASSUME NEW r \in Requests, GiveBackMonth(r) PROVE TypeOK'
  <2>1. pc' \in [Requests -> Running \cup Finished]
    BY <1>16 DEF GiveBackMonth, monthVars
  <2>2. monthUsed' \in [MonthIds -> Int]
    BY <1>16 DEF GiveBackMonth, monthVars
  <2>3. monthSlot' \in [Requests -> MonthIds \cup {0}]
    BY <1>16 DEF GiveBackMonth, monthVars
  <2>4. faults' \subseteq FaultKinds
    BY <1>16 DEF GiveBackMonth, monthVars
  <2>5. gaveBack' \in [Requests -> MonthIds \cup {0}]
    BY <1>16 DEF GiveBackMonth, monthVars
  <2> QED
    BY <1>16, <2>1, <2>2, <2>3, <2>4, <2>5 DEF GiveBackMonth, locals, monthVars, formVars,
       policyVars
<1>17. ASSUME NEW r \in Requests, Enqueue(r) PROVE TypeOK'
  BY <1>17 DEF Enqueue, locals, monthVars, formVars, policyVars
<1>18. ASSUME NEW r \in Requests, EnqueueFails(r) PROVE TypeOK'
  BY <1>18 DEF EnqueueFails, locals, monthVars, formVars, policyVars
<1>19. ASSUME NEW r \in Requests, UnwindMonth(r) PROVE TypeOK'
  <2>1. pc' \in [Requests -> Running \cup Finished]
    BY <1>19 DEF UnwindMonth, monthVars
  <2>2. monthUsed' \in [MonthIds -> Int]
    BY <1>19 DEF UnwindMonth, monthVars
  <2>3. monthSlot' \in [Requests -> MonthIds \cup {0}]
    BY <1>19 DEF UnwindMonth, monthVars
  <2>4. faults' \subseteq FaultKinds
    BY <1>19 DEF UnwindMonth, monthVars
  <2>5. gaveBack' \in [Requests -> MonthIds \cup {0}]
    BY <1>19 DEF UnwindMonth, monthVars
  <2> QED
    BY <1>19, <2>1, <2>2, <2>3, <2>4, <2>5 DEF UnwindMonth, locals, monthVars, formVars,
       policyVars
<1>20. ASSUME NEW r \in Requests, UnwindForm(r) PROVE TypeOK'
  <2>1. pc' \in [Requests -> Running \cup Finished]
    BY <1>20 DEF UnwindForm
  <2>2. formUsed' \in Int
    BY <1>20 DEF UnwindForm
  <2>3. formSlot' \in [Requests -> BOOLEAN]
    BY <1>20 DEF UnwindForm
  <2>4. faults' \subseteq FaultKinds
    BY <1>20 DEF UnwindForm
  <2> QED
    BY <1>20, <2>1, <2>2, <2>3, <2>4 DEF UnwindForm, locals, monthVars, formVars,
       policyVars
<1>21. ASSUME NEW r \in Requests, Persist(r) PROVE TypeOK'
  BY <1>21 DEF Persist, locals, monthVars, formVars, policyVars
<1>22. ASSUME NEW r \in Requests, JobFails(r) PROVE TypeOK'
  BY <1>22 DEF JobFails, locals, monthVars, formVars, policyVars
<1>23. ASSUME NEW r \in Requests, DeleteSubmission(r) PROVE TypeOK'
  BY <1>23 DEF DeleteSubmission, locals, monthVars, formVars, policyVars
<1>24. ASSUME NEW r \in Requests, Crash(r) PROVE TypeOK'
  BY <1>24 DEF Crash, locals, monthVars, formVars, policyVars
<1>25. CASE OwnerEdit
  <2>1. form' \in Form
    BY <1>25 DEF OwnerEdit, Form
  <2> QED
    BY <1>25, <2>1 DEF OwnerEdit, locals, monthVars, formVars, policyVars
<1>26. CASE InvalidateIngestPolicy
  BY <1>26 DEF InvalidateIngestPolicy, locals, monthVars, formVars, policyVars
<1>27. CASE PolicyExpires
  BY <1>27 DEF PolicyExpires, locals, monthVars, formVars, policyVars
<1>28. CASE FormCounterExpires
  BY <1>28 DEF FormCounterExpires, locals, monthVars, formVars, policyVars
<1>29. CASE NextMonth
  BY <1>29 DEF NextMonth, locals, monthVars, formVars, policyVars
<1>30. CASE UNCHANGED vars
  BY <1>30 DEF vars, locals, monthVars, formVars, policyVars
<1> QED
  BY <1>1, <1>2, <1>3, <1>4, <1>5, <1>6, <1>7, <1>8, <1>9, <1>10, <1>11, <1>12, <1>13, <1>14, <1>15, <1>16, <1>17, <1>18, <1>19, <1>20, <1>21, <1>22, <1>23, <1>24, <1>25, <1>26, <1>27, <1>28, <1>29, <1>30 DEF Next, Submit

\* Every variable of the ingest path keeps its shape, whatever the faults.
THEOREM TypeCorrect == Spec => []TypeOK
<1>1. Init => TypeOK
  BY IngestAssumption DEF Init, TypeOK, Form, NotCached, Running, Finished,
     MonthIds
<1> QED
  BY <1>1, TypeStep, PTL DEF Spec
-----------------------------------------------------------------------------
\* The history of faults only grows.
LEMMA FaultsGrow == [Next]_vars => faults \subseteq faults'
<1> SUFFICES ASSUME [Next]_vars PROVE faults \subseteq faults'
  OBVIOUS
<1> USE DEF StoreError, ReleaseMonth
<1>1. ASSUME NEW r \in Requests, ReadCachedPolicy(r) PROVE faults \subseteq faults'
  BY <1>1 DEF ReadCachedPolicy, locals, monthVars, formVars,
     policyVars
<1>2. ASSUME NEW r \in Requests, LoadPolicy(r) PROVE faults \subseteq faults'
  BY <1>2 DEF LoadPolicy, locals, monthVars, formVars, policyVars
<1>3. ASSUME NEW r \in Requests, FillPolicy(r) PROVE faults \subseteq faults'
  BY <1>3 DEF FillPolicy, locals, monthVars, formVars, policyVars
<1>4. ASSUME NEW r \in Requests, Refuse(r) PROVE faults \subseteq faults'
  BY <1>4 DEF Refuse, locals, monthVars, formVars, policyVars
<1>5. ASSUME NEW r \in Requests, PassChecks(r) PROVE faults \subseteq faults'
  BY <1>5 DEF PassChecks, locals, monthVars, formVars, policyVars
<1>6. ASSUME NEW r \in Requests, DedupeSignedIn(r) PROVE faults \subseteq faults'
  BY <1>6 DEF DedupeSignedIn, locals, monthVars, formVars, policyVars
<1>7. ASSUME NEW r \in Requests, DedupeAnonymous(r) PROVE faults \subseteq faults'
  BY <1>7 DEF DedupeAnonymous, locals, monthVars, formVars,
     policyVars
<1>8. ASSUME NEW r \in Requests, ClaimMonth(r) PROVE faults \subseteq faults'
  BY <1>8 DEF ClaimMonth, locals, monthVars, formVars, policyVars
<1>9. ASSUME NEW r \in Requests, RefuseMonth(r) PROVE faults \subseteq faults'
  BY <1>9 DEF RefuseMonth, locals, monthVars, formVars, policyVars
<1>10. ASSUME NEW r \in Requests, ClaimForm(r) PROVE faults \subseteq faults'
  BY <1>10 DEF ClaimForm, locals, monthVars, formVars, policyVars
<1>11. ASSUME NEW r \in Requests, CountStored(r) PROVE faults \subseteq faults'
  BY <1>11 DEF CountStored, locals, monthVars, formVars, policyVars
<1>12. ASSUME NEW r \in Requests, SeedCounter(r) PROVE faults \subseteq faults'
  BY <1>12 DEF SeedCounter, locals, monthVars, formVars, policyVars
<1>13. ASSUME NEW r \in Requests, RefuseForm(r) PROVE faults \subseteq faults'
  BY <1>13 DEF RefuseForm, locals, monthVars, formVars, policyVars
<1>14. ASSUME NEW r \in Requests, CloseForm(r) PROVE faults \subseteq faults'
  BY <1>14 DEF CloseForm, locals, monthVars, formVars, policyVars
<1>15. ASSUME NEW r \in Requests, DropPolicy(r) PROVE faults \subseteq faults'
  BY <1>15 DEF DropPolicy, locals, monthVars, formVars, policyVars
<1>16. ASSUME NEW r \in Requests, GiveBackMonth(r) PROVE faults \subseteq faults'
  BY <1>16 DEF GiveBackMonth, locals, monthVars, formVars, policyVars
<1>17. ASSUME NEW r \in Requests, Enqueue(r) PROVE faults \subseteq faults'
  BY <1>17 DEF Enqueue, locals, monthVars, formVars, policyVars
<1>18. ASSUME NEW r \in Requests, EnqueueFails(r) PROVE faults \subseteq faults'
  BY <1>18 DEF EnqueueFails, locals, monthVars, formVars, policyVars
<1>19. ASSUME NEW r \in Requests, UnwindMonth(r) PROVE faults \subseteq faults'
  BY <1>19 DEF UnwindMonth, locals, monthVars, formVars, policyVars
<1>20. ASSUME NEW r \in Requests, UnwindForm(r) PROVE faults \subseteq faults'
  BY <1>20 DEF UnwindForm, locals, monthVars, formVars, policyVars
<1>21. ASSUME NEW r \in Requests, Persist(r) PROVE faults \subseteq faults'
  BY <1>21 DEF Persist, locals, monthVars, formVars, policyVars
<1>22. ASSUME NEW r \in Requests, JobFails(r) PROVE faults \subseteq faults'
  BY <1>22 DEF JobFails, locals, monthVars, formVars, policyVars
<1>23. ASSUME NEW r \in Requests, DeleteSubmission(r) PROVE faults \subseteq faults'
  BY <1>23 DEF DeleteSubmission, locals, monthVars, formVars,
     policyVars
<1>24. ASSUME NEW r \in Requests, Crash(r) PROVE faults \subseteq faults'
  BY <1>24 DEF Crash, locals, monthVars, formVars, policyVars
<1>25. CASE OwnerEdit
  BY <1>25 DEF OwnerEdit, locals, monthVars, formVars, policyVars
<1>26. CASE InvalidateIngestPolicy
  BY <1>26 DEF InvalidateIngestPolicy, locals, monthVars, formVars,
     policyVars
<1>27. CASE PolicyExpires
  BY <1>27 DEF PolicyExpires, locals, monthVars, formVars, policyVars
<1>28. CASE FormCounterExpires
  BY <1>28 DEF FormCounterExpires, locals, monthVars, formVars,
     policyVars
<1>29. CASE NextMonth
  BY <1>29 DEF NextMonth, locals, monthVars, formVars, policyVars
<1>30. CASE UNCHANGED vars
  BY <1>30 DEF vars, locals, monthVars, formVars, policyVars
<1> QED
  BY <1>1, <1>2, <1>3, <1>4, <1>5, <1>6, <1>7, <1>8, <1>9, <1>10, <1>11, <1>12,
     <1>13, <1>14, <1>15, <1>16, <1>17, <1>18, <1>19, <1>20, <1>21, <1>22,
     <1>23, <1>24, <1>25, <1>26, <1>27, <1>28, <1>29, <1>30 DEF Next, Submit

\* So what has never happened after a step had not happened before it.
LEMMA NeverStep ==
    ASSUME [Next]_vars, NEW kinds, Never(kinds)'
    PROVE  Never(kinds)
BY FaultsGrow DEF Never

\* Only Enqueue makes a submission, and it is what tells the request so.
LEMMA RowStep == TypeOK /\ RowInv /\ [Next]_vars => RowInv'
<1> SUFFICES ASSUME TypeOK, RowInv, [Next]_vars PROVE RowInv'
  OBVIOUS
<1> USE DEF TypeOK, RowInv, Step, ReleaseMonth, Running
<1>1. ASSUME NEW r \in Requests, ReadCachedPolicy(r) PROVE RowInv'
  BY <1>1 DEF ReadCachedPolicy, locals, monthVars, formVars,
     policyVars
<1>2. ASSUME NEW r \in Requests, LoadPolicy(r) PROVE RowInv'
  BY <1>2 DEF LoadPolicy, locals, monthVars, formVars, policyVars
<1>3. ASSUME NEW r \in Requests, FillPolicy(r) PROVE RowInv'
  BY <1>3 DEF FillPolicy, locals, monthVars, formVars, policyVars
<1>4. ASSUME NEW r \in Requests, Refuse(r) PROVE RowInv'
  BY <1>4 DEF Refuse, locals, monthVars, formVars, policyVars
<1>5. ASSUME NEW r \in Requests, PassChecks(r) PROVE RowInv'
  BY <1>5 DEF PassChecks, locals, monthVars, formVars, policyVars
<1>6. ASSUME NEW r \in Requests, DedupeSignedIn(r) PROVE RowInv'
  BY <1>6 DEF DedupeSignedIn, locals, monthVars, formVars, policyVars
<1>7. ASSUME NEW r \in Requests, DedupeAnonymous(r) PROVE RowInv'
  BY <1>7 DEF DedupeAnonymous, locals, monthVars, formVars,
     policyVars
<1>8. ASSUME NEW r \in Requests, ClaimMonth(r) PROVE RowInv'
  BY <1>8 DEF ClaimMonth, locals, monthVars, formVars, policyVars
<1>9. ASSUME NEW r \in Requests, RefuseMonth(r) PROVE RowInv'
  BY <1>9 DEF RefuseMonth, locals, monthVars, formVars, policyVars
<1>10. ASSUME NEW r \in Requests, ClaimForm(r) PROVE RowInv'
  BY <1>10 DEF ClaimForm, locals, monthVars, formVars, policyVars
<1>11. ASSUME NEW r \in Requests, CountStored(r) PROVE RowInv'
  BY <1>11 DEF CountStored, locals, monthVars, formVars, policyVars
<1>12. ASSUME NEW r \in Requests, SeedCounter(r) PROVE RowInv'
  BY <1>12 DEF SeedCounter, locals, monthVars, formVars, policyVars
<1>13. ASSUME NEW r \in Requests, RefuseForm(r) PROVE RowInv'
  BY <1>13 DEF RefuseForm, locals, monthVars, formVars, policyVars
<1>14. ASSUME NEW r \in Requests, CloseForm(r) PROVE RowInv'
  BY <1>14 DEF CloseForm, locals, monthVars, formVars, policyVars
<1>15. ASSUME NEW r \in Requests, DropPolicy(r) PROVE RowInv'
  BY <1>15 DEF DropPolicy, locals, monthVars, formVars, policyVars
<1>16. ASSUME NEW r \in Requests, GiveBackMonth(r) PROVE RowInv'
  BY <1>16 DEF GiveBackMonth, locals, monthVars, formVars, policyVars
<1>17. ASSUME NEW r \in Requests, Enqueue(r) PROVE RowInv'
  BY <1>17 DEF Enqueue, locals, monthVars, formVars, policyVars
<1>18. ASSUME NEW r \in Requests, EnqueueFails(r) PROVE RowInv'
  BY <1>18 DEF EnqueueFails, locals, monthVars, formVars, policyVars
<1>19. ASSUME NEW r \in Requests, UnwindMonth(r) PROVE RowInv'
  BY <1>19 DEF UnwindMonth, locals, monthVars, formVars, policyVars
<1>20. ASSUME NEW r \in Requests, UnwindForm(r) PROVE RowInv'
  BY <1>20 DEF UnwindForm, locals, monthVars, formVars, policyVars
<1>21. ASSUME NEW r \in Requests, Persist(r) PROVE RowInv'
  BY <1>21 DEF Persist, locals, monthVars, formVars, policyVars
<1>22. ASSUME NEW r \in Requests, JobFails(r) PROVE RowInv'
  BY <1>22 DEF JobFails, locals, monthVars, formVars, policyVars
<1>23. ASSUME NEW r \in Requests, DeleteSubmission(r) PROVE RowInv'
  BY <1>23 DEF DeleteSubmission, locals, monthVars, formVars,
     policyVars
<1>24. ASSUME NEW r \in Requests, Crash(r) PROVE RowInv'
  BY <1>24 DEF Crash, locals, monthVars, formVars, policyVars
<1>25. CASE OwnerEdit
  BY <1>25 DEF OwnerEdit, locals, monthVars, formVars, policyVars
<1>26. CASE InvalidateIngestPolicy
  BY <1>26 DEF InvalidateIngestPolicy, locals, monthVars, formVars,
     policyVars
<1>27. CASE PolicyExpires
  BY <1>27 DEF PolicyExpires, locals, monthVars, formVars, policyVars
<1>28. CASE FormCounterExpires
  BY <1>28 DEF FormCounterExpires, locals, monthVars, formVars,
     policyVars
<1>29. CASE NextMonth
  BY <1>29 DEF NextMonth, locals, monthVars, formVars, policyVars
<1>30. CASE UNCHANGED vars
  BY <1>30 DEF vars, locals, monthVars, formVars, policyVars
<1> QED
  BY <1>1, <1>2, <1>3, <1>4, <1>5, <1>6, <1>7, <1>8, <1>9, <1>10, <1>11, <1>12,
     <1>13, <1>14, <1>15, <1>16, <1>17, <1>18, <1>19, <1>20, <1>21, <1>22,
     <1>23, <1>24, <1>25, <1>26, <1>27, <1>28, <1>29, <1>30 DEF Next, Submit

\* Every step keeps what a request holds in line with where it is.
LEMMA SlotsStep == TypeOK /\ SlotsInv /\ [Next]_vars => SlotsInv'
<1> SUFFICES ASSUME TypeOK, SlotsInv, [Next]_vars,
                    Never({"store_error"})', NEW q \in Requests
             PROVE  RequestSlots(q)'
  BY DEF SlotsInv
<1>a. RequestSlots(q)
  BY NeverStep DEF SlotsInv
<1>b. "store_error" \notin faults'
  BY DEF Never
<1> USE IngestAssumption DEF TypeOK, RequestSlots, Returned, Step, StoreError,
        ReleaseMonth, Running, Unclaimed, NoFormSlot, InCap, Admitted, MonthIds
<1>1. ASSUME NEW r \in Requests, ReadCachedPolicy(r) PROVE RequestSlots(q)'
  BY <1>1, <1>a, <1>b DEF ReadCachedPolicy, locals, monthVars, formVars,
     policyVars
<1>2. ASSUME NEW r \in Requests, LoadPolicy(r) PROVE RequestSlots(q)'
  BY <1>2, <1>a, <1>b DEF LoadPolicy, locals, monthVars, formVars, policyVars
<1>3. ASSUME NEW r \in Requests, FillPolicy(r) PROVE RequestSlots(q)'
  BY <1>3, <1>a, <1>b DEF FillPolicy, locals, monthVars, formVars, policyVars
<1>4. ASSUME NEW r \in Requests, Refuse(r) PROVE RequestSlots(q)'
  BY <1>4, <1>a, <1>b DEF Refuse, locals, monthVars, formVars, policyVars
<1>5. ASSUME NEW r \in Requests, PassChecks(r) PROVE RequestSlots(q)'
  BY <1>5, <1>a, <1>b DEF PassChecks, locals, monthVars, formVars, policyVars
<1>6. ASSUME NEW r \in Requests, DedupeSignedIn(r) PROVE RequestSlots(q)'
  BY <1>6, <1>a, <1>b DEF DedupeSignedIn, locals, monthVars, formVars, policyVars
<1>7. ASSUME NEW r \in Requests, DedupeAnonymous(r) PROVE RequestSlots(q)'
  BY <1>7, <1>a, <1>b DEF DedupeAnonymous, locals, monthVars, formVars,
     policyVars
<1>8. ASSUME NEW r \in Requests, ClaimMonth(r) PROVE RequestSlots(q)'
  BY <1>8, <1>a, <1>b DEF ClaimMonth, locals, monthVars, formVars, policyVars
<1>9. ASSUME NEW r \in Requests, RefuseMonth(r) PROVE RequestSlots(q)'
  BY <1>9, <1>a, <1>b DEF RefuseMonth, locals, monthVars, formVars, policyVars
<1>10. ASSUME NEW r \in Requests, ClaimForm(r) PROVE RequestSlots(q)'
  BY <1>10, <1>a, <1>b DEF ClaimForm, locals, monthVars, formVars, policyVars
<1>11. ASSUME NEW r \in Requests, CountStored(r) PROVE RequestSlots(q)'
  BY <1>11, <1>a, <1>b DEF CountStored, locals, monthVars, formVars, policyVars
<1>12. ASSUME NEW r \in Requests, SeedCounter(r) PROVE RequestSlots(q)'
  BY <1>12, <1>a, <1>b DEF SeedCounter, locals, monthVars, formVars, policyVars
<1>13. ASSUME NEW r \in Requests, RefuseForm(r) PROVE RequestSlots(q)'
  BY <1>13, <1>a, <1>b DEF RefuseForm, locals, monthVars, formVars, policyVars
<1>14. ASSUME NEW r \in Requests, CloseForm(r) PROVE RequestSlots(q)'
  BY <1>14, <1>a, <1>b DEF CloseForm, locals, monthVars, formVars, policyVars
<1>15. ASSUME NEW r \in Requests, DropPolicy(r) PROVE RequestSlots(q)'
  BY <1>15, <1>a, <1>b DEF DropPolicy, locals, monthVars, formVars, policyVars
<1>16. ASSUME NEW r \in Requests, GiveBackMonth(r) PROVE RequestSlots(q)'
  BY <1>16, <1>a, <1>b DEF GiveBackMonth, locals, monthVars, formVars, policyVars
<1>17. ASSUME NEW r \in Requests, Enqueue(r) PROVE RequestSlots(q)'
  BY <1>17, <1>a, <1>b DEF Enqueue, locals, monthVars, formVars, policyVars
<1>18. ASSUME NEW r \in Requests, EnqueueFails(r) PROVE RequestSlots(q)'
  BY <1>18, <1>a, <1>b DEF EnqueueFails, locals, monthVars, formVars, policyVars
<1>19. ASSUME NEW r \in Requests, UnwindMonth(r) PROVE RequestSlots(q)'
  BY <1>19, <1>a, <1>b DEF UnwindMonth, locals, monthVars, formVars, policyVars
<1>20. ASSUME NEW r \in Requests, UnwindForm(r) PROVE RequestSlots(q)'
  BY <1>20, <1>a, <1>b DEF UnwindForm, locals, monthVars, formVars, policyVars
<1>21. ASSUME NEW r \in Requests, Persist(r) PROVE RequestSlots(q)'
  BY <1>21, <1>a, <1>b DEF Persist, locals, monthVars, formVars, policyVars
<1>22. ASSUME NEW r \in Requests, JobFails(r) PROVE RequestSlots(q)'
  BY <1>22, <1>a, <1>b DEF JobFails, locals, monthVars, formVars, policyVars
<1>23. ASSUME NEW r \in Requests, DeleteSubmission(r) PROVE RequestSlots(q)'
  BY <1>23, <1>a, <1>b DEF DeleteSubmission, locals, monthVars, formVars,
     policyVars
<1>24. ASSUME NEW r \in Requests, Crash(r) PROVE RequestSlots(q)'
  BY <1>24, <1>a, <1>b DEF Crash, locals, monthVars, formVars, policyVars
<1>25. CASE OwnerEdit
  BY <1>25, <1>a, <1>b DEF OwnerEdit, locals, monthVars, formVars, policyVars
<1>26. CASE InvalidateIngestPolicy
  BY <1>26, <1>a, <1>b DEF InvalidateIngestPolicy, locals, monthVars, formVars,
     policyVars
<1>27. CASE PolicyExpires
  BY <1>27, <1>a, <1>b DEF PolicyExpires, locals, monthVars, formVars, policyVars
<1>28. CASE FormCounterExpires
  BY <1>28, <1>a, <1>b DEF FormCounterExpires, locals, monthVars, formVars,
     policyVars
<1>29. CASE NextMonth
  BY <1>29, <1>a, <1>b DEF NextMonth, locals, monthVars, formVars, policyVars
<1>30. CASE UNCHANGED vars
  BY <1>30, <1>a, <1>b DEF vars, locals, monthVars, formVars, policyVars
<1> QED
  BY <1>1, <1>2, <1>3, <1>4, <1>5, <1>6, <1>7, <1>8, <1>9, <1>10, <1>11, <1>12,
     <1>13, <1>14, <1>15, <1>16, <1>17, <1>18, <1>19, <1>20, <1>21, <1>22,
     <1>23, <1>24, <1>25, <1>26, <1>27, <1>28, <1>29, <1>30 DEF Next, Submit

-----------------------------------------------------------------------------
\* A step that neither takes nor gives back a monthly slot keeps the count.
LEMMA MonthFrame ==
    ASSUME NEW m \in MonthIds, MonthOK(m), UNCHANGED monthVars,
           MonthGranted(m)' \subseteq MonthGranted(m)
    PROVE  MonthOK(m)'
<1>1. /\ MonthHolders(m)' = MonthHolders(m) /\ Misplaced(m)' = Misplaced(m)
      /\ monthUsed' = monthUsed
  BY DEF MonthHolders, Misplaced, monthVars
<1>2. /\ IsFiniteSet(MonthGranted(m)) /\ Cardinality(MonthGranted(m)) \in Nat
      /\ Cardinality(Misplaced(m)) \in Nat
  BY StoredCountType DEF MonthGranted, MonthHolders, Misplaced
<1>3. /\ Cardinality(MonthGranted(m)') \in Nat
      /\ Cardinality(MonthGranted(m)') <= Cardinality(MonthGranted(m))
  BY <1>2, FS_Subset, FS_CardinalityType
<1> QED
  BY <1>1, <1>2, <1>3, IngestAssumption DEF MonthOK

\* Taking one slot of the current month.
LEMMA MonthTaken ==
    ASSUME TypeOK, NEW m \in MonthIds, MonthOK(m), NEW r \in Requests,
           monthSlot[r] = 0,
           monthUsed' = [monthUsed EXCEPT ![month] = @ + 1],
           monthSlot' = [monthSlot EXCEPT ![r] = month],
           UNCHANGED gaveBack,
           pc' = [pc EXCEPT ![r] = IF monthUsed[month] + 1 > MonthlyMax
                                   THEN "monthOver" ELSE "cap"]
    PROVE  MonthOK(m)'
<1>1. /\ IsFiniteSet(MonthHolders(m)) /\ Cardinality(MonthHolders(m)) \in Nat
      /\ IsFiniteSet(MonthGranted(m)) /\ Cardinality(MonthGranted(m)) \in Nat
      /\ IsFiniteSet(MonthGranted(m)')
      /\ Cardinality(Misplaced(m)) \in Nat /\ Misplaced(m)' = Misplaced(m)
  BY StoredCountType DEF MonthGranted, MonthHolders, Misplaced
<1>2. month \in MonthIds /\ month # 0 /\ monthUsed[month] \in Int
  BY IngestAssumption DEF TypeOK, MonthIds
<1>3. CASE m # month
  <2>1. MonthHolders(m)' = MonthHolders(m) /\ monthUsed'[m] = monthUsed[m]
    BY <1>2, <1>3 DEF MonthHolders, TypeOK, MonthIds
  <2>2. MonthGranted(m)' = MonthGranted(m)
    BY <1>2, <1>3 DEF MonthGranted, MonthHolders, TypeOK, MonthIds
  <2> QED
    BY <1>1, <2>1, <2>2 DEF MonthOK
<1>4. CASE m = month
  <2>1. MonthHolders(m)' = MonthHolders(m) \cup {r} /\ r \notin MonthHolders(m)
    BY <1>2, <1>4 DEF MonthHolders, TypeOK, MonthIds
  <2>2. Cardinality(MonthHolders(m)') = Cardinality(MonthHolders(m)) + 1
    BY <1>1, <2>1, FS_AddElement
  <2>3. monthUsed'[m] = monthUsed[m] + 1
    BY <1>2, <1>4 DEF TypeOK
  <2>4. CASE monthUsed[month] + 1 > MonthlyMax
    <3>1. MonthGranted(m)' = MonthGranted(m)
      BY <1>2, <1>4, <2>4 DEF MonthGranted, MonthHolders, TypeOK, MonthIds
    <3> QED
      BY <1>1, <1>2, <2>2, <2>3, <3>1 DEF MonthOK
  <2>5. CASE ~(monthUsed[month] + 1 > MonthlyMax)
    <3>1. MonthGranted(m)' \subseteq MonthHolders(m)'
      BY DEF MonthGranted
    <3>2. IsFiniteSet(MonthHolders(m)')
      BY <1>1, <2>1, FS_AddElement
    <3>3. /\ Cardinality(MonthGranted(m)') \in Nat
          /\ Cardinality(MonthGranted(m)') <= Cardinality(MonthHolders(m)')
      BY <3>1, <3>2, FS_Subset, FS_CardinalityType
    <3> QED
      BY <1>1, <1>2, <1>4, <2>2, <2>3, <2>5, <3>3, IngestAssumption
         DEF MonthOK
  <2> QED
    BY <2>4, <2>5
<1> QED
  BY <1>3, <1>4

\* Giving a slot back to the month it was taken from.
LEMMA MonthReturned ==
    ASSUME TypeOK, NEW m \in MonthIds, MonthOK(m), NEW r \in Requests,
           monthSlot[r] # 0,
           monthUsed' = [monthUsed EXCEPT ![monthSlot[r]] = @ - 1],
           monthSlot' = [monthSlot EXCEPT ![r] = 0],
           UNCHANGED gaveBack,
           NEW to, pc' = [pc EXCEPT ![r] = to]
    PROVE  MonthOK(m)'
<1>1. /\ IsFiniteSet(MonthHolders(m)) /\ Cardinality(MonthHolders(m)) \in Nat
      /\ IsFiniteSet(MonthGranted(m)) /\ Cardinality(MonthGranted(m)) \in Nat
      /\ Cardinality(Misplaced(m)) \in Nat /\ Misplaced(m)' = Misplaced(m)
  BY StoredCountType DEF MonthGranted, MonthHolders, Misplaced
<1>2. monthSlot[r] \in MonthIds
  BY DEF TypeOK
<1>3. MonthGranted(m)' \subseteq MonthGranted(m)
  BY DEF MonthGranted, MonthHolders, TypeOK, MonthIds
<1>4. /\ Cardinality(MonthGranted(m)') \in Nat
      /\ Cardinality(MonthGranted(m)') <= Cardinality(MonthGranted(m))
  BY <1>1, <1>3, FS_Subset, FS_CardinalityType
<1>5. CASE m # monthSlot[r]
  <2>1. MonthHolders(m)' = MonthHolders(m)
    BY <1>2, <1>5 DEF MonthHolders, TypeOK, MonthIds
  <2>2. monthUsed'[m] = monthUsed[m]
    BY <1>2, <1>5 DEF TypeOK
  <2> QED
    BY <1>1, <1>4, <2>1, <2>2, IngestAssumption DEF MonthOK
<1>6. CASE m = monthSlot[r]
  <2>1. MonthHolders(m)' = MonthHolders(m) \ {r} /\ r \in MonthHolders(m)
    BY <1>2, <1>6 DEF MonthHolders, TypeOK, MonthIds
  <2>2. Cardinality(MonthHolders(m)') = Cardinality(MonthHolders(m)) - 1
    BY <1>1, <2>1, FS_RemoveElement
  <2>3. monthUsed'[m] = monthUsed[m] - 1
    BY <1>2, <1>6 DEF TypeOK
  <2> QED
    BY <1>1, <1>4, <2>2, <2>3, IngestAssumption DEF MonthOK
<1> QED
  BY <1>5, <1>6

\* Giving a slot back to a month that did not grant it.
LEMMA MonthMisplaced ==
    ASSUME TypeOK, NEW m \in MonthIds, MonthOK(m), NEW r \in Requests,
           gaveBack[r] = 0, pc[r] \notin {"monthOver", "crashed"},
           monthUsed' = [monthUsed EXCEPT ![month] = @ - 1],
           gaveBack' = [gaveBack EXCEPT ![r] = month],
           UNCHANGED monthSlot,
           NEW to, pc' = [pc EXCEPT ![r] = to]
    PROVE  MonthOK(m)'
<1>1. /\ IsFiniteSet(MonthGranted(m)) /\ Cardinality(MonthGranted(m)) \in Nat
      /\ IsFiniteSet(Misplaced(m)) /\ Cardinality(Misplaced(m)) \in Nat
      /\ Cardinality(MonthHolders(m)) \in Nat
      /\ MonthHolders(m)' = MonthHolders(m)
  BY StoredCountType DEF MonthGranted, MonthHolders, Misplaced
<1>2. month \in MonthIds /\ month # 0 /\ monthUsed[m] \in Int
  BY IngestAssumption DEF TypeOK, MonthIds
<1>3. MonthGranted(m)' \subseteq MonthGranted(m)
  BY <1>1 DEF MonthGranted, TypeOK, MonthHolders
<1>4. /\ Cardinality(MonthGranted(m)') \in Nat
      /\ Cardinality(MonthGranted(m)') <= Cardinality(MonthGranted(m))
  BY <1>1, <1>3, FS_Subset, FS_CardinalityType
<1>5. CASE m # month
  <2>1. Misplaced(m)' = Misplaced(m)
    BY <1>2, <1>5 DEF Misplaced, TypeOK, MonthIds
  <2>2. monthUsed'[m] = monthUsed[m]
    BY <1>2, <1>5 DEF TypeOK
  <2> QED
    BY <1>1, <1>4, <2>1, <2>2, IngestAssumption DEF MonthOK
<1>6. CASE m = month
  <2>1. Misplaced(m)' = Misplaced(m) \cup {r} /\ r \notin Misplaced(m)
    BY <1>2, <1>6 DEF Misplaced, TypeOK, MonthIds
  <2>2. Cardinality(Misplaced(m)') = Cardinality(Misplaced(m)) + 1
    BY <1>1, <2>1, FS_AddElement
  <2>3. monthUsed'[m] = monthUsed[m] - 1
    BY <1>2, <1>6 DEF TypeOK
  <2> QED
    BY <1>1, <1>2, <1>4, <2>2, <2>3, IngestAssumption DEF MonthOK
<1> QED
  BY <1>5, <1>6

\* releaseQuota on the month, in the month of the claim or in a later one.
LEMMA MonthReleased ==
    ASSUME TypeOK, NEW m \in MonthIds, MonthOK(m), NEW r \in Requests,
           RequestSlots(r), "store_error" \notin faults',
           NEW from \in {"giveBack", "unwind"}, NEW to,
           ReleaseMonth(r, from, to)
    PROVE  MonthOK(m)'
<1>1. /\ monthSlot[r] # 0 /\ gaveBack[r] = 0
      /\ pc[r] \notin {"monthOver", "crashed"}
      /\ pc' = [pc EXCEPT ![r] = to]
  BY DEF RequestSlots, NoFormSlot, Admitted, ReleaseMonth, Step
<1>2. monthUsed' = [monthUsed EXCEPT ![month] = @ - 1]
  BY DEF ReleaseMonth, StoreError
<1>3. CASE monthSlot[r] = month
  <2>1. /\ monthSlot' = [monthSlot EXCEPT ![r] = 0]
        /\ UNCHANGED gaveBack
    BY <1>3 DEF ReleaseMonth, StoreError
  <2> QED
    BY <1>1, <1>2, <1>3, <2>1, MonthReturned
<1>4. CASE monthSlot[r] # month
  <2>1. /\ gaveBack' = [gaveBack EXCEPT ![r] = month]
        /\ UNCHANGED monthSlot
    BY <1>4 DEF ReleaseMonth, StoreError
  <2> QED
    BY <1>1, <1>2, <2>1, MonthMisplaced
<1> QED
  BY <1>3, <1>4

\* Every step keeps the monthly counters equal to the slots held, and the
\* slots granted within the quota.
LEMMA MonthStep == TypeOK /\ SlotsInv /\ MonthInv /\ [Next]_vars => MonthInv'
<1> SUFFICES ASSUME TypeOK, SlotsInv, MonthInv, [Next]_vars,
                    Never({"store_error"})', NEW m \in MonthIds
             PROVE  MonthOK(m)'
  BY DEF MonthInv
<1>a. MonthOK(m) /\ \A r \in Requests : RequestSlots(r)
  BY NeverStep DEF MonthInv, SlotsInv, Never
<1>b. "store_error" \notin faults'
  BY DEF Never
<1> USE DEF Step, StoreError
<1>1. ASSUME NEW r \in Requests, ReadCachedPolicy(r) PROVE MonthOK(m)'
  <2>1. UNCHANGED monthVars /\ MonthGranted(m)' \subseteq MonthGranted(m)
    BY <1>1, <1>b DEF ReadCachedPolicy, MonthGranted, MonthHolders, TypeOK, locals,
       monthVars, formVars, policyVars
  <2> QED
    BY <1>a, <2>1, MonthFrame
<1>2. ASSUME NEW r \in Requests, LoadPolicy(r) PROVE MonthOK(m)'
  <2>1. UNCHANGED monthVars /\ MonthGranted(m)' \subseteq MonthGranted(m)
    BY <1>2, <1>b DEF LoadPolicy, MonthGranted, MonthHolders, TypeOK, locals,
       monthVars, formVars, policyVars
  <2> QED
    BY <1>a, <2>1, MonthFrame
<1>3. ASSUME NEW r \in Requests, FillPolicy(r) PROVE MonthOK(m)'
  <2>1. UNCHANGED monthVars /\ MonthGranted(m)' \subseteq MonthGranted(m)
    BY <1>3, <1>b DEF FillPolicy, MonthGranted, MonthHolders, TypeOK, locals,
       monthVars, formVars, policyVars
  <2> QED
    BY <1>a, <2>1, MonthFrame
<1>4. ASSUME NEW r \in Requests, Refuse(r) PROVE MonthOK(m)'
  <2>1. UNCHANGED monthVars /\ MonthGranted(m)' \subseteq MonthGranted(m)
    BY <1>4, <1>b DEF Refuse, MonthGranted, MonthHolders, TypeOK, locals,
       monthVars, formVars, policyVars
  <2> QED
    BY <1>a, <2>1, MonthFrame
<1>5. ASSUME NEW r \in Requests, PassChecks(r) PROVE MonthOK(m)'
  <2>1. UNCHANGED monthVars /\ MonthGranted(m)' \subseteq MonthGranted(m)
    BY <1>5, <1>b DEF PassChecks, MonthGranted, MonthHolders, TypeOK, locals,
       monthVars, formVars, policyVars
  <2> QED
    BY <1>a, <2>1, MonthFrame
<1>6. ASSUME NEW r \in Requests, DedupeSignedIn(r) PROVE MonthOK(m)'
  <2>1. UNCHANGED monthVars /\ MonthGranted(m)' \subseteq MonthGranted(m)
    BY <1>6, <1>b DEF DedupeSignedIn, MonthGranted, MonthHolders, TypeOK, locals,
       monthVars, formVars, policyVars
  <2> QED
    BY <1>a, <2>1, MonthFrame
<1>7. ASSUME NEW r \in Requests, DedupeAnonymous(r) PROVE MonthOK(m)'
  <2>1. UNCHANGED monthVars /\ MonthGranted(m)' \subseteq MonthGranted(m)
    BY <1>7, <1>b DEF DedupeAnonymous, MonthGranted, MonthHolders, TypeOK, locals,
       monthVars, formVars, policyVars
  <2> QED
    BY <1>a, <2>1, MonthFrame
<1>8. ASSUME NEW r \in Requests, ClaimMonth(r) PROVE MonthOK(m)'
  <2>1. monthSlot[r] = 0
    BY <1>a, <1>8 DEF RequestSlots, Unclaimed, ClaimMonth
  <2>2. /\ monthUsed' = [monthUsed EXCEPT ![month] = @ + 1]
        /\ monthSlot' = [monthSlot EXCEPT ![r] = month]
        /\ UNCHANGED gaveBack
        /\ pc' = [pc EXCEPT ![r] = IF monthUsed[month] + 1 > MonthlyMax
                                   THEN "monthOver" ELSE "cap"]
    BY <1>8, <1>b DEF ClaimMonth
  <2> QED
    BY <1>a, <2>1, <2>2, MonthTaken
<1>9. ASSUME NEW r \in Requests, RefuseMonth(r) PROVE MonthOK(m)'
  <2>1. monthSlot[r] # 0
    BY <1>a, <1>9 DEF RequestSlots, NoFormSlot, RefuseMonth
  <2>2. /\ monthUsed' = [monthUsed EXCEPT ![monthSlot[r]] = @ - 1]
        /\ monthSlot' = [monthSlot EXCEPT ![r] = 0]
        /\ UNCHANGED gaveBack
        /\ pc' = [pc EXCEPT ![r] = "rejected"]
    BY <1>9, <1>b DEF RefuseMonth
  <2> QED
    BY <1>a, <2>1, <2>2, MonthReturned
<1>10. ASSUME NEW r \in Requests, ClaimForm(r) PROVE MonthOK(m)'
  <2>1. UNCHANGED monthVars /\ MonthGranted(m)' \subseteq MonthGranted(m)
    BY <1>10, <1>b DEF ClaimForm, MonthGranted, MonthHolders, TypeOK, locals,
       monthVars, formVars, policyVars
  <2> QED
    BY <1>a, <2>1, MonthFrame
<1>11. ASSUME NEW r \in Requests, CountStored(r) PROVE MonthOK(m)'
  <2>1. UNCHANGED monthVars /\ MonthGranted(m)' \subseteq MonthGranted(m)
    BY <1>11, <1>b DEF CountStored, MonthGranted, MonthHolders, TypeOK, locals,
       monthVars, formVars, policyVars
  <2> QED
    BY <1>a, <2>1, MonthFrame
<1>12. ASSUME NEW r \in Requests, SeedCounter(r) PROVE MonthOK(m)'
  <2>1. UNCHANGED monthVars /\ MonthGranted(m)' \subseteq MonthGranted(m)
    BY <1>12, <1>b DEF SeedCounter, MonthGranted, MonthHolders, TypeOK, locals,
       monthVars, formVars, policyVars
  <2> QED
    BY <1>a, <2>1, MonthFrame
<1>13. ASSUME NEW r \in Requests, RefuseForm(r) PROVE MonthOK(m)'
  <2>1. UNCHANGED monthVars /\ MonthGranted(m)' \subseteq MonthGranted(m)
    BY <1>13, <1>b DEF RefuseForm, MonthGranted, MonthHolders, TypeOK, locals,
       monthVars, formVars, policyVars
  <2> QED
    BY <1>a, <2>1, MonthFrame
<1>14. ASSUME NEW r \in Requests, CloseForm(r) PROVE MonthOK(m)'
  <2>1. UNCHANGED monthVars /\ MonthGranted(m)' \subseteq MonthGranted(m)
    BY <1>14, <1>b DEF CloseForm, MonthGranted, MonthHolders, TypeOK, locals,
       monthVars, formVars, policyVars
  <2> QED
    BY <1>a, <2>1, MonthFrame
<1>15. ASSUME NEW r \in Requests, DropPolicy(r) PROVE MonthOK(m)'
  <2>1. UNCHANGED monthVars /\ MonthGranted(m)' \subseteq MonthGranted(m)
    BY <1>15, <1>b DEF DropPolicy, MonthGranted, MonthHolders, TypeOK, locals,
       monthVars, formVars, policyVars
  <2> QED
    BY <1>a, <2>1, MonthFrame
<1>16. ASSUME NEW r \in Requests, GiveBackMonth(r) PROVE MonthOK(m)'
  BY <1>16, <1>a, <1>b, MonthReleased DEF GiveBackMonth
<1>17. ASSUME NEW r \in Requests, Enqueue(r) PROVE MonthOK(m)'
  <2>1. UNCHANGED monthVars /\ MonthGranted(m)' \subseteq MonthGranted(m)
    BY <1>17, <1>b DEF Enqueue, MonthGranted, MonthHolders, TypeOK, locals,
       monthVars, formVars, policyVars
  <2> QED
    BY <1>a, <2>1, MonthFrame
<1>18. ASSUME NEW r \in Requests, EnqueueFails(r) PROVE MonthOK(m)'
  <2>1. UNCHANGED monthVars /\ MonthGranted(m)' \subseteq MonthGranted(m)
    BY <1>18, <1>b DEF EnqueueFails, MonthGranted, MonthHolders, TypeOK, locals,
       monthVars, formVars, policyVars
  <2> QED
    BY <1>a, <2>1, MonthFrame
<1>19. ASSUME NEW r \in Requests, UnwindMonth(r) PROVE MonthOK(m)'
  BY <1>19, <1>a, <1>b, MonthReleased DEF UnwindMonth
<1>20. ASSUME NEW r \in Requests, UnwindForm(r) PROVE MonthOK(m)'
  <2>1. UNCHANGED monthVars /\ MonthGranted(m)' \subseteq MonthGranted(m)
    BY <1>20, <1>b DEF UnwindForm, MonthGranted, MonthHolders, TypeOK, locals,
       monthVars, formVars, policyVars
  <2> QED
    BY <1>a, <2>1, MonthFrame
<1>21. ASSUME NEW r \in Requests, Persist(r) PROVE MonthOK(m)'
  <2>1. UNCHANGED monthVars /\ MonthGranted(m)' \subseteq MonthGranted(m)
    BY <1>21, <1>b DEF Persist, MonthGranted, MonthHolders, TypeOK, locals,
       monthVars, formVars, policyVars
  <2> QED
    BY <1>a, <2>1, MonthFrame
<1>22. ASSUME NEW r \in Requests, JobFails(r) PROVE MonthOK(m)'
  <2>1. UNCHANGED monthVars /\ MonthGranted(m)' \subseteq MonthGranted(m)
    BY <1>22, <1>b DEF JobFails, MonthGranted, MonthHolders, TypeOK, locals,
       monthVars, formVars, policyVars
  <2> QED
    BY <1>a, <2>1, MonthFrame
<1>23. ASSUME NEW r \in Requests, DeleteSubmission(r) PROVE MonthOK(m)'
  <2>1. UNCHANGED monthVars /\ MonthGranted(m)' \subseteq MonthGranted(m)
    BY <1>23, <1>b DEF DeleteSubmission, MonthGranted, MonthHolders, TypeOK, locals,
       monthVars, formVars, policyVars
  <2> QED
    BY <1>a, <2>1, MonthFrame
<1>24. ASSUME NEW r \in Requests, Crash(r) PROVE MonthOK(m)'
  <2>1. UNCHANGED monthVars /\ MonthGranted(m)' \subseteq MonthGranted(m)
    BY <1>24, <1>b DEF Crash, MonthGranted, MonthHolders, TypeOK, locals,
       monthVars, formVars, policyVars
  <2> QED
    BY <1>a, <2>1, MonthFrame
<1>25. CASE OwnerEdit
  <2>1. UNCHANGED monthVars /\ MonthGranted(m)' \subseteq MonthGranted(m)
    BY <1>25, <1>b DEF OwnerEdit, MonthGranted, MonthHolders, TypeOK, locals,
       monthVars, formVars, policyVars
  <2> QED
    BY <1>a, <2>1, MonthFrame
<1>26. CASE InvalidateIngestPolicy
  <2>1. UNCHANGED monthVars /\ MonthGranted(m)' \subseteq MonthGranted(m)
    BY <1>26, <1>b DEF InvalidateIngestPolicy, MonthGranted, MonthHolders, TypeOK, locals,
       monthVars, formVars, policyVars
  <2> QED
    BY <1>a, <2>1, MonthFrame
<1>27. CASE PolicyExpires
  <2>1. UNCHANGED monthVars /\ MonthGranted(m)' \subseteq MonthGranted(m)
    BY <1>27, <1>b DEF PolicyExpires, MonthGranted, MonthHolders, TypeOK, locals,
       monthVars, formVars, policyVars
  <2> QED
    BY <1>a, <2>1, MonthFrame
<1>28. CASE FormCounterExpires
  <2>1. UNCHANGED monthVars /\ MonthGranted(m)' \subseteq MonthGranted(m)
    BY <1>28, <1>b DEF FormCounterExpires, MonthGranted, MonthHolders, TypeOK, locals,
       monthVars, formVars, policyVars
  <2> QED
    BY <1>a, <2>1, MonthFrame
<1>29. CASE NextMonth
  <2>1. UNCHANGED monthVars /\ MonthGranted(m)' \subseteq MonthGranted(m)
    BY <1>29, <1>b DEF NextMonth, MonthGranted, MonthHolders, TypeOK, locals,
       monthVars, formVars, policyVars
  <2> QED
    BY <1>a, <2>1, MonthFrame
<1>30. CASE UNCHANGED vars
  <2>1. UNCHANGED monthVars /\ MonthGranted(m)' \subseteq MonthGranted(m)
    BY <1>30 DEF vars, monthVars, MonthGranted, MonthHolders
  <2> QED
    BY <1>a, <2>1, MonthFrame
<1> QED
  BY <1>1, <1>2, <1>3, <1>4, <1>5, <1>6, <1>7, <1>8, <1>9, <1>10, <1>11, <1>12,
     <1>13, <1>14, <1>15, <1>16, <1>17, <1>18, <1>19, <1>20, <1>21, <1>22,
     <1>23, <1>24, <1>25, <1>26, <1>27, <1>28, <1>29, <1>30 DEF Next, Submit

-----------------------------------------------------------------------------
\* Shrinking the set of granted slots keeps room under the cap.
LEMMA RoomShrinks ==
    ASSUME FormRoom, FormGranted' \subseteq FormGranted
    PROVE  FormRoom'
<1>1. IsFiniteSet(FormGranted) /\ Cardinality(FormGranted) \in Nat
  BY StoredCountType DEF FormGranted, FormHolders
<1>2. /\ Cardinality(FormGranted') \in Nat
      /\ Cardinality(FormGranted') <= Cardinality(FormGranted)
  BY <1>1, FS_Subset, FS_CardinalityType
<1> QED
  BY <1>1, <1>2, IngestAssumption DEF FormRoom

\* A step that leaves the counter, its holders and its seeder alone.
LEMMA FormFrame ==
    ASSUME FormCount, FormSeeding, FormRoom, UNCHANGED formVars,
           Seeders' = Seeders,
           \A q \in Seeders : pc'[q] = pc[q] /\ seen'[q] = seen[q],
           FormGranted' \subseteq FormGranted
    PROVE  (FormCount /\ FormSeeding /\ FormRoom)'
<1>1. FormHolders' = FormHolders /\ formUsed' = formUsed
  BY DEF FormHolders, formVars
<1>2. FormCount' /\ FormSeeding'
  BY <1>1 DEF FormCount, FormSeeding
<1> QED
  BY <1>2, RoomShrinks

\* Giving a slot of the form counter back.
LEMMA FormReturned ==
    ASSUME TypeOK, FormCount, FormSeeding, FormRoom, NEW r \in Requests,
           formSlot[r], pc[r] \notin Seeding,
           formUsed' = formUsed - 1,
           formSlot' = [formSlot EXCEPT ![r] = FALSE],
           NEW to, to \notin Seeding, pc' = [pc EXCEPT ![r] = to]
    PROVE  (FormCount /\ FormSeeding /\ FormRoom)'
<1>1. IsFiniteSet(FormHolders) /\ Cardinality(FormHolders) \in Nat
  BY StoredCountType DEF FormHolders
<1>2. r \in FormHolders /\ Seeders = {}
  BY DEF FormHolders, FormSeeding, Seeders
<1>3. FormHolders' = FormHolders \ {r}
  BY DEF FormHolders, TypeOK
<1>4. Cardinality(FormHolders') = Cardinality(FormHolders) - 1
  BY <1>1, <1>2, <1>3, FS_RemoveElement
<1>5. formUsed = Cardinality(FormHolders) + PriorRows
  BY <1>2 DEF FormCount
<1>6. FormCount'
  BY <1>1, <1>4, <1>5, IngestAssumption DEF FormCount
<1>7. Seeders' = {}
  BY <1>2 DEF Seeders, TypeOK
<1>8. FormGranted' \subseteq FormGranted
  BY DEF FormGranted, FormHolders, TypeOK
<1> QED
  BY <1>6, <1>7, <1>8, RoomShrinks DEF FormSeeding

\* Every step keeps the form counter in line with the slots held, inside and
\* outside a seeding window, and the slots granted under the cap.
LEMMA FormStep ==
    TypeOK /\ SlotsInv /\ RowInv /\ FormInv /\ [Next]_vars => FormInv'
<1> DEFINE Goal == FormCount /\ FormSeeding /\ FormRoom
<1> SUFFICES ASSUME TypeOK, SlotsInv, RowInv, FormInv, [Next]_vars,
                    FormCap > 0, Never(FormFaults)'
             PROVE  Goal'
  BY DEF FormInv
<1>a. FormCount /\ FormSeeding /\ FormRoom
  BY NeverStep DEF FormInv
<1>b. /\ "store_error" \notin faults'
      /\ "seed_interrupted" \notin faults'
      /\ "counter_expired" \notin faults'
  BY DEF Never, FormFaults
<1>c. \A r \in Requests : RequestSlots(r)
  BY NeverStep DEF SlotsInv, Never, FormFaults
<1>d. FormCap \in Nat /\ PriorRows \in Nat
  BY IngestAssumption
<1>e. IsFiniteSet(FormHolders) /\ Cardinality(FormHolders) \in Nat
  BY StoredCountType DEF FormHolders
<1> HIDE DEF Goal
<1> USE DEF Step, StoreError
<1>1. ASSUME NEW r \in Requests, ReadCachedPolicy(r) PROVE Goal'
  <2>1. UNCHANGED formVars
    BY <1>1, <1>b DEF ReadCachedPolicy, locals, monthVars, formVars, policyVars
  <2>2. /\ Seeders' = Seeders
        /\ \A q \in Seeders : pc'[q] = pc[q] /\ seen'[q] = seen[q]
    BY <1>1, <1>b DEF ReadCachedPolicy, Seeders, Seeding, TypeOK, locals, monthVars,
       formVars, policyVars
  <2>3. FormGranted' \subseteq FormGranted
    BY <1>1, <1>b, <2>1 DEF ReadCachedPolicy, FormGranted, FormHolders, Admitted, TypeOK,
       locals, monthVars, formVars, policyVars
  <2> QED
    BY <1>a, <2>1, <2>2, <2>3, FormFrame DEF Goal
<1>2. ASSUME NEW r \in Requests, LoadPolicy(r) PROVE Goal'
  <2>1. UNCHANGED formVars
    BY <1>2, <1>b DEF LoadPolicy, locals, monthVars, formVars, policyVars
  <2>2. /\ Seeders' = Seeders
        /\ \A q \in Seeders : pc'[q] = pc[q] /\ seen'[q] = seen[q]
    BY <1>2, <1>b DEF LoadPolicy, Seeders, Seeding, TypeOK, locals, monthVars,
       formVars, policyVars
  <2>3. FormGranted' \subseteq FormGranted
    BY <1>2, <1>b, <2>1 DEF LoadPolicy, FormGranted, FormHolders, Admitted, TypeOK,
       locals, monthVars, formVars, policyVars
  <2> QED
    BY <1>a, <2>1, <2>2, <2>3, FormFrame DEF Goal
<1>3. ASSUME NEW r \in Requests, FillPolicy(r) PROVE Goal'
  <2>1. UNCHANGED formVars
    BY <1>3, <1>b DEF FillPolicy, locals, monthVars, formVars, policyVars
  <2>2. /\ Seeders' = Seeders
        /\ \A q \in Seeders : pc'[q] = pc[q] /\ seen'[q] = seen[q]
    BY <1>3, <1>b DEF FillPolicy, Seeders, Seeding, TypeOK, locals, monthVars,
       formVars, policyVars
  <2>3. FormGranted' \subseteq FormGranted
    BY <1>3, <1>b, <2>1 DEF FillPolicy, FormGranted, FormHolders, Admitted, TypeOK,
       locals, monthVars, formVars, policyVars
  <2> QED
    BY <1>a, <2>1, <2>2, <2>3, FormFrame DEF Goal
<1>4. ASSUME NEW r \in Requests, Refuse(r) PROVE Goal'
  <2>1. UNCHANGED formVars
    BY <1>4, <1>b DEF Refuse, locals, monthVars, formVars, policyVars
  <2>2. /\ Seeders' = Seeders
        /\ \A q \in Seeders : pc'[q] = pc[q] /\ seen'[q] = seen[q]
    BY <1>4, <1>b DEF Refuse, Seeders, Seeding, TypeOK, locals, monthVars,
       formVars, policyVars
  <2>3. FormGranted' \subseteq FormGranted
    BY <1>4, <1>b, <2>1 DEF Refuse, FormGranted, FormHolders, Admitted, TypeOK,
       locals, monthVars, formVars, policyVars
  <2> QED
    BY <1>a, <2>1, <2>2, <2>3, FormFrame DEF Goal
<1>5. ASSUME NEW r \in Requests, PassChecks(r) PROVE Goal'
  <2>1. UNCHANGED formVars
    BY <1>5, <1>b DEF PassChecks, locals, monthVars, formVars, policyVars
  <2>2. /\ Seeders' = Seeders
        /\ \A q \in Seeders : pc'[q] = pc[q] /\ seen'[q] = seen[q]
    BY <1>5, <1>b DEF PassChecks, Seeders, Seeding, TypeOK, locals, monthVars,
       formVars, policyVars
  <2>3. FormGranted' \subseteq FormGranted
    BY <1>5, <1>b, <2>1 DEF PassChecks, FormGranted, FormHolders, Admitted, TypeOK,
       locals, monthVars, formVars, policyVars
  <2> QED
    BY <1>a, <2>1, <2>2, <2>3, FormFrame DEF Goal
<1>6. ASSUME NEW r \in Requests, DedupeSignedIn(r) PROVE Goal'
  <2>1. UNCHANGED formVars
    BY <1>6, <1>b DEF DedupeSignedIn, locals, monthVars, formVars, policyVars
  <2>2. /\ Seeders' = Seeders
        /\ \A q \in Seeders : pc'[q] = pc[q] /\ seen'[q] = seen[q]
    BY <1>6, <1>b DEF DedupeSignedIn, Seeders, Seeding, TypeOK, locals, monthVars,
       formVars, policyVars
  <2>3. FormGranted' \subseteq FormGranted
    BY <1>6, <1>b, <2>1 DEF DedupeSignedIn, FormGranted, FormHolders, Admitted, TypeOK,
       locals, monthVars, formVars, policyVars
  <2> QED
    BY <1>a, <2>1, <2>2, <2>3, FormFrame DEF Goal
<1>7. ASSUME NEW r \in Requests, DedupeAnonymous(r) PROVE Goal'
  <2>1. UNCHANGED formVars
    BY <1>7, <1>b DEF DedupeAnonymous, locals, monthVars, formVars, policyVars
  <2>2. /\ Seeders' = Seeders
        /\ \A q \in Seeders : pc'[q] = pc[q] /\ seen'[q] = seen[q]
    BY <1>7, <1>b DEF DedupeAnonymous, Seeders, Seeding, TypeOK, locals, monthVars,
       formVars, policyVars
  <2>3. FormGranted' \subseteq FormGranted
    BY <1>7, <1>b, <2>1 DEF DedupeAnonymous, FormGranted, FormHolders, Admitted, TypeOK,
       locals, monthVars, formVars, policyVars
  <2> QED
    BY <1>a, <2>1, <2>2, <2>3, FormFrame DEF Goal
<1>8. ASSUME NEW r \in Requests, ClaimMonth(r) PROVE Goal'
  <2>1. UNCHANGED formVars
    BY <1>8, <1>b DEF ClaimMonth, locals, monthVars, formVars, policyVars
  <2>2. /\ Seeders' = Seeders
        /\ \A q \in Seeders : pc'[q] = pc[q] /\ seen'[q] = seen[q]
    BY <1>8, <1>b DEF ClaimMonth, Seeders, Seeding, TypeOK, locals, monthVars,
       formVars, policyVars
  <2>3. FormGranted' \subseteq FormGranted
    BY <1>8, <1>b, <2>1 DEF ClaimMonth, FormGranted, FormHolders, Admitted, TypeOK,
       locals, monthVars, formVars, policyVars
  <2> QED
    BY <1>a, <2>1, <2>2, <2>3, FormFrame DEF Goal
<1>9. ASSUME NEW r \in Requests, RefuseMonth(r) PROVE Goal'
  <2>1. UNCHANGED formVars
    BY <1>9, <1>b DEF RefuseMonth, locals, monthVars, formVars, policyVars
  <2>2. /\ Seeders' = Seeders
        /\ \A q \in Seeders : pc'[q] = pc[q] /\ seen'[q] = seen[q]
    BY <1>9, <1>b DEF RefuseMonth, Seeders, Seeding, TypeOK, locals, monthVars,
       formVars, policyVars
  <2>3. FormGranted' \subseteq FormGranted
    BY <1>9, <1>b, <2>1 DEF RefuseMonth, FormGranted, FormHolders, Admitted, TypeOK,
       locals, monthVars, formVars, policyVars
  <2> QED
    BY <1>a, <2>1, <2>2, <2>3, FormFrame DEF Goal
<1>10. ASSUME NEW r \in Requests, ClaimForm(r) PROVE Goal'
  <2>1. /\ pc[r] = "cap" /\ formUsed' = formUsed + 1
        /\ formSlot' = [formSlot EXCEPT ![r] = TRUE]
        /\ pc' = [pc EXCEPT ![r] = CASE formUsed + 1 = 1       -> "count"
                                     [] formUsed + 1 > FormCap -> "over"
                                     [] OTHER                  -> "enqueue"]
    BY <1>10, <1>b DEF ClaimForm
  <2>2. Seeders = {}
    BY <1>10, <1>b DEF ClaimForm
  <2>3. r \notin FormHolders
    BY <1>c, <2>1 DEF RequestSlots, NoFormSlot, FormHolders
  <2>4. FormHolders' = FormHolders \cup {r}
    BY <2>1 DEF FormHolders, TypeOK
  <2>5. /\ IsFiniteSet(FormHolders')
        /\ Cardinality(FormHolders') = Cardinality(FormHolders) + 1
    BY <1>e, <2>3, <2>4, FS_AddElement
  <2>6. formUsed \in Int
    BY DEF TypeOK
  <2>7. CASE formUsed + 1 = 1
    <3>1. FormHolders = {}
      <4>1. formUsed = 0
        BY <2>6, <2>7
      <4>2. Cardinality(FormHolders) = 0 \/ FormHolders = {}
        BY <1>a, <1>d, <1>e, <2>2, <4>1 DEF FormCount
      <4> QED
        BY <1>e, <4>2, FS_EmptySet
    <3>2. pc' = [pc EXCEPT ![r] = "count"]
      BY <1>b, <1>d, <1>10, <2>7 DEF ClaimForm
    <3>3. Seeders' = {r}
      BY <2>2, <3>2 DEF Seeders, Seeding, TypeOK
    <3>4. FormHolders' = {r} /\ formUsed' = 1
      BY <2>1, <2>4, <2>7, <3>1
    <3>5. pc'[r] = "count"
      BY <3>2 DEF TypeOK
    <3>6. FormGranted' = {}
      BY <3>4, <3>5 DEF FormGranted, Admitted
    <3> QED
      BY <3>3, <3>4, <3>5, <3>6 DEF Goal, FormCount, FormSeeding, FormRoom
  <2>8. CASE formUsed + 1 # 1
    <3>1. formUsed = Cardinality(FormHolders) + PriorRows
      BY <1>a, <2>2, <2>6, <2>8 DEF FormCount
    <3>2. FormCount'
      BY <1>d, <1>e, <2>1, <2>5, <3>1 DEF FormCount
    <3>3. Seeders' = {}
      BY <2>1, <2>2, <2>8 DEF Seeders, Seeding, TypeOK
    <3>4. CASE formUsed + 1 > FormCap
      <4>1. pc' = [pc EXCEPT ![r] = "over"]
        BY <2>1, <2>8, <3>4
      <4>2. FormGranted' \subseteq FormGranted
        BY <2>4, <4>1 DEF FormGranted, FormHolders, Admitted, TypeOK
      <4> QED
        BY <1>a, <3>2, <3>3, <4>2, RoomShrinks DEF Goal, FormSeeding
    <3>5. CASE ~(formUsed + 1 > FormCap)
      <4>1. FormGranted' \subseteq FormHolders'
        BY DEF FormGranted
      <4>2. /\ Cardinality(FormGranted') \in Nat
            /\ Cardinality(FormGranted') <= Cardinality(FormHolders')
        BY <2>5, <4>1, FS_Subset, FS_CardinalityType
      <4>3. FormRoom'
        BY <1>d, <1>e, <2>5, <2>6, <3>1, <3>5, <4>2 DEF FormRoom
      <4> QED
        BY <3>2, <3>3, <4>3 DEF Goal, FormSeeding
    <3> QED
      BY <3>4, <3>5
  <2> QED
    BY <2>7, <2>8
<1>11. ASSUME NEW r \in Requests, CountStored(r) PROVE Goal'
  <2>1. /\ pc[r] = "count" /\ UNCHANGED formVars
        /\ pc' = [pc EXCEPT ![r] = IF StoredCount > 0 THEN "seed"
                                   ELSE "enqueue"]
        /\ seen' = [seen EXCEPT ![r] = StoredCount]
    BY <1>11, <1>b DEF CountStored
  <2>2. r \in Seeders /\ formUsed = 1 /\ FormHolders = {r} /\ Seeders = {r}
    BY <1>a, <2>1 DEF FormSeeding, Seeders, Seeding
  <2>3. {q \in Requests : row[q] = "SUBMITTED"} = {}
    <3> SUFFICES ASSUME NEW q \in Requests, row[q] = "SUBMITTED" PROVE FALSE
      OBVIOUS
    <3>1. pc[q] = "accepted"
      BY DEF RowInv
    <3>2. q \in FormHolders
      BY <1>c, <3>1 DEF RequestSlots, Admitted, FormHolders
    <3> QED
      BY <2>1, <2>2, <3>1, <3>2
  <2>4. StoredCount = PriorRows
    BY <1>d, <2>3, FS_EmptySet DEF StoredCount
  <2>5. FormHolders' = {r} /\ formUsed' = 1
    BY <2>1, <2>2 DEF FormHolders, formVars
  <2>6. CASE StoredCount > 0
    <3>1. pc' = [pc EXCEPT ![r] = "seed"] /\ pc'[r] = "seed"
      BY <2>1, <2>6 DEF TypeOK
    <3>2. Seeders' = {r} /\ seen'[r] = PriorRows
      BY <2>1, <2>2, <2>4, <3>1 DEF Seeders, Seeding, TypeOK
    <3>3. FormGranted' = {}
      BY <2>5, <3>1 DEF FormGranted, Admitted
    <3> QED
      BY <2>5, <3>1, <3>2, <3>3 DEF Goal, FormCount, FormSeeding, FormRoom
  <2>7. CASE ~(StoredCount > 0)
    <3>1. pc' = [pc EXCEPT ![r] = "enqueue"] /\ PriorRows = 0
      BY <1>d, <2>1, <2>4, <2>7
    <3>2. Seeders' = {}
      BY <2>2, <3>1 DEF Seeders, Seeding, TypeOK
    <3>3. Cardinality({r}) = 1 /\ Cardinality(FormGranted') <= 1
      <4>1. FormGranted' \in SUBSET {r}
        BY <2>5 DEF FormGranted
      <4> QED
        BY <4>1, FS_Singleton, FS_Subset
    <3>4. Cardinality(FormGranted') \in Nat
      BY <2>5, FS_Singleton, FS_Subset, FS_CardinalityType DEF FormGranted
    <3> QED
      BY <1>d, <2>5, <3>1, <3>2, <3>3, <3>4
         DEF Goal, FormCount, FormSeeding, FormRoom
  <2> QED
    BY <2>6, <2>7
<1>12. ASSUME NEW r \in Requests, SeedCounter(r) PROVE Goal'
  <2>1. /\ pc[r] = "seed" /\ formUsed' = seen[r] + 1
        /\ UNCHANGED formSlot
        /\ pc' = [pc EXCEPT ![r] = IF seen[r] + 1 > FormCap THEN "over"
                                   ELSE "enqueue"]
    BY <1>12, <1>b DEF SeedCounter
  <2>2. /\ r \in Seeders /\ FormHolders = {r} /\ Seeders = {r}
        /\ seen[r] = PriorRows
    BY <1>a, <2>1 DEF FormSeeding, Seeders, Seeding
  <2>3. FormHolders' = {r} /\ formUsed' = PriorRows + 1
    BY <2>1, <2>2 DEF FormHolders
  <2>4. Cardinality({r}) = 1
    BY FS_Singleton
  <2>5. Seeders' = {}
    BY <2>1, <2>2 DEF Seeders, Seeding, TypeOK
  <2>6. FormCount' /\ FormSeeding'
    BY <1>d, <2>3, <2>4, <2>5 DEF FormCount, FormSeeding
  <2>7. FormRoom'
    <3>1. CASE seen[r] + 1 > FormCap
      <4>1. pc'[r] = "over"
        BY <2>1, <3>1 DEF TypeOK
      <4>2. FormGranted' = {}
        BY <2>3, <4>1 DEF FormGranted, Admitted
      <4> QED
        BY <4>2 DEF FormRoom
    <3>2. CASE ~(seen[r] + 1 > FormCap)
      <4>1. FormGranted' \in SUBSET {r}
        BY <2>3 DEF FormGranted
      <4>2. /\ Cardinality(FormGranted') \in Nat
            /\ Cardinality(FormGranted') <= 1
        <5>1. IsFiniteSet({r})
          BY FS_Singleton
        <5> QED
          BY <2>4, <4>1, <5>1, FS_Subset, FS_CardinalityType
      <4> QED
        BY <1>d, <2>2, <3>2, <4>2 DEF FormRoom
    <3> QED
      BY <3>1, <3>2
  <2> QED
    BY <2>6, <2>7 DEF Goal
<1>13. ASSUME NEW r \in Requests, RefuseForm(r) PROVE Goal'
  <2>1. formSlot[r] /\ pc[r] = "over"
    BY <1>13, <1>c DEF RefuseForm, RequestSlots, InCap
  <2>2. /\ formUsed' = formUsed - 1
        /\ formSlot' = [formSlot EXCEPT ![r] = FALSE]
        /\ pc' = [pc EXCEPT ![r] = "close"]
    BY <1>13, <1>b DEF RefuseForm
  <2> QED
    BY <1>a, <2>1, <2>2, FormReturned DEF Goal, Seeding
<1>14. ASSUME NEW r \in Requests, CloseForm(r) PROVE Goal'
  <2>1. UNCHANGED formVars
    BY <1>14, <1>b DEF CloseForm, locals, monthVars, formVars, policyVars
  <2>2. /\ Seeders' = Seeders
        /\ \A q \in Seeders : pc'[q] = pc[q] /\ seen'[q] = seen[q]
    BY <1>14, <1>b DEF CloseForm, Seeders, Seeding, TypeOK, locals, monthVars,
       formVars, policyVars
  <2>3. FormGranted' \subseteq FormGranted
    BY <1>14, <1>b, <2>1 DEF CloseForm, FormGranted, FormHolders, Admitted, TypeOK,
       locals, monthVars, formVars, policyVars
  <2> QED
    BY <1>a, <2>1, <2>2, <2>3, FormFrame DEF Goal
<1>15. ASSUME NEW r \in Requests, DropPolicy(r) PROVE Goal'
  <2>1. UNCHANGED formVars
    BY <1>15, <1>b DEF DropPolicy, locals, monthVars, formVars, policyVars
  <2>2. /\ Seeders' = Seeders
        /\ \A q \in Seeders : pc'[q] = pc[q] /\ seen'[q] = seen[q]
    BY <1>15, <1>b DEF DropPolicy, Seeders, Seeding, TypeOK, locals, monthVars,
       formVars, policyVars
  <2>3. FormGranted' \subseteq FormGranted
    BY <1>15, <1>b, <2>1 DEF DropPolicy, FormGranted, FormHolders, Admitted, TypeOK,
       locals, monthVars, formVars, policyVars
  <2> QED
    BY <1>a, <2>1, <2>2, <2>3, FormFrame DEF Goal
<1>16. ASSUME NEW r \in Requests, GiveBackMonth(r) PROVE Goal'
  <2>1. UNCHANGED formVars
    BY <1>16, <1>b DEF GiveBackMonth, locals, monthVars, formVars, policyVars, ReleaseMonth
  <2>2. /\ Seeders' = Seeders
        /\ \A q \in Seeders : pc'[q] = pc[q] /\ seen'[q] = seen[q]
    BY <1>16, <1>b DEF GiveBackMonth, Seeders, Seeding, TypeOK, locals, monthVars,
       formVars, policyVars, ReleaseMonth
  <2>3. FormGranted' \subseteq FormGranted
    BY <1>16, <1>b, <2>1 DEF GiveBackMonth, FormGranted, FormHolders, Admitted, TypeOK,
       locals, monthVars, formVars, policyVars, ReleaseMonth
  <2> QED
    BY <1>a, <2>1, <2>2, <2>3, FormFrame DEF Goal
<1>17. ASSUME NEW r \in Requests, Enqueue(r) PROVE Goal'
  <2>1. UNCHANGED formVars
    BY <1>17, <1>b DEF Enqueue, locals, monthVars, formVars, policyVars
  <2>2. /\ Seeders' = Seeders
        /\ \A q \in Seeders : pc'[q] = pc[q] /\ seen'[q] = seen[q]
    BY <1>17, <1>b DEF Enqueue, Seeders, Seeding, TypeOK, locals, monthVars,
       formVars, policyVars
  <2>3. FormGranted' \subseteq FormGranted
    BY <1>17, <1>b, <2>1 DEF Enqueue, FormGranted, FormHolders, Admitted, TypeOK,
       locals, monthVars, formVars, policyVars
  <2> QED
    BY <1>a, <2>1, <2>2, <2>3, FormFrame DEF Goal
<1>18. ASSUME NEW r \in Requests, EnqueueFails(r) PROVE Goal'
  <2>1. UNCHANGED formVars
    BY <1>18, <1>b DEF EnqueueFails, locals, monthVars, formVars, policyVars
  <2>2. /\ Seeders' = Seeders
        /\ \A q \in Seeders : pc'[q] = pc[q] /\ seen'[q] = seen[q]
    BY <1>18, <1>b DEF EnqueueFails, Seeders, Seeding, TypeOK, locals, monthVars,
       formVars, policyVars
  <2>3. FormGranted' \subseteq FormGranted
    BY <1>18, <1>b, <2>1 DEF EnqueueFails, FormGranted, FormHolders, Admitted, TypeOK,
       locals, monthVars, formVars, policyVars
  <2> QED
    BY <1>a, <2>1, <2>2, <2>3, FormFrame DEF Goal
<1>19. ASSUME NEW r \in Requests, UnwindMonth(r) PROVE Goal'
  <2>1. UNCHANGED formVars
    BY <1>19, <1>b DEF UnwindMonth, locals, monthVars, formVars, policyVars, ReleaseMonth
  <2>2. /\ Seeders' = Seeders
        /\ \A q \in Seeders : pc'[q] = pc[q] /\ seen'[q] = seen[q]
    BY <1>19, <1>b DEF UnwindMonth, Seeders, Seeding, TypeOK, locals, monthVars,
       formVars, policyVars, ReleaseMonth
  <2>3. FormGranted' \subseteq FormGranted
    BY <1>19, <1>b, <2>1 DEF UnwindMonth, FormGranted, FormHolders, Admitted, TypeOK,
       locals, monthVars, formVars, policyVars, ReleaseMonth
  <2> QED
    BY <1>a, <2>1, <2>2, <2>3, FormFrame DEF Goal
<1>20. ASSUME NEW r \in Requests, UnwindForm(r) PROVE Goal'
  <2>1. formSlot[r] /\ pc[r] = "unwindForm"
    BY <1>20, <1>c DEF UnwindForm, RequestSlots
  <2>2. /\ formUsed' = formUsed - 1
        /\ formSlot' = [formSlot EXCEPT ![r] = FALSE]
        /\ pc' = [pc EXCEPT ![r] = "rejected"]
    BY <1>20, <1>b DEF UnwindForm
  <2> QED
    BY <1>a, <2>1, <2>2, FormReturned DEF Goal, Seeding
<1>21. ASSUME NEW r \in Requests, Persist(r) PROVE Goal'
  <2>1. UNCHANGED formVars
    BY <1>21, <1>b DEF Persist, locals, monthVars, formVars, policyVars
  <2>2. /\ Seeders' = Seeders
        /\ \A q \in Seeders : pc'[q] = pc[q] /\ seen'[q] = seen[q]
    BY <1>21, <1>b DEF Persist, Seeders, Seeding, TypeOK, locals, monthVars,
       formVars, policyVars
  <2>3. FormGranted' \subseteq FormGranted
    BY <1>21, <1>b, <2>1 DEF Persist, FormGranted, FormHolders, Admitted, TypeOK,
       locals, monthVars, formVars, policyVars
  <2> QED
    BY <1>a, <2>1, <2>2, <2>3, FormFrame DEF Goal
<1>22. ASSUME NEW r \in Requests, JobFails(r) PROVE Goal'
  <2>1. UNCHANGED formVars
    BY <1>22, <1>b DEF JobFails, locals, monthVars, formVars, policyVars
  <2>2. /\ Seeders' = Seeders
        /\ \A q \in Seeders : pc'[q] = pc[q] /\ seen'[q] = seen[q]
    BY <1>22, <1>b DEF JobFails, Seeders, Seeding, TypeOK, locals, monthVars,
       formVars, policyVars
  <2>3. FormGranted' \subseteq FormGranted
    BY <1>22, <1>b, <2>1 DEF JobFails, FormGranted, FormHolders, Admitted, TypeOK,
       locals, monthVars, formVars, policyVars
  <2> QED
    BY <1>a, <2>1, <2>2, <2>3, FormFrame DEF Goal
<1>23. ASSUME NEW r \in Requests, DeleteSubmission(r) PROVE Goal'
  <2>1. UNCHANGED formVars
    BY <1>23, <1>b DEF DeleteSubmission, locals, monthVars, formVars, policyVars
  <2>2. /\ Seeders' = Seeders
        /\ \A q \in Seeders : pc'[q] = pc[q] /\ seen'[q] = seen[q]
    BY <1>23, <1>b DEF DeleteSubmission, Seeders, Seeding, TypeOK, locals, monthVars,
       formVars, policyVars
  <2>3. FormGranted' \subseteq FormGranted
    BY <1>23, <1>b, <2>1 DEF DeleteSubmission, FormGranted, FormHolders, Admitted, TypeOK,
       locals, monthVars, formVars, policyVars
  <2> QED
    BY <1>a, <2>1, <2>2, <2>3, FormFrame DEF Goal
<1>24. ASSUME NEW r \in Requests, Crash(r) PROVE Goal'
  <2>1. UNCHANGED formVars
    BY <1>24, <1>b DEF Crash, locals, monthVars, formVars, policyVars
  <2>2. /\ Seeders' = Seeders
        /\ \A q \in Seeders : pc'[q] = pc[q] /\ seen'[q] = seen[q]
    BY <1>24, <1>b DEF Crash, Seeders, Seeding, TypeOK, locals, monthVars,
       formVars, policyVars
  <2>3. FormGranted' \subseteq FormGranted
    BY <1>24, <1>b, <2>1 DEF Crash, FormGranted, FormHolders, Admitted, TypeOK,
       locals, monthVars, formVars, policyVars
  <2> QED
    BY <1>a, <2>1, <2>2, <2>3, FormFrame DEF Goal
<1>25. CASE OwnerEdit
  <2>1. UNCHANGED formVars
    BY <1>25, <1>b DEF OwnerEdit, locals, monthVars, formVars, policyVars
  <2>2. /\ Seeders' = Seeders
        /\ \A q \in Seeders : pc'[q] = pc[q] /\ seen'[q] = seen[q]
    BY <1>25, <1>b DEF OwnerEdit, Seeders, Seeding, TypeOK, locals, monthVars,
       formVars, policyVars
  <2>3. FormGranted' \subseteq FormGranted
    BY <1>25, <1>b, <2>1 DEF OwnerEdit, FormGranted, FormHolders, Admitted, TypeOK,
       locals, monthVars, formVars, policyVars
  <2> QED
    BY <1>a, <2>1, <2>2, <2>3, FormFrame DEF Goal
<1>26. CASE InvalidateIngestPolicy
  <2>1. UNCHANGED formVars
    BY <1>26, <1>b DEF InvalidateIngestPolicy, locals, monthVars, formVars, policyVars
  <2>2. /\ Seeders' = Seeders
        /\ \A q \in Seeders : pc'[q] = pc[q] /\ seen'[q] = seen[q]
    BY <1>26, <1>b DEF InvalidateIngestPolicy, Seeders, Seeding, TypeOK, locals, monthVars,
       formVars, policyVars
  <2>3. FormGranted' \subseteq FormGranted
    BY <1>26, <1>b, <2>1 DEF InvalidateIngestPolicy, FormGranted, FormHolders, Admitted, TypeOK,
       locals, monthVars, formVars, policyVars
  <2> QED
    BY <1>a, <2>1, <2>2, <2>3, FormFrame DEF Goal
<1>27. CASE PolicyExpires
  <2>1. UNCHANGED formVars
    BY <1>27, <1>b DEF PolicyExpires, locals, monthVars, formVars, policyVars
  <2>2. /\ Seeders' = Seeders
        /\ \A q \in Seeders : pc'[q] = pc[q] /\ seen'[q] = seen[q]
    BY <1>27, <1>b DEF PolicyExpires, Seeders, Seeding, TypeOK, locals, monthVars,
       formVars, policyVars
  <2>3. FormGranted' \subseteq FormGranted
    BY <1>27, <1>b, <2>1 DEF PolicyExpires, FormGranted, FormHolders, Admitted, TypeOK,
       locals, monthVars, formVars, policyVars
  <2> QED
    BY <1>a, <2>1, <2>2, <2>3, FormFrame DEF Goal
<1>28. CASE FormCounterExpires
  BY <1>28, <1>b DEF FormCounterExpires
<1>29. CASE NextMonth
  <2>1. UNCHANGED formVars
    BY <1>29, <1>b DEF NextMonth, locals, monthVars, formVars, policyVars
  <2>2. /\ Seeders' = Seeders
        /\ \A q \in Seeders : pc'[q] = pc[q] /\ seen'[q] = seen[q]
    BY <1>29, <1>b DEF NextMonth, Seeders, Seeding, TypeOK, locals, monthVars,
       formVars, policyVars
  <2>3. FormGranted' \subseteq FormGranted
    BY <1>29, <1>b, <2>1 DEF NextMonth, FormGranted, FormHolders, Admitted, TypeOK,
       locals, monthVars, formVars, policyVars
  <2> QED
    BY <1>a, <2>1, <2>2, <2>3, FormFrame DEF Goal
<1>30. CASE UNCHANGED vars
  <2>1. /\ UNCHANGED <<pc, seen>> /\ UNCHANGED formVars
        /\ Seeders' = Seeders /\ FormGranted' = FormGranted
    BY <1>30 DEF vars, locals, formVars, Seeders, FormGranted, FormHolders
  <2> QED
    BY <1>a, <2>1, FormFrame DEF Goal
<1> QED
  BY <1>1, <1>2, <1>3, <1>4, <1>5, <1>6, <1>7, <1>8, <1>9, <1>10, <1>11, <1>12,
     <1>13, <1>14, <1>15, <1>16, <1>17, <1>18, <1>19, <1>20, <1>21, <1>22,
     <1>23, <1>24, <1>25, <1>26, <1>27, <1>28, <1>29, <1>30 DEF Next, Submit

-----------------------------------------------------------------------------
\* Every step but the duplicate check itself adds nobody past the check.
LEMMA DedupeFrame ==
    ASSUME DedupeInv, ~AllowMultiple, Never({"store_error"}),
           UNCHANGED markers,
           \A q \in Requests : PastDedupe(q)' => PastDedupe(q)
    PROVE  DedupeInv'
BY DEF DedupeInv

\* Every step keeps a marker for each anonymous respondent past the check.
LEMMA DedupeStep == TypeOK /\ DedupeInv /\ [Next]_vars => DedupeInv'
<1> SUFFICES ASSUME TypeOK, DedupeInv, [Next]_vars,
                    ~AllowMultiple, Never({"store_error"})'
             PROVE  DedupeInv'
  BY DEF DedupeInv
<1>a. Never({"store_error"})
  BY NeverStep
<1>b. "store_error" \notin faults'
  BY DEF Never
<1> USE DEF Step, StoreError, ReleaseMonth
<1>1. ASSUME NEW r \in Requests, ReadCachedPolicy(r) PROVE DedupeInv'
  <2>1. UNCHANGED markers
    BY <1>1, <1>b DEF ReadCachedPolicy, policyVars
  <2>2. \A q \in Requests : PastDedupe(q)' => PastDedupe(q)
    BY <1>1, <1>b DEF ReadCachedPolicy, PastDedupe, TypeOK, Running, Unclaimed
  <2> QED
    BY <1>a, <2>1, <2>2, DedupeFrame
<1>2. ASSUME NEW r \in Requests, LoadPolicy(r) PROVE DedupeInv'
  <2>1. UNCHANGED markers
    BY <1>2, <1>b DEF LoadPolicy, policyVars
  <2>2. \A q \in Requests : PastDedupe(q)' => PastDedupe(q)
    BY <1>2, <1>b DEF LoadPolicy, PastDedupe, TypeOK, Running, Unclaimed
  <2> QED
    BY <1>a, <2>1, <2>2, DedupeFrame
<1>3. ASSUME NEW r \in Requests, FillPolicy(r) PROVE DedupeInv'
  <2>1. UNCHANGED markers
    BY <1>3, <1>b DEF FillPolicy, policyVars
  <2>2. \A q \in Requests : PastDedupe(q)' => PastDedupe(q)
    BY <1>3, <1>b DEF FillPolicy, PastDedupe, TypeOK, Running, Unclaimed
  <2> QED
    BY <1>a, <2>1, <2>2, DedupeFrame
<1>4. ASSUME NEW r \in Requests, Refuse(r) PROVE DedupeInv'
  <2>1. UNCHANGED markers
    BY <1>4, <1>b DEF Refuse, policyVars
  <2>2. \A q \in Requests : PastDedupe(q)' => PastDedupe(q)
    BY <1>4, <1>b DEF Refuse, PastDedupe, TypeOK, Running, Unclaimed
  <2> QED
    BY <1>a, <2>1, <2>2, DedupeFrame
<1>5. ASSUME NEW r \in Requests, PassChecks(r) PROVE DedupeInv'
  <2>1. UNCHANGED markers
    BY <1>5, <1>b DEF PassChecks, policyVars
  <2>2. \A q \in Requests : PastDedupe(q)' => PastDedupe(q)
    BY <1>5, <1>b DEF PassChecks, PastDedupe, TypeOK, Running, Unclaimed
  <2> QED
    BY <1>a, <2>1, <2>2, DedupeFrame
<1>6. ASSUME NEW r \in Requests, DedupeSignedIn(r) PROVE DedupeInv'
  <2>1. UNCHANGED markers
    BY <1>6, <1>b DEF DedupeSignedIn, policyVars
  <2>2. \A q \in Requests : PastDedupe(q)' => PastDedupe(q)
    BY <1>6, <1>b DEF DedupeSignedIn, PastDedupe, TypeOK, Running, Unclaimed
  <2> QED
    BY <1>a, <2>1, <2>2, DedupeFrame
<1>7. ASSUME NEW r \in Requests, DedupeAnonymous(r) PROVE DedupeInv'
  <2>1. CASE RespondentOf[r] \in markers
    <3>1. UNCHANGED markers
      BY <1>7, <1>b, <2>1 DEF DedupeAnonymous
    <3>2. \A q \in Requests : PastDedupe(q)' => PastDedupe(q)
      BY <1>7, <1>b, <2>1 DEF DedupeAnonymous, PastDedupe, TypeOK, Running,
         Unclaimed
    <3> QED
      BY <1>a, <3>1, <3>2, DedupeFrame
  <2>2. CASE RespondentOf[r] \notin markers
    <3>1. /\ markers' = markers \cup {RespondentOf[r]}
          /\ pc' = [pc EXCEPT ![r] = "month"]
      BY <1>7, <1>b, <2>2 DEF DedupeAnonymous
    <3>2. \A q \in Requests : PastDedupe(q)' => q = r \/ PastDedupe(q)
      BY <3>1 DEF PastDedupe, TypeOK
    <3>3. \A q \in Requests : PastDedupe(q) => RespondentOf[q] # RespondentOf[r]
      BY <1>a, <2>2 DEF DedupeInv
    <3> QED
      BY <1>a, <3>1, <3>2, <3>3 DEF DedupeInv
  <2> QED
    BY <2>1, <2>2
<1>8. ASSUME NEW r \in Requests, ClaimMonth(r) PROVE DedupeInv'
  <2>1. UNCHANGED markers
    BY <1>8, <1>b DEF ClaimMonth, policyVars
  <2>2. \A q \in Requests : PastDedupe(q)' => PastDedupe(q)
    BY <1>8, <1>b DEF ClaimMonth, PastDedupe, TypeOK, Running, Unclaimed
  <2> QED
    BY <1>a, <2>1, <2>2, DedupeFrame
<1>9. ASSUME NEW r \in Requests, RefuseMonth(r) PROVE DedupeInv'
  <2>1. UNCHANGED markers
    BY <1>9, <1>b DEF RefuseMonth, policyVars
  <2>2. \A q \in Requests : PastDedupe(q)' => PastDedupe(q)
    BY <1>9, <1>b DEF RefuseMonth, PastDedupe, TypeOK, Running, Unclaimed
  <2> QED
    BY <1>a, <2>1, <2>2, DedupeFrame
<1>10. ASSUME NEW r \in Requests, ClaimForm(r) PROVE DedupeInv'
  <2>1. UNCHANGED markers
    BY <1>10, <1>b DEF ClaimForm, policyVars
  <2>2. \A q \in Requests : PastDedupe(q)' => PastDedupe(q)
    BY <1>10, <1>b DEF ClaimForm, PastDedupe, TypeOK, Running, Unclaimed
  <2> QED
    BY <1>a, <2>1, <2>2, DedupeFrame
<1>11. ASSUME NEW r \in Requests, CountStored(r) PROVE DedupeInv'
  <2>1. UNCHANGED markers
    BY <1>11, <1>b DEF CountStored, policyVars
  <2>2. \A q \in Requests : PastDedupe(q)' => PastDedupe(q)
    BY <1>11, <1>b DEF CountStored, PastDedupe, TypeOK, Running, Unclaimed
  <2> QED
    BY <1>a, <2>1, <2>2, DedupeFrame
<1>12. ASSUME NEW r \in Requests, SeedCounter(r) PROVE DedupeInv'
  <2>1. UNCHANGED markers
    BY <1>12, <1>b DEF SeedCounter, policyVars
  <2>2. \A q \in Requests : PastDedupe(q)' => PastDedupe(q)
    BY <1>12, <1>b DEF SeedCounter, PastDedupe, TypeOK, Running, Unclaimed
  <2> QED
    BY <1>a, <2>1, <2>2, DedupeFrame
<1>13. ASSUME NEW r \in Requests, RefuseForm(r) PROVE DedupeInv'
  <2>1. UNCHANGED markers
    BY <1>13, <1>b DEF RefuseForm, policyVars
  <2>2. \A q \in Requests : PastDedupe(q)' => PastDedupe(q)
    BY <1>13, <1>b DEF RefuseForm, PastDedupe, TypeOK, Running, Unclaimed
  <2> QED
    BY <1>a, <2>1, <2>2, DedupeFrame
<1>14. ASSUME NEW r \in Requests, CloseForm(r) PROVE DedupeInv'
  <2>1. UNCHANGED markers
    BY <1>14, <1>b DEF CloseForm, policyVars
  <2>2. \A q \in Requests : PastDedupe(q)' => PastDedupe(q)
    BY <1>14, <1>b DEF CloseForm, PastDedupe, TypeOK, Running, Unclaimed
  <2> QED
    BY <1>a, <2>1, <2>2, DedupeFrame
<1>15. ASSUME NEW r \in Requests, DropPolicy(r) PROVE DedupeInv'
  <2>1. UNCHANGED markers
    BY <1>15, <1>b DEF DropPolicy, policyVars
  <2>2. \A q \in Requests : PastDedupe(q)' => PastDedupe(q)
    BY <1>15, <1>b DEF DropPolicy, PastDedupe, TypeOK, Running, Unclaimed
  <2> QED
    BY <1>a, <2>1, <2>2, DedupeFrame
<1>16. ASSUME NEW r \in Requests, GiveBackMonth(r) PROVE DedupeInv'
  <2>1. UNCHANGED markers
    BY <1>16, <1>b DEF GiveBackMonth, policyVars
  <2>2. \A q \in Requests : PastDedupe(q)' => PastDedupe(q)
    BY <1>16, <1>b DEF GiveBackMonth, PastDedupe, TypeOK, Running, Unclaimed
  <2> QED
    BY <1>a, <2>1, <2>2, DedupeFrame
<1>17. ASSUME NEW r \in Requests, Enqueue(r) PROVE DedupeInv'
  <2>1. UNCHANGED markers
    BY <1>17, <1>b DEF Enqueue, policyVars
  <2>2. \A q \in Requests : PastDedupe(q)' => PastDedupe(q)
    BY <1>17, <1>b DEF Enqueue, PastDedupe, TypeOK, Running, Unclaimed
  <2> QED
    BY <1>a, <2>1, <2>2, DedupeFrame
<1>18. ASSUME NEW r \in Requests, EnqueueFails(r) PROVE DedupeInv'
  <2>1. UNCHANGED markers
    BY <1>18, <1>b DEF EnqueueFails, policyVars
  <2>2. \A q \in Requests : PastDedupe(q)' => PastDedupe(q)
    BY <1>18, <1>b DEF EnqueueFails, PastDedupe, TypeOK, Running, Unclaimed
  <2> QED
    BY <1>a, <2>1, <2>2, DedupeFrame
<1>19. ASSUME NEW r \in Requests, UnwindMonth(r) PROVE DedupeInv'
  <2>1. UNCHANGED markers
    BY <1>19, <1>b DEF UnwindMonth, policyVars
  <2>2. \A q \in Requests : PastDedupe(q)' => PastDedupe(q)
    BY <1>19, <1>b DEF UnwindMonth, PastDedupe, TypeOK, Running, Unclaimed
  <2> QED
    BY <1>a, <2>1, <2>2, DedupeFrame
<1>20. ASSUME NEW r \in Requests, UnwindForm(r) PROVE DedupeInv'
  <2>1. UNCHANGED markers
    BY <1>20, <1>b DEF UnwindForm, policyVars
  <2>2. \A q \in Requests : PastDedupe(q)' => PastDedupe(q)
    BY <1>20, <1>b DEF UnwindForm, PastDedupe, TypeOK, Running, Unclaimed
  <2> QED
    BY <1>a, <2>1, <2>2, DedupeFrame
<1>21. ASSUME NEW r \in Requests, Persist(r) PROVE DedupeInv'
  <2>1. UNCHANGED markers
    BY <1>21, <1>b DEF Persist, policyVars
  <2>2. \A q \in Requests : PastDedupe(q)' => PastDedupe(q)
    BY <1>21, <1>b DEF Persist, PastDedupe, TypeOK, Running, Unclaimed
  <2> QED
    BY <1>a, <2>1, <2>2, DedupeFrame
<1>22. ASSUME NEW r \in Requests, JobFails(r) PROVE DedupeInv'
  <2>1. UNCHANGED markers
    BY <1>22, <1>b DEF JobFails, policyVars
  <2>2. \A q \in Requests : PastDedupe(q)' => PastDedupe(q)
    BY <1>22, <1>b DEF JobFails, PastDedupe, TypeOK, Running, Unclaimed
  <2> QED
    BY <1>a, <2>1, <2>2, DedupeFrame
<1>23. ASSUME NEW r \in Requests, DeleteSubmission(r) PROVE DedupeInv'
  <2>1. UNCHANGED markers
    BY <1>23, <1>b DEF DeleteSubmission, policyVars
  <2>2. \A q \in Requests : PastDedupe(q)' => PastDedupe(q)
    BY <1>23, <1>b DEF DeleteSubmission, PastDedupe, TypeOK, Running, Unclaimed
  <2> QED
    BY <1>a, <2>1, <2>2, DedupeFrame
<1>24. ASSUME NEW r \in Requests, Crash(r) PROVE DedupeInv'
  <2>1. UNCHANGED markers
    BY <1>24, <1>b DEF Crash, policyVars
  <2>2. \A q \in Requests : PastDedupe(q)' => PastDedupe(q)
    BY <1>24, <1>b DEF Crash, PastDedupe, TypeOK, Running, Unclaimed
  <2> QED
    BY <1>a, <2>1, <2>2, DedupeFrame
<1>25. CASE OwnerEdit
  <2>1. UNCHANGED markers
    BY <1>25, <1>b DEF OwnerEdit, policyVars
  <2>2. \A q \in Requests : PastDedupe(q)' => PastDedupe(q)
    BY <1>25, <1>b DEF OwnerEdit, PastDedupe, TypeOK, Running, Unclaimed
  <2> QED
    BY <1>a, <2>1, <2>2, DedupeFrame
<1>26. CASE InvalidateIngestPolicy
  <2>1. UNCHANGED markers
    BY <1>26, <1>b DEF InvalidateIngestPolicy, policyVars
  <2>2. \A q \in Requests : PastDedupe(q)' => PastDedupe(q)
    BY <1>26, <1>b DEF InvalidateIngestPolicy, PastDedupe, TypeOK, Running, Unclaimed
  <2> QED
    BY <1>a, <2>1, <2>2, DedupeFrame
<1>27. CASE PolicyExpires
  <2>1. UNCHANGED markers
    BY <1>27, <1>b DEF PolicyExpires, policyVars
  <2>2. \A q \in Requests : PastDedupe(q)' => PastDedupe(q)
    BY <1>27, <1>b DEF PolicyExpires, PastDedupe, TypeOK, Running, Unclaimed
  <2> QED
    BY <1>a, <2>1, <2>2, DedupeFrame
<1>28. CASE FormCounterExpires
  <2>1. UNCHANGED markers
    BY <1>28, <1>b DEF FormCounterExpires, policyVars
  <2>2. \A q \in Requests : PastDedupe(q)' => PastDedupe(q)
    BY <1>28, <1>b DEF FormCounterExpires, PastDedupe, TypeOK, Running, Unclaimed
  <2> QED
    BY <1>a, <2>1, <2>2, DedupeFrame
<1>29. CASE NextMonth
  <2>1. UNCHANGED markers
    BY <1>29, <1>b DEF NextMonth, policyVars
  <2>2. \A q \in Requests : PastDedupe(q)' => PastDedupe(q)
    BY <1>29, <1>b DEF NextMonth, PastDedupe, TypeOK, Running, Unclaimed
  <2> QED
    BY <1>a, <2>1, <2>2, DedupeFrame
<1>30. CASE UNCHANGED vars
  BY <1>30, <1>a DEF vars, DedupeInv, PastDedupe
<1> QED
  BY <1>1, <1>2, <1>3, <1>4, <1>5, <1>6, <1>7, <1>8, <1>9, <1>10, <1>11, <1>12,
     <1>13, <1>14, <1>15, <1>16, <1>17, <1>18, <1>19, <1>20, <1>21, <1>22,
     <1>23, <1>24, <1>25, <1>26, <1>27, <1>28, <1>29, <1>30 DEF Next, Submit

-----------------------------------------------------------------------------
IngestInv == TypeOK /\ RowInv /\ SlotsInv /\ MonthInv /\ FormInv /\ DedupeInv

\* The inductive invariant of submitForm: the shapes of the variables, and the
\* four strengthenings the properties below follow from.
THEOREM IngestInvariant == Spec => []IngestInv
<1>1. Init => IngestInv
  <2> SUFFICES ASSUME Init PROVE IngestInv
    OBVIOUS
  <2>1. TypeOK
    BY IngestAssumption DEF Init, TypeOK, Form, NotCached, Running, Finished,
       MonthIds
  <2>2. RowInv /\ SlotsInv /\ DedupeInv
    BY DEF Init, RowInv, SlotsInv, RequestSlots, Returned, DedupeInv, PastDedupe,
       Unclaimed, NoFormSlot, InCap, Admitted, Running
  <2>3. /\ FormHolders = {} /\ FormGranted = {} /\ Seeders = {}
        /\ \A m \in MonthIds : /\ MonthHolders(m) = {} /\ MonthGranted(m) = {}
                               /\ Misplaced(m) = {}
    BY DEF Init, FormHolders, FormGranted, Seeders, Seeding, MonthHolders,
       MonthGranted, Misplaced, MonthIds
  <2>4. MonthInv /\ FormInv
    <3>1. Cardinality({}) = 0
      BY FS_EmptySet
    <3>2. \A m \in MonthIds : MonthOK(m)
      <4> SUFFICES ASSUME NEW m \in MonthIds PROVE MonthOK(m)
        OBVIOUS
      <4>1. /\ monthUsed[m] = 0 /\ MonthHolders(m) = {}
            /\ MonthGranted(m) = {} /\ Misplaced(m) = {}
        BY <2>3 DEF Init
      <4> QED BY <3>1, <4>1, IngestAssumption DEF MonthOK
    <3>3. FormCount /\ FormSeeding /\ FormRoom
      BY <2>3 DEF Init, FormCount, FormSeeding, FormRoom
    <3> QED BY <3>2, <3>3 DEF MonthInv, FormInv
  <2> QED
    BY <2>1, <2>2, <2>4 DEF IngestInv
<1>2. IngestInv /\ [Next]_vars => IngestInv'
  BY TypeStep, RowStep, SlotsStep, MonthStep, FormStep, DedupeStep
     DEF IngestInv
<1> QED
  BY <1>1, <1>2, PTL DEF Spec

\* For any number of concurrent requests, a form takes no more responses than
\* its cap unless Redis failed, the counter expired or seeding was interrupted.
THEOREM FormCapHolds == Spec => []FormCapRespected
<1>1. IngestInv => FormCapRespected
  <2> SUFFICES ASSUME IngestInv, FormCap > 0, Accepted # {}, Never(FormFaults)
               PROVE  PriorRows + Cardinality(Accepted) <= FormCap
    BY DEF FormCapRespected, FormFaults
  <2>1. \A r \in Requests : RequestSlots(r)
    BY DEF IngestInv, SlotsInv, Never, FormFaults
  <2>2. Accepted \subseteq FormGranted
    BY <2>1 DEF IngestInv, RowInv, Accepted, FormGranted, FormHolders,
       RequestSlots, Admitted
  <2>3. PriorRows + Cardinality(FormGranted) <= FormCap
    BY <2>2 DEF IngestInv, FormInv, FormRoom
  <2>4. IsFiniteSet(FormGranted) /\ Cardinality(FormGranted) \in Nat
    BY StoredCountType DEF FormGranted, FormHolders
  <2>5. /\ Cardinality(Accepted) \in Nat
        /\ Cardinality(Accepted) <= Cardinality(FormGranted)
    BY <2>2, <2>4, FS_Subset, FS_CardinalityType
  <2> QED
    BY <2>3, <2>4, <2>5, IngestAssumption
<1> QED
  BY <1>1, IngestInvariant, PTL

\* Both promises about the months follow from the invariant.
LEMMA MonthsFollow == IngestInv => MonthCounterExact /\ MonthlyQuotaRespected
<1> SUFFICES ASSUME IngestInv, Never({"store_error"}), NEW m \in MonthIds
             PROVE  /\ monthUsed[m] = Cardinality(MonthHolders(m))
                                      - Cardinality(Misplaced(m))
                    /\ Cardinality(Accepted \cap MonthHolders(m))
                          <= MonthlyMax + Cardinality(Misplaced(m))
    BY DEF MonthCounterExact, MonthlyQuotaRespected
<1>1. MonthOK(m)
    BY DEF IngestInv, MonthInv
<1>2. Accepted \cap MonthHolders(m) \subseteq MonthGranted(m)
    BY DEF IngestInv, RowInv, Accepted, MonthHolders, MonthGranted
<1>3. /\ IsFiniteSet(MonthGranted(m)) /\ Cardinality(MonthGranted(m)) \in Nat
      /\ Cardinality(Misplaced(m)) \in Nat
    BY StoredCountType DEF MonthGranted, MonthHolders, Misplaced
<1>4. /\ Cardinality(Accepted \cap MonthHolders(m)) \in Nat
      /\ Cardinality(Accepted \cap MonthHolders(m))
            <= Cardinality(MonthGranted(m))
    BY <1>2, <1>3, FS_Subset, FS_CardinalityType
<1> QED
    BY <1>1, <1>3, <1>4, IngestAssumption DEF MonthOK

\* The monthly counters are exact, slots released in a later month than the one
\* they were taken in accounted for, unless Redis failed.
THEOREM MonthCounterHolds == Spec => []MonthCounterExact
<1>1. IngestInv => MonthCounterExact
  BY MonthsFollow
<1> QED
  BY <1>1, IngestInvariant, PTL

\* No month takes more submissions than the quota and the refusals charged to it
\* in place of an earlier month, unless Redis failed.
THEOREM MonthlyQuotaHolds == Spec => []MonthlyQuotaRespected
<1>1. IngestInv => MonthlyQuotaRespected
  BY MonthsFollow
<1> QED
  BY <1>1, IngestInvariant, PTL

\* At every interleaving, while Redis answers, an accepted request keeps both
\* slots and a refused one none, but for the slot of a month it claimed in and
\* released after that month's end, from a later month's counter.
THEOREM SlotsHold == Spec => []SlotsFollowOutcome
<1>1. IngestInv => SlotsFollowOutcome
  BY DEF IngestInv, SlotsInv, SlotsFollowOutcome, RequestSlots, Returned,
     Admitted
<1> QED
  BY <1>1, IngestInvariant, PTL

\* However many requests one anonymous respondent sends, and however they
\* interleave, one is accepted at most.
THEOREM OneAnonymousResponseHolds == Spec => []OneAnonymousResponse
<1>1. IngestInv => OneAnonymousResponse
  BY DEF IngestInv, RowInv, DedupeInv, OneAnonymousResponse, Accepted,
     PastDedupe, Unclaimed
<1> QED
  BY <1>1, IngestInvariant, PTL

=============================================================================
