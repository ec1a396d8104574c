-------------------------- MODULE SubmissionIngest --------------------------
(***************************************************************************)
(* Public submission of one form: SubmissionsService.submitForm, from the  *)
(* cached ingest policy to the enqueued job.  Every request runs the same  *)
(* straight-line handler; the steps below are its awaits, so any two       *)
(* requests interleave at any of them, over the Redis counters, the dedupe *)
(* markers, the cached policy and the form's row.                          *)
(*                                                                         *)
(* The worker that drains the queue is abstracted to Persist and JobFails. *)
(***************************************************************************)
EXTENDS Integers, FiniteSets

CONSTANTS
    Requests,        \* calls of POST /forms/:id/submit
    Respondents,     \* a fingerprint, an address hash or a user id
    RespondentOf,    \* who sends a request
    SignedIn,        \* the requests that carry a user id
    AllowMultiple,   \* policy.allowMultiple
    MonthlyMax,      \* policy.maxSubmissionsMonth
    FormCap,         \* policy.maxSubmissions, 0 when the form has none
    PriorRows,       \* SUBMITTED rows stored before the form had a counter
    Months,          \* number of calendar months the run may span
    Events           \* the environment events this instance allows

EventKinds == {"store_error", "counter_expired", "month_rollover",
               "crash", "owner_edit", "moderation"}

ASSUME IngestAssumption ==
    /\ IsFiniteSet(Requests)
    /\ RespondentOf \in [Requests -> Respondents]
    /\ SignedIn \subseteq Requests
    /\ AllowMultiple \in BOOLEAN
    /\ MonthlyMax \in Nat /\ FormCap \in Nat /\ PriorRows \in Nat
    /\ Months \in Nat \ {0}
    /\ Events \subseteq EventKinds

VARIABLES
    pc,          \* where each request is in submitForm
    snap,        \* the IngestPolicy a request works from
    seen,        \* the COUNT(*) a request seeds the form counter with
    monthSlot,   \* month whose counter counts a request, 0 when none does
    gaveBack,    \* month whose counter a request decremented in place of the
                 \* one that counts it, 0 when none
    formSlot,    \* whether a request holds a slot of the form counter
    row,         \* what became of the submission a request enqueued
    form,        \* the form's row: its status and its deletedAt
    cache,       \* Redis ingest_policy:<form>
    owner,       \* a forms endpoint between its write and its invalidation
    month,       \* the current calendar month
    monthUsed,   \* Redis quota:sub:<org>:<month>
    formUsed,    \* Redis quota:form:<form>; an absent key counts as 0
    markers,     \* Redis dedupe:<form>:...
    faults       \* history: what went wrong so far

locals == <<snap, seen>>
monthVars == <<monthSlot, gaveBack, monthUsed>>
formVars == <<formSlot, formUsed>>
policyVars == <<form, cache, owner>>
vars == <<pc, locals, monthVars, formVars, row, policyVars, month, markers,
          faults>>

MonthIds == 1 .. Months
NotCached == [status |-> "NotCached", deleted |-> FALSE]
Form == [status : {"PUBLISHED", "CLOSED"}, deleted : BOOLEAN]
Running == {"start", "load", "fill", "checks", "dedupe", "month", "monthOver",
            "cap", "count", "seed", "over", "close", "drop", "giveBack",
            "enqueue", "unwind", "unwindForm"}
Finished == {"accepted", "rejected", "crashed"}
FaultKinds == {"store_error", "counter_expired", "seed_interrupted"}

\* The requests that an INCR made the seeder of the form counter.
Seeding == {"count", "seed"}
Seeders == {r \in Requests : pc[r] \in Seeding}

FormHolders == {r \in Requests : formSlot[r]}
MonthHolders(m) == {r \in Requests : monthSlot[r] = m}
Misplaced(m) == {r \in Requests : gaveBack[r] = m}
Accepted == {r \in Requests : row[r] # "none"}
StoredCount == PriorRows + Cardinality({r \in Requests : row[r] = "SUBMITTED"})

Init ==
    /\ pc = [r \in Requests |-> "start"]
    /\ snap = [r \in Requests |-> NotCached]
    /\ seen = [r \in Requests |-> 0]
    /\ monthSlot = [r \in Requests |-> 0]
    /\ gaveBack = [r \in Requests |-> 0]
    /\ formSlot = [r \in Requests |-> FALSE]
    /\ row = [r \in Requests |-> "none"]
    /\ form = [status |-> "PUBLISHED", deleted |-> FALSE]
    /\ cache = NotCached
    /\ owner = "idle"
    /\ month = 1
    /\ monthUsed = [m \in MonthIds |-> 0]
    /\ formUsed = 0
    /\ markers = {}
    /\ faults = {}

Step(r, from, to) == pc[r] = from /\ pc' = [pc EXCEPT ![r] = to]
StoreError == "store_error" \in Events /\ faults' = faults \cup {"store_error"}

-----------------------------------------------------------------------------
(* loadIngestPolicy: GET, else SELECT and SET EX.  A failing GET falls     *)
(* back to the database and a failing SET is ignored.                      *)

ReadCachedPolicy(r) ==
    /\ \/ /\ cache # NotCached
          /\ Step(r, "start", "checks")
          /\ snap' = [snap EXCEPT ![r] = cache]
       \/ /\ cache = NotCached \/ "store_error" \in Events
          /\ Step(r, "start", "load")
          /\ UNCHANGED snap
    /\ UNCHANGED <<seen, monthVars, formVars, row, policyVars, month, markers,
                   faults>>

LoadPolicy(r) ==
    /\ Step(r, "load", "fill")
    /\ snap' = [snap EXCEPT ![r] = form]
    /\ UNCHANGED <<seen, monthVars, formVars, row, policyVars, month, markers,
                   faults>>

FillPolicy(r) ==
    /\ Step(r, "fill", "checks")
    /\ \/ cache' = snap[r]
       \/ "store_error" \in Events /\ UNCHANGED cache
    /\ UNCHANGED <<locals, monthVars, formVars, row, form, owner, month,
                   markers, faults>>

-----------------------------------------------------------------------------
(* Everything between the policy and the first claim only reads: status,   *)
(* expiry, sign-in, password, version, captcha, subject, answers and file  *)
(* references.  Whichever of them refuses, nothing has been claimed yet.   *)

Refuse(r) ==
    /\ Step(r, "checks", "rejected")
    /\ snap' = [snap EXCEPT ![r] = NotCached]
    /\ UNCHANGED <<seen, monthVars, formVars, row, policyVars, month, markers,
                   faults>>

PassChecks(r) ==
    /\ snap[r].status = "PUBLISHED" /\ ~snap[r].deleted
    /\ Step(r, "checks", IF AllowMultiple THEN "month" ELSE "dedupe")
    /\ snap' = [snap EXCEPT ![r] = NotCached]
    /\ UNCHANGED <<seen, monthVars, formVars, row, policyVars, month, markers,
                   faults>>

\* assertNotDuplicate for a signed-in respondent: a stored, undeleted row.
AlreadyStored(r) ==
    \E q \in SignedIn : RespondentOf[q] = RespondentOf[r]
                        /\ row[q] = "SUBMITTED"

DedupeSignedIn(r) ==
    /\ r \in SignedIn
    /\ Step(r, "dedupe", IF AlreadyStored(r) THEN "rejected" ELSE "month")
    /\ UNCHANGED <<locals, monthVars, formVars, row, policyVars, month,
                   markers, faults>>

\* Mutant: the guard is a stored row, as for a signed-in respondent.
DedupeAnonymousByRow(r) ==
    /\ r \notin SignedIn
    /\ Step(r, "dedupe",
            IF \E q \in Accepted : RespondentOf[q] = RespondentOf[r]
            THEN "rejected" ELSE "month")
    /\ UNCHANGED <<locals, monthVars, formVars, row, policyVars, month,
                   markers, faults>>

\* assertNotDuplicate for anybody else: SET NX on the marker, open on error.
DedupeAnonymous(r) ==
    /\ r \notin SignedIn
    /\ \/ /\ RespondentOf[r] \in markers
          /\ Step(r, "dedupe", "rejected")
          /\ UNCHANGED <<markers, faults>>
       \/ /\ RespondentOf[r] \notin markers
          /\ Step(r, "dedupe", "month")
          /\ markers' = markers \cup {RespondentOf[r]}
          /\ UNCHANGED faults
       \/ /\ StoreError
          /\ Step(r, "dedupe", "month")
          /\ UNCHANGED markers
    /\ UNCHANGED <<locals, monthVars, formVars, row, policyVars, month>>

-----------------------------------------------------------------------------
(* assertWithinMonthlyQuota                                                *)

\* Mutant: the quota is compared with the value before the increment.
ClaimMonthLate(r) ==
    /\ Step(r, "month", IF monthUsed[month] > MonthlyMax THEN "monthOver"
                        ELSE "cap")
    /\ monthUsed' = [monthUsed EXCEPT ![month] = @ + 1]
    /\ monthSlot' = [monthSlot EXCEPT ![r] = month]
    /\ UNCHANGED <<locals, gaveBack, formVars, row, policyVars, month, markers,
                   faults>>

ClaimMonth(r) ==
    /\ \/ /\ Step(r, "month", IF monthUsed[month] + 1 > MonthlyMax
                              THEN "monthOver" ELSE "cap")
          /\ monthUsed' = [monthUsed EXCEPT ![month] = @ + 1]
          /\ monthSlot' = [monthSlot EXCEPT ![r] = month]
          /\ UNCHANGED faults
       \/ /\ StoreError
          /\ Step(r, "month", "cap")
          /\ UNCHANGED <<monthUsed, monthSlot>>
    /\ UNCHANGED <<locals, gaveBack, formVars, row, policyVars, month,
                   markers>>

\* Mutant: a refused claim is left on the counter.
RefuseMonthKeepingCount(r) ==
    /\ Step(r, "monthOver", "rejected")
    /\ monthSlot' = [monthSlot EXCEPT ![r] = 0]
    /\ UNCHANGED <<locals, gaveBack, monthUsed, formVars, row, policyVars,
                   month, markers, faults>>

\* The DECR of a refused claim uses the key the INCR used.  When it fails the
\* error is not a ForbiddenException, so the submission is let through.
RefuseMonth(r) ==
    /\ \/ /\ Step(r, "monthOver", "rejected")
          /\ monthUsed' = [monthUsed EXCEPT ![monthSlot[r]] = @ - 1]
          /\ monthSlot' = [monthSlot EXCEPT ![r] = 0]
          /\ UNCHANGED faults
       \/ /\ StoreError
          /\ Step(r, "monthOver", "cap")
          /\ UNCHANGED <<monthUsed, monthSlot>>
    /\ UNCHANGED <<locals, gaveBack, formVars, row, policyVars, month,
                   markers>>

-----------------------------------------------------------------------------
(* assertWithinFormCap                                                     *)

\* Mutant: the cap is compared with the value before the increment.
ClaimFormLate(r) ==
    /\ Step(r, "cap", CASE formUsed + 1 = 1   -> "count"
                        [] formUsed > FormCap -> "over"
                        [] OTHER              -> "enqueue")
    /\ formUsed' = formUsed + 1
    /\ formSlot' = [formSlot EXCEPT ![r] = TRUE]
    /\ faults' = faults \cup {k \in {"seed_interrupted"} : Seeders # {}}
    /\ UNCHANGED <<locals, monthVars, row, policyVars, month, markers>>

\* INCR; the request that reads 1 seeds the counter from the database.
ClaimForm(r) ==
    /\ \/ /\ FormCap = 0
          /\ Step(r, "cap", "enqueue")
          /\ UNCHANGED <<formUsed, formSlot, faults>>
       \/ /\ FormCap # 0
          /\ Step(r, "cap", CASE formUsed + 1 = 1       -> "count"
                              [] formUsed + 1 > FormCap -> "over"
                              [] OTHER                  -> "enqueue")
          /\ formUsed' = formUsed + 1
          /\ formSlot' = [formSlot EXCEPT ![r] = TRUE]
          /\ faults' = faults \cup
                {k \in {"seed_interrupted"} : Seeders # {}}
       \/ /\ FormCap # 0 /\ StoreError
          /\ Step(r, "cap", "enqueue")
          /\ UNCHANGED <<formUsed, formSlot>>
    /\ UNCHANGED <<locals, monthVars, row, policyVars, month, markers>>

CountStored(r) ==
    /\ \/ /\ Step(r, "count", IF StoredCount > 0 THEN "seed" ELSE "enqueue")
          /\ seen' = [seen EXCEPT ![r] = StoredCount]
          /\ UNCHANGED faults
       \/ /\ StoreError
          /\ Step(r, "count", "enqueue")
          /\ UNCHANGED seen
    /\ UNCHANGED <<snap, monthVars, formVars, row, policyVars, month, markers>>

SeedCounter(r) ==
    /\ \/ /\ Step(r, "seed", IF seen[r] + 1 > FormCap THEN "over"
                             ELSE "enqueue")
          /\ formUsed' = seen[r] + 1
          /\ UNCHANGED faults
       \/ /\ StoreError
          /\ Step(r, "seed", "enqueue")
          /\ UNCHANGED formUsed
    /\ seen' = [seen EXCEPT ![r] = 0]
    /\ UNCHANGED <<snap, monthVars, formSlot, row, policyVars, month, markers>>

\* Over the cap: DECR, close the form, drop the cached policy, give the month
\* back.  Only a failing DECR lets the submission through.
RefuseForm(r) ==
    /\ \/ /\ Step(r, "over", "close")
          /\ formUsed' = formUsed - 1
          /\ formSlot' = [formSlot EXCEPT ![r] = FALSE]
          /\ UNCHANGED faults
       \/ /\ StoreError
          /\ Step(r, "over", "enqueue")
          /\ UNCHANGED <<formUsed, formSlot>>
    /\ UNCHANGED <<locals, monthVars, row, policyVars, month, markers>>

CloseForm(r) ==
    /\ Step(r, "close", "drop")
    /\ \/ form' = [form EXCEPT !.status = "CLOSED"]
       \/ "store_error" \in Events /\ UNCHANGED form
    /\ UNCHANGED <<locals, monthVars, formVars, row, cache, owner, month,
                   markers, faults>>

\* Mutant: a response refused by the form cap keeps its monthly slot.
DropPolicyKeepingMonth(r) ==
    /\ Step(r, "drop", "rejected")
    /\ cache' = NotCached
    /\ UNCHANGED <<locals, monthVars, formVars, row, form, owner, month,
                   markers, faults>>

DropPolicy(r) ==
    /\ Step(r, "drop", "giveBack")
    /\ \/ cache' = NotCached
       \/ "store_error" \in Events /\ UNCHANGED cache
    /\ UNCHANGED <<locals, monthVars, formVars, row, form, owner, month,
                   markers, faults>>

-----------------------------------------------------------------------------
(* releaseQuota on the month evaluates monthKey() anew, so it decrements   *)
(* the month it runs in: past a month's end the claimed month's counter    *)
(* keeps the slot, and a later one loses a slot nobody gave it.  It never  *)
(* throws.                                                                 *)

ReleaseMonth(r, from, to) ==
    /\ Step(r, from, to)
    /\ \/ /\ monthUsed' = [monthUsed EXCEPT ![month] = @ - 1]
          /\ \/ /\ monthSlot[r] = month
                /\ monthSlot' = [monthSlot EXCEPT ![r] = 0]
                /\ UNCHANGED gaveBack
             \/ /\ monthSlot[r] # month
                /\ gaveBack' = [gaveBack EXCEPT ![r] = month]
                /\ UNCHANGED monthSlot
          /\ UNCHANGED faults
       \/ StoreError /\ UNCHANGED monthVars
    /\ UNCHANGED <<locals, formVars, row, policyVars, month, markers>>

GiveBackMonth(r) == ReleaseMonth(r, "giveBack", "rejected")

Enqueue(r) ==
    /\ Step(r, "enqueue", "accepted")
    /\ row' = [row EXCEPT ![r] = "queued"]
    /\ UNCHANGED <<locals, monthVars, formVars, policyVars, month, markers,
                   faults>>

\* Mutant: the failed request gets an outcome of its own and unwinds nothing.
EnqueueFailsUnhandled(r) ==
    /\ Step(r, "enqueue", "thrown")
    /\ UNCHANGED <<locals, monthVars, formVars, row, policyVars, month,
                   markers, faults>>

EnqueueFails(r) ==
    /\ Step(r, "enqueue", "unwind")
    /\ UNCHANGED <<locals, monthVars, formVars, row, policyVars, month,
                   markers, faults>>

UnwindMonth(r) ==
    ReleaseMonth(r, "unwind", IF FormCap = 0 THEN "rejected" ELSE "unwindForm")

UnwindForm(r) ==
    /\ Step(r, "unwindForm", "rejected")
    /\ \/ /\ formUsed' = formUsed - 1
          /\ formSlot' = [formSlot EXCEPT ![r] = FALSE]
          /\ UNCHANGED faults
       \/ StoreError /\ UNCHANGED <<formUsed, formSlot>>
    /\ UNCHANGED <<locals, monthVars, row, policyVars, month, markers>>

Submit(r) ==
    \/ ReadCachedPolicy(r) \/ LoadPolicy(r) \/ FillPolicy(r)
    \/ Refuse(r) \/ PassChecks(r) \/ DedupeSignedIn(r) \/ DedupeAnonymous(r)
    \/ ClaimMonth(r) \/ RefuseMonth(r)
    \/ ClaimForm(r) \/ CountStored(r) \/ SeedCounter(r)
    \/ RefuseForm(r) \/ CloseForm(r) \/ DropPolicy(r) \/ GiveBackMonth(r)
    \/ Enqueue(r) \/ EnqueueFails(r) \/ UnwindMonth(r) \/ UnwindForm(r)

-----------------------------------------------------------------------------
(* The rest of the system, as far as submitForm can observe it.            *)

\* The worker: a queued job ends as a row, or in the failed set for good.
Persist(r) ==
    /\ row[r] = "queued"
    /\ row' = [row EXCEPT ![r] = "SUBMITTED"]
    /\ UNCHANGED <<pc, locals, monthVars, formVars, policyVars, month, markers,
                   faults>>

JobFails(r) ==
    /\ row[r] = "queued"
    /\ row' = [row EXCEPT ![r] = "lost"]
    /\ UNCHANGED <<pc, locals, monthVars, formVars, policyVars, month, markers,
                   faults>>

\* deleteSubmission: the row goes, the slot and the marker deliberately stay.
DeleteSubmission(r) ==
    /\ "moderation" \in Events
    /\ row[r] = "SUBMITTED"
    /\ row' = [row EXCEPT ![r] = "DELETED"]
    /\ UNCHANGED <<pc, locals, monthVars, formVars, policyVars, month, markers,
                   faults>>

\* publishForm, deleteForm and restoreForm write the row, then invalidate.
OwnerEdit ==
    /\ "owner_edit" \in Events
    /\ owner = "idle" /\ owner' = "invalidate"
    /\ \/ ~form.deleted /\ form' = [form EXCEPT !.status = "PUBLISHED"]
       \/ form' = [form EXCEPT !.deleted = ~@]
    /\ UNCHANGED <<pc, locals, monthVars, formVars, row, cache, month, markers,
                   faults>>

InvalidateIngestPolicy ==
    /\ owner = "invalidate" /\ owner' = "idle"
    /\ \/ cache' = NotCached
       \/ "store_error" \in Events /\ UNCHANGED cache
    /\ UNCHANGED <<pc, locals, monthVars, formVars, row, form, month, markers,
                   faults>>

\* Mutant: the policy is cached without an expiry.
PolicyNeverExpires == FALSE /\ UNCHANGED vars

\* POLICY_TTL_SECONDS elapses.
PolicyExpires ==
    /\ cache # NotCached
    /\ cache' = NotCached
    /\ UNCHANGED <<pc, locals, monthVars, formVars, row, form, owner, month,
                   markers, faults>>

\* quota:form:<form> carries a 30-day expiry set at its first increment.
FormCounterExpires ==
    /\ "counter_expired" \in Events
    /\ formUsed # 0
    /\ formUsed' = 0
    /\ faults' = faults \cup {"counter_expired"}
    /\ UNCHANGED <<pc, locals, monthVars, formSlot, row, policyVars, month,
                   markers>>

NextMonth ==
    /\ "month_rollover" \in Events
    /\ month < Months
    /\ month' = month + 1
    /\ UNCHANGED <<pc, locals, monthVars, formVars, row, policyVars, markers,
                   faults>>

\* The API process dies inside a request: nothing is given back.
Crash(r) ==
    /\ "crash" \in Events
    /\ pc[r] \in Running
    /\ pc' = [pc EXCEPT ![r] = "crashed"]
    /\ faults' = faults \cup {k \in {"seed_interrupted"} : pc[r] \in Seeding}
    /\ UNCHANGED <<locals, monthVars, formVars, row, policyVars, month,
                   markers>>

Next ==
    \/ \E r \in Requests : Submit(r) \/ Persist(r) \/ JobFails(r)
                           \/ DeleteSubmission(r) \/ Crash(r)
    \/ OwnerEdit \/ InvalidateIngestPolicy \/ PolicyExpires
    \/ FormCounterExpires \/ NextMonth

Spec == Init /\ [][Next]_vars
\* The handlers, the invalidation and the cache's own expiry keep running.
FairSpec ==
    /\ Spec
    /\ WF_vars(InvalidateIngestPolicy) /\ WF_vars(PolicyExpires)
    /\ \A r \in Requests : WF_vars(Submit(r))

-----------------------------------------------------------------------------
\* The variables hold values of these shapes; monthUsed and formUsed may go
\* negative, because releaseQuota decrements without looking.
TypeOK ==
    /\ pc \in [Requests -> Running \cup Finished]
    /\ snap \in [Requests -> Form \cup {NotCached}]
    /\ seen \in [Requests -> Nat]
    /\ monthSlot \in [Requests -> MonthIds \cup {0}]
    /\ gaveBack \in [Requests -> MonthIds \cup {0}]
    /\ formSlot \in [Requests -> BOOLEAN]
    /\ row \in [Requests -> {"none", "queued", "SUBMITTED", "DELETED", "lost"}]
    /\ form \in Form
    /\ cache \in Form \cup {NotCached}
    /\ owner \in {"idle", "invalidate"}
    /\ month \in MonthIds
    /\ monthUsed \in [MonthIds -> Int]
    /\ formUsed \in Int
    /\ markers \subseteq Respondents
    /\ faults \subseteq FaultKinds

Never(kinds) == faults \cap kinds = {}

\* The form takes no more responses than its cap (FormCap, the rows it already
\* had included), unless Redis failed a request, the counter's key expired, or
\* a request claimed a slot (or the seeder died) while the counter was being
\* seeded: submissions.service.ts assertWithinFormCap.
FormCapRespected ==
    /\ FormCap > 0 /\ Accepted # {}
    /\ Never({"store_error", "counter_expired", "seed_interrupted"})
    => PriorRows + Cardinality(Accepted) <= FormCap

\* Each month's counter is the requests that hold one of its slots, less the
\* ones refused in it that had claimed in an earlier month, whose releaseQuota
\* recomputes monthKey(): whatever dies, is refused or spans a month's end, no
\* other step may drift it.  A failed Redis command is excused.
MonthCounterExact ==
    Never({"store_error"})
    => \A m \in MonthIds :
          monthUsed[m] = Cardinality(MonthHolders(m))
                         - Cardinality(Misplaced(m))

\* A month accepts no more submissions than the organization's monthly quota
\* and one more for each refusal that was charged to it in place of an earlier
\* month: submissions.service.ts assertWithinMonthlyQuota and releaseQuota.
MonthlyQuotaRespected ==
    Never({"store_error"})
    => \A m \in MonthIds :
          Cardinality(Accepted \cap MonthHolders(m))
             <= MonthlyMax + Cardinality(Misplaced(m))

\* "anything that fails after this point has to give it back" (step 9 of
\* submitForm): an accepted request keeps both its slots and gives none back;
\* a refused one keeps none, except that the month it claimed keeps its slot
\* when a later month's counter was decremented in its place.
SlotsFollowOutcome ==
    Never({"store_error"})
    => \A r \in Requests :
          /\ pc[r] = "rejected" =>
                ~formSlot[r] /\ (monthSlot[r] # 0 => monthSlot[r] < gaveBack[r])
          /\ pc[r] = "accepted" =>
                /\ monthSlot[r] # 0 /\ gaveBack[r] = 0
                /\ FormCap > 0 => formSlot[r]

\* Two submissions of one anonymous respondent are never both accepted on a
\* form that takes a single response, unless Redis failed the duplicate check:
\* assertNotDuplicate, within the 30 days its marker lives.
OneAnonymousResponse ==
    ~AllowMultiple /\ Never({"store_error"})
    => \A q, r \in Accepted \ SignedIn :
          RespondentOf[q] = RespondentOf[r] => q = r

\* A form deleted for good is eventually absent from the policy cache, even
\* when a loader that read the row before the deletion fills the cache after
\* the invalidation (loadIngestPolicy against invalidateIngestPolicy).
DeletedFormLeavesCache ==
    <>[]form.deleted => <>[](cache = NotCached \/ cache.deleted)
=============================================================================
