--------------------------- MODULE FormAppSessions ---------------------------
(***************************************************************************)
(* Sittings of a form app: FormAppSessionsService.  A respondent opens a   *)
(* session, stages entries of the app's steps in it, and submits it: every *)
(* staged entry becomes a submission, about one record, in one             *)
(* transaction.                                                            *)
(*                                                                         *)
(* A request is one call being served; its reads and its transaction are   *)
(* steps of their own, between which the other requests go on.  Answers    *)
(* are values compared with each other only: a registration's answer is    *)
(* the record it identifies, a keyed step's answer the key it declares.    *)
(***************************************************************************)
EXTENDS Integers, FiniteSets

CONSTANTS
    Requests,       \* calls being served at once
    Sessions,       \* FormAppSession rows
    EntryIds,       \* FormAppSessionEntry rows, 1..n in order of creation
    Respondents,
    Drafts,         \* drafts opened before: session -> row, or None
    Staged,         \* the entries they may hold: tables entry id -> row, or None
    Records,        \* subjects of the app's record type
    LastStaged,     \* the last entry id handed out by then
    Registered,     \* those that exist from the start
    Periods,        \* the windows one may file into now
    Steps,          \* the steps of the app
    Registration,   \* those whose form has subjectRole REGISTERS
    Repeatable,     \* those with mode REPEATABLE, the others being SINGLE
    Scope,          \* step -> SESSION, SUBJECT or SUBJECT_PERIOD
    Keyed,          \* the steps that declare uniqueBy
    MinOf, MaxOf,   \* effectiveMin and effectiveMax of a step
    Answers,        \* answers to a step that does not register
    Blank,          \* the answer that leaves a keyed step's key empty
    MaxStaged,      \* SESSION_LIMITS.MAX_ENTRIES_PER_SESSION
    Quota,          \* Organization.maxSubmissionsMonth
    Calls,          \* the calls this instance makes
    Events,         \* environment events: queue_error, crash
    None

\* The kinds of row, and the kinds of occurrence key.
Keys == (Periods \cup {None}) \X (Answers \cup Records \cup {"singleton"})
SessionRow ==
    [status : {"DRAFT", "SUBMITTED"}, who : Respondents,
     about : Records \cup {None}, mode : {"REGISTER", "FOLLOW_UP"},
     period : Periods, asked : SUBSET Steps, judged : SUBSET Steps]
EntryRow ==
    [session : Sessions, step : Steps, index : Nat,
     answer : Answers \cup Records, filedBy : Requests \cup {None}]
FiledRow ==
    [entry : EntryIds, by : Requests, session : Sessions,
     record : Records \cup {None}, step : Steps, period : Periods,
     key : Keys \cup {None}, answer : Answers \cup Records, live : BOOLEAN,
     post : {"none", "queued", "lost"},
     stale : SUBSET {"session", "record", "month"}]

AnswersOf(k) == IF k \in Registration THEN Records ELSE Answers
WellTyped(e) == e \in EntryRow /\ e.answer \in AnswersOf(e.step)

ASSUME SessionAssumption ==
    /\ Requests # {} /\ IsFiniteSet(Requests)
    /\ EntryIds \subseteq Nat /\ LastStaged \in Nat
    /\ Registered \subseteq Records
    /\ Registration \subseteq Steps /\ Keyed \subseteq Steps
    /\ Repeatable \subseteq Steps
    /\ Scope \in [Steps -> {"SESSION", "SUBJECT", "SUBJECT_PERIOD"}]
    /\ MinOf \in [Steps -> Nat] /\ MaxOf \in [Steps -> Nat \ {0}]
    /\ \A k \in Steps \ Repeatable : MaxOf[k] = 1
    /\ MaxStaged \in Nat /\ Quota \in Nat
    /\ Calls \subseteq {"open", "save", "delete", "reset", "submit", "moderate"}
    /\ Events \subseteq {"queue_error", "crash"}
    /\ None \notin Records \cup Periods \cup Sessions \cup Respondents \cup Keys
    /\ None \notin SessionRow \cup EntryRow

\* What the tables may hold at the start: drafts as openSession makes them and
\* the index on open drafts admits, and well-typed entries within the limit.
ASSUME StartAssumption ==
    /\ Drafts \in [Sessions -> SessionRow \cup {None}]
    /\ \A s \in Sessions : Drafts[s] # None =>
          /\ Drafts[s].status = "DRAFT"
          /\ Drafts[s].mode = "FOLLOW_UP" => Drafts[s].about # None
    /\ \A s, t \in Sessions :
          /\ Drafts[s] # None /\ Drafts[t] # None
          /\ Drafts[s].who = Drafts[t].who /\ Drafts[s].about = Drafts[t].about
          => s = t
    /\ \A t \in Staged :
          /\ t \in [EntryIds -> EntryRow \cup {None}]
          /\ \A e \in EntryIds : t[e] # None => WellTyped(t[e])
          /\ \A e \in EntryIds : e > LastStaged => t[e] = None
          /\ \A s \in Sessions :
                Cardinality({e \in EntryIds : t[e] # None /\ t[e].session = s})
                   <= MaxStaged

VARIABLES
    session,    \* id -> row, or None before it is created
    staged,     \* id -> the entry row, or None
    lastEntry,  \* the last entry id handed out
    subjects,   \* the records that exist
    filed,      \* the FormSubmission rows, each known by entry and request
    req,        \* what each request is doing, and what it has read so far
    raced       \* history: the sessions a save of which overlapped a submit

vars == <<session, staged, lastEntry, subjects, filed, req, raced>>
tables == <<session, staged, lastEntry, subjects, filed, raced>>

Idle == [at |-> "idle", session |-> None, step |-> None, index |-> 0,
         answer |-> None, who |-> None, about |-> None, period |-> None,
         asked |-> {}, read |-> {}, stale |-> {}]

Init ==
    /\ session = Drafts
    /\ staged \in Staged
    /\ lastEntry = LastStaged
    /\ subjects = Registered
    /\ filed = {}
    /\ req = [r \in Requests |-> Idle]
    /\ raced = {}

Open(s) == session[s] # None
Draft(s) == Open(s) /\ session[s].status = "DRAFT"
EntriesOf(s) == {e \in EntryIds : staged[e] # None /\ staged[e].session = s}
EntryAt(s, k, i) ==
    {e \in EntriesOf(s) : staged[e].step = k /\ staged[e].index = i}

Live == {f \in filed : f.live}
Month == Cardinality(Live)
History(x) == IF x = None THEN {} ELSE {f \in Live : f.record = x}

At(r, here) == req[r].at = here
Goto(r, there) == req' = [req EXCEPT ![r].at = there]
Finish(r) == req' = [req EXCEPT ![r] = Idle]

\* The request r is a submit of s that has already read its entries.
Submitting(r, s) ==
    /\ req[r].session = s
    /\ req[r].at \in {"history", "quota", "commit"}

-----------------------------------------------------------------------------
(* What the record already has, and what a new entry is identified by.     *)

\* history.countFor: the entries on file for step k, in the step's scope.
CountFor(history, k, q) ==
    CASE Scope[k] = "SESSION" -> 0
      [] Scope[k] = "SUBJECT" -> Cardinality({f \in history : f.step = k})
      [] OTHER -> Cardinality({f \in history : f.step = k /\ f.period = q})

OccurrenceKey(k, q, a) ==
    LET within == IF Scope[k] = "SUBJECT_PERIOD" THEN q ELSE None
    IN CASE Scope[k] = "SESSION" -> None
         [] Scope[k] # "SESSION" /\ k \in Keyed ->
                IF a = Blank THEN None ELSE <<within, a>>
         [] Scope[k] # "SESSION" /\ k \notin Keyed ->
                IF MaxOf[k] = 1 THEN <<within, "singleton">> ELSE None

HasOccurrence(rows, x, k, key) ==
    key # None /\ \E f \in rows : f.live /\ f.record = x /\ f.step = k
                                  /\ f.key = key

\* stepsAvailableForSubject: what may still be recorded for x in window q.
Available(x, q) ==
    {k \in Steps \ Registration : CountFor(History(x), k, q) < MaxOf[k]}

-----------------------------------------------------------------------------
(* openSession: read what is available and look for the open draft, then   *)
(* refresh the draft's narrowing, or create one.                           *)

DraftsOf(p, x) ==
    {s \in Sessions : Draft(s) /\ session[s].who = p /\ session[s].about = x}

\* A registration is not narrowed; a follow-up is, and must have a step left.
FindDraft(r, p, x, q) ==
    LET asked == IF x = None THEN Steps ELSE Available(x, q)
    IN /\ "open" \in Calls /\ At(r, "idle")
       /\ x # None => x \in subjects /\ asked # {}
       /\ \E s \in IF DraftsOf(p, x) = {} THEN {None} ELSE DraftsOf(p, x) :
            req' = [req EXCEPT ![r] =
                [Idle EXCEPT !.at = "open", !.session = s, !.who = p,
                             !.about = x, !.period = q, !.asked = asked]]
       /\ UNCHANGED tables

\* The resumed draft keeps the window it was opened for.
ResumeDraft(r) ==
    /\ At(r, "open") /\ req[r].session # None
    /\ session' = IF req[r].about = None THEN session
                  ELSE [session EXCEPT ![req[r].session].asked = req[r].asked]
    /\ Finish(r)
    /\ UNCHANGED <<staged, lastEntry, subjects, filed, raced>>

NewSession(r) ==
    [status |-> "DRAFT", who |-> req[r].who, about |-> req[r].about,
     mode |-> IF req[r].about = None THEN "REGISTER" ELSE "FOLLOW_UP",
     period |-> req[r].period, asked |-> req[r].asked, judged |-> {}]

\* Mutant: a second draft is kept out by the look-up alone.
CreateUnindexed(r) ==
    /\ At(r, "open") /\ req[r].session = None
    /\ \E s \in Sessions :
         ~Open(s) /\ session' = [session EXCEPT ![s] = NewSession(r)]
    /\ Finish(r)
    /\ UNCHANGED <<staged, lastEntry, subjects, filed, raced>>

\* The index on open drafts refuses the insert when another open was faster.
CreateDraft(r) ==
    /\ At(r, "open") /\ req[r].session = None
    /\ \/ /\ DraftsOf(req[r].who, req[r].about) = {}
          /\ \E s \in Sessions :
               ~Open(s) /\ session' = [session EXCEPT ![s] = NewSession(r)]
       \/ /\ DraftsOf(req[r].who, req[r].about) # {}
          /\ UNCHANGED session
    /\ Finish(r)
    /\ UNCHANGED <<staged, lastEntry, subjects, filed, raced>>

-----------------------------------------------------------------------------
(* saveEntry, deleteEntry and resetSession: assertDraft, then write.       *)

\* A call that passed assertDraft for session s.
Call(r, s, kind, there, fields) ==
    /\ kind \in Calls /\ At(r, "idle") /\ Draft(s)
    /\ req' = [req EXCEPT ![r] = [fields EXCEPT !.at = there, !.session = s]]
    /\ UNCHANGED tables

\* Any place of the step will do, whether or not those below are filled: the
\* runner's saves of two new entries may arrive in either order.
SaveEntry(r, s) ==
    \E k \in Steps : \E a \in AnswersOf(k), i \in 0 .. MaxOf[k] - 1 :
        Call(r, s, "save", "count",
             [Idle EXCEPT !.step = k, !.index = i, !.answer = a])

\* Mutant: the limit is compared as if the entry had been counted.
CountStagedLate(r) ==
    /\ At(r, "count")
    /\ IF Cardinality(EntriesOf(req[r].session)) > MaxStaged
       THEN Finish(r) ELSE Goto(r, "save")
    /\ UNCHANGED tables

CountStaged(r) ==
    /\ At(r, "count")
    /\ IF Cardinality(EntriesOf(req[r].session)) >= MaxStaged
       THEN Finish(r) ELSE Goto(r, "save")
    /\ UNCHANGED tables

UpsertEntry(r) ==
    LET s == req[r].session
        old == EntryAt(s, req[r].step, req[r].index)
        row == [session |-> s, step |-> req[r].step, index |-> req[r].index,
                answer |-> req[r].answer, filedBy |-> None]
    IN /\ At(r, "save")
       /\ \/ /\ old # {}
             /\ staged' = [e \in EntryIds |-> IF e \in old
                   THEN [staged[e] EXCEPT !.answer = row.answer] ELSE staged[e]]
             /\ UNCHANGED lastEntry
          \/ /\ old = {} /\ lastEntry + 1 \in EntryIds
             /\ staged' = [staged EXCEPT ![lastEntry + 1] = row]
             /\ lastEntry' = lastEntry + 1
       /\ raced' = raced \cup
             {t \in {s} : ~Draft(s) \/ \E o \in Requests : Submitting(o, s)}
       /\ Finish(r)
       /\ UNCHANGED <<session, subjects, filed>>

DeleteEntry(r, s) ==
    \E k \in Repeatable : \E i \in 0 .. MaxOf[k] - 1 :
        Call(r, s, "delete", "delete", [Idle EXCEPT !.step = k, !.index = i])

\* One transaction: the row goes, and the indexes above it close up.
RemoveEntry(r) ==
    LET s == req[r].session
        above(e) == /\ e \in EntriesOf(s)
                    /\ staged[e].step = req[r].step
                    /\ staged[e].index > req[r].index
    IN /\ At(r, "delete")
       /\ staged' = [e \in EntryIds |->
            IF e \in EntryAt(s, req[r].step, req[r].index) THEN None
            ELSE IF above(e) THEN [staged[e] EXCEPT !.index = @ - 1]
            ELSE staged[e]]
       /\ Finish(r)
       /\ UNCHANGED <<session, lastEntry, subjects, filed, raced>>

ResetSession(r, s) == Call(r, s, "reset", "reset", Idle)

RemoveAll(r) ==
    /\ At(r, "reset")
    /\ staged' = [e \in EntryIds |->
            IF e \in EntriesOf(req[r].session) THEN None ELSE staged[e]]
    /\ Finish(r)
    /\ UNCHANGED <<session, lastEntry, subjects, filed, raced>>

-----------------------------------------------------------------------------
(* submitSession: read the session, its entries, the record's history and  *)
(* the month's count; then file every entry in one transaction.            *)

FollowUp(r) == session[req[r].session].mode = "FOLLOW_UP"

\* The record whose history is consulted: a registration has none yet.
Bound(r) == IF FollowUp(r) THEN session[req[r].session].about ELSE None

\* A registration is skipped in a follow-up, whatever the narrowing says.
Visible(r) == req[r].asked \ (IF FollowUp(r) THEN Registration ELSE {})

SubmitSession(r, s) ==
    Call(r, s, "submit", "entries", [Idle EXCEPT !.asked = session[s].asked])

\* Mutant: only the first entry of a repeatable step is read.
ReadFirstEntries(r) ==
    /\ At(r, "entries")
    /\ req' = [req EXCEPT ![r].at = "history", ![r].read =
            {[id |-> e, step |-> staged[e].step, index |-> staged[e].index,
              answer |-> staged[e].answer] :
                e \in {d \in EntriesOf(req[r].session) :
                       staged[d].step \in Visible(r) /\ staged[d].index = 0}}]
    /\ UNCHANGED tables

\* Entries of a step that is not visible are dropped, not refused.
ReadEntries(r) ==
    /\ At(r, "entries")
    /\ req' = [req EXCEPT ![r].at = "history", ![r].read =
            {[id |-> e, step |-> staged[e].step, index |-> staged[e].index,
              answer |-> staged[e].answer] :
                e \in {d \in EntriesOf(req[r].session) :
                            staged[d].step \in Visible(r)}}]
    /\ UNCHANGED tables

KeyOf(r, e) ==
    OccurrenceKey(e.step, session[req[r].session].period, e.answer)

CardinalityKept(r, history) ==
    \A k \in Visible(r) :
        LET total == CountFor(history, k, session[req[r].session].period)
                     + Cardinality({e \in req[r].read : e.step = k})
        IN MinOf[k] <= total /\ total <= MaxOf[k]

NoDuplicateInSitting(r) ==
    \A d, e \in req[r].read :
        d.step = e.step /\ d.step \in Keyed /\ d.answer # Blank
            /\ d.answer = e.answer => d = e

NotYetRecorded(r, history) ==
    \A e \in req[r].read :
        ~HasOccurrence(history, Bound(r), e.step, KeyOf(r, e))

\* A report with an invalid answer is refused too: such a request might as
\* well not have been made.
Judge(r, history) ==
    /\ At(r, "history")
    /\ IF /\ CardinalityKept(r, history)
          /\ NoDuplicateInSitting(r)
          /\ NotYetRecorded(r, history)
       THEN Goto(r, "quota") ELSE Finish(r)
    /\ UNCHANGED tables

\* Mutant: a step is counted within the sitting only.
JudgeSittingOnly(r) == Judge(r, {})
JudgeReport(r) == Judge(r, History(Bound(r)))

\* Mutant: the report is counted as one submission.
CheckQuotaPerReport(r) ==
    /\ At(r, "quota")
    /\ IF req[r].read # {} /\ Month + 1 <= Quota
       THEN Goto(r, "commit") ELSE Finish(r)
    /\ UNCHANGED tables

CheckQuota(r) ==
    /\ At(r, "quota")
    /\ IF req[r].read # {} /\ Month + Cardinality(req[r].read) <= Quota
       THEN Goto(r, "commit") ELSE Finish(r)
    /\ UNCHANGED tables

\* resolveOrCreateSubject: the record the first registration entry names.
RecordFor(r) ==
    IF FollowUp(r) THEN Bound(r)
    ELSE LET named == {e.answer : e \in {d \in req[r].read :
                            d.step \in Registration /\ d.index = 0}}
         IN IF named = {} THEN None ELSE CHOOSE x \in named : TRUE

RowsOf(r, x) ==
    {[entry |-> e.id, by |-> r, session |-> req[r].session, record |-> x,
      step |-> e.step, period |-> session[req[r].session].period,
      key |-> IF x = None THEN None ELSE KeyOf(r, e), answer |-> e.answer,
      live |-> TRUE, post |-> "none", stale |-> req[r].stale] :
        e \in req[r].read}

\* The partial unique index on (subject_id, form_app_step_id, occurrence_key).
IndexAdmits(rows, x) ==
    \A f \in rows : /\ ~HasOccurrence(filed, x, f.step, f.key)
                    /\ ~HasOccurrence(rows \ {f}, x, f.step, f.key)

\* History: what the other submits have read is out of date from now on.
NowStale(o, r, x) ==
    req[o].stale
      \cup {k \in {"session"} : req[o].session = req[r].session}
      \cup {k \in {"record"} : req[o].at \in {"quota", "commit"} /\ x # None
                                 /\ session[req[o].session].about = x}
      \cup {k \in {"month"} : req[o].at = "commit"}

Reading == {"entries", "history", "quota", "commit"}

\* Mutant: the record a registration names is not created.
FileUnregistered(r, x) ==
    /\ At(r, "commit")
    /\ \A e \in req[r].read : staged[e.id] # None
    /\ filed' = filed \cup RowsOf(r, x)
    /\ staged' = [e \in EntryIds |->
            IF \E d \in req[r].read : d.id = e
            THEN [staged[e] EXCEPT !.filedBy = r] ELSE staged[e]]
    /\ req' = [o \in Requests |->
            IF o = r THEN [req[r] EXCEPT !.at = "enqueue"]
            ELSE IF req[o].at \in Reading
            THEN [req[o] EXCEPT !.stale = NowStale(o, r, x)] ELSE req[o]]
    /\ UNCHANGED <<lastEntry, subjects, raced>>

\* The transaction, but for the session's own row.
FileUnder(r, x) ==
    /\ At(r, "commit")
    /\ \A e \in req[r].read : staged[e.id] # None
    /\ filed' = filed \cup RowsOf(r, x)
    /\ subjects' = subjects \cup ({x} \ {None})
    /\ staged' = [e \in EntryIds |->
            IF \E d \in req[r].read : d.id = e
            THEN [staged[e] EXCEPT !.filedBy = r] ELSE staged[e]]
    /\ req' = [o \in Requests |->
            IF o = r THEN [req[r] EXCEPT !.at = "enqueue"]
            ELSE IF req[o].at \in Reading
            THEN [req[o] EXCEPT !.stale = NowStale(o, r, x)] ELSE req[o]]
    /\ UNCHANGED <<lastEntry, raced>>

Close(r, x) ==
    session' = [session EXCEPT ![req[r].session] =
        [@ EXCEPT !.status = "SUBMITTED", !.about = x, !.judged = Visible(r)]]

\* Mutant: the database has no index on occurrences.
CommitUnindexed(r) ==
    LET x == RecordFor(r) IN FileUnder(r, x) /\ Close(r, x)

\* Mutant: the session stays open.
CommitLeavingOpen(r) ==
    LET x == RecordFor(r)
    IN IndexAdmits(RowsOf(r, x), x) /\ FileUnder(r, x) /\ UNCHANGED session

\* The session's row is updated whatever its status is by now.
CommitReport(r) ==
    LET x == RecordFor(r)
    IN IndexAdmits(RowsOf(r, x), x) /\ FileUnder(r, x) /\ Close(r, x)

\* The transaction rolls back: the index fired, an entry is gone, another
\* registration of the record was faster, or the database failed.
RollBack(r) == At(r, "commit") /\ Finish(r) /\ UNCHANGED tables

\* After the commit, one enqueue per row, in a fixed order; a failed one is
\* logged and dropped.
ToEnqueue(r) ==
    {f \in filed : f.by = r /\ f.session = req[r].session /\ f.post = "none"}

SetPost(rows, p) ==
    filed' = (filed \ rows) \cup {[f EXCEPT !.post = p] : f \in rows}

EnqueueRow(r) ==
    /\ At(r, "enqueue")
    /\ \E f \in ToEnqueue(r) :
         /\ \A g \in ToEnqueue(r) : f.entry <= g.entry
         /\ \/ SetPost({f}, "queued")
            \/ "queue_error" \in Events /\ SetPost({f}, "lost")
    /\ UNCHANGED <<session, staged, lastEntry, subjects, req, raced>>

Respond(r) ==
    /\ At(r, "enqueue") /\ ToEnqueue(r) = {}
    /\ Finish(r)
    /\ UNCHANGED tables

CrashAfterCommit(r) ==
    /\ "crash" \in Events
    /\ At(r, "enqueue") /\ ToEnqueue(r) # {}
    /\ SetPost(ToEnqueue(r), "lost")
    /\ Finish(r)
    /\ UNCHANGED <<session, staged, lastEntry, subjects, raced>>

\* deleteSubmission, from the dashboard: the row stays, marked DELETED.
DeleteSubmission(f) ==
    /\ "moderate" \in Calls /\ f.live
    /\ filed' = (filed \ {f}) \cup {[f EXCEPT !.live = FALSE]}
    /\ UNCHANGED <<session, staged, lastEntry, subjects, req, raced>>

-----------------------------------------------------------------------------
OpenSession(r) ==
    \/ \E p \in Respondents, x \in Records \cup {None}, q \in Periods :
            FindDraft(r, p, x, q)
    \/ ResumeDraft(r) \/ CreateDraft(r)

EditSession(r) ==
    \/ \E s \in Sessions : \/ SaveEntry(r, s) \/ DeleteEntry(r, s)
                           \/ ResetSession(r, s)
    \/ CountStaged(r) \/ UpsertEntry(r) \/ RemoveEntry(r) \/ RemoveAll(r)

Submit(r) ==
    \/ \E s \in Sessions : SubmitSession(r, s)
    \/ ReadEntries(r) \/ JudgeReport(r) \/ CheckQuota(r)
    \/ CommitReport(r) \/ RollBack(r)
    \/ EnqueueRow(r) \/ Respond(r) \/ CrashAfterCommit(r)

Next ==
    \/ \E r \in Requests : OpenSession(r) \/ EditSession(r) \/ Submit(r)
    \/ \E f \in filed : DeleteSubmission(f)

Spec == Init /\ [][Next]_vars

\* A request being served goes on; nobody has to make another one.
FairSpec ==
    /\ Spec
    /\ \A r \in Requests : WF_vars(EnqueueRow(r) \/ Respond(r))

-----------------------------------------------------------------------------
(* Properties.                                                             *)

RequestStates == {"idle", "open", "count", "save", "delete", "reset",
                  "enqueue"} \cup Reading

ReadRow == [id : EntryIds, step : Steps, index : Nat,
            answer : Answers \cup Records]
CallRow ==
    [at : RequestStates, session : Sessions \cup {None},
     step : Steps \cup {None}, index : Nat,
     answer : Answers \cup Records \cup {None}, who : Respondents \cup {None},
     about : Records \cup {None}, period : Periods \cup {None},
     asked : SUBSET Steps, read : SUBSET ReadRow,
     stale : SUBSET {"session", "record", "month"}]

\* A call knows what its next step needs.
CallOK(c) ==
    /\ c.session # None => Open(c.session)
    /\ c.at = "open" => c.who \in Respondents /\ c.period \in Periods
    /\ c.at \notin {"idle", "open"} => c.session \in Sessions
    /\ c.at \in {"count", "save"} => c.step \in Steps
                                    /\ c.answer \in AnswersOf(c.step)
    /\ \A e \in c.read : e.answer \in AnswersOf(e.step)

SessionsTyped == session \in [Sessions -> SessionRow \cup {None}]
EntriesTyped ==
    /\ staged \in [EntryIds -> EntryRow \cup {None}]
    /\ \A e \in EntryIds : staged[e] # None => WellTyped(staged[e])
    /\ lastEntry \in Nat
    /\ \A e \in EntryIds : e > lastEntry => staged[e] = None
RowsTyped ==
    /\ subjects \in SUBSET Records
    /\ filed \in SUBSET FiledRow
    /\ \A f \in filed : f.record \in subjects \cup {None}
CallsTyped == req \in [Requests -> CallRow] /\ \A r \in Requests : CallOK(req[r])

\* Every variable holds a value of its kind, the ids of entries are handed out
\* in order, and the record a row is filed about exists.
TypeOK ==
    /\ SessionsTyped /\ EntriesTyped /\ RowsTyped /\ CallsTyped
    /\ raced \in SUBSET Sessions

\* A respondent has at most one open draft about a record, and at most one
\* registration, so that opening the app has one draft to resume.
OneOpenDraft ==
    \A p \in Respondents, x \in Records \cup {None} :
        Cardinality(DraftsOf(p, x)) <= 1

\* Two live rows of a record never record the same occurrence: one entry of a
\* once-only step per record (or per record and window), one per declared key,
\* even when two coordinators submit it at the same time.
OccurrenceUnique ==
    \A f, g \in Live :
        /\ f # g /\ f.record = g.record /\ f.record # None
        /\ f.step = g.step /\ Scope[f.step] # "SESSION"
        /\ Scope[f.step] = "SUBJECT_PERIOD" => f.period = g.period
        => IF f.step \in Keyed THEN f.answer = Blank \/ f.answer # g.answer
           ELSE MaxOf[f.step] > 1

\* A record holds no more entries of a step than the step allows, unless one
\* was filed while another submit about the record was being judged, or came
\* with a registration of the record, which does not look at its history.
MaxEntriesRespected ==
    \A x \in subjects, k \in Steps, q \in Periods :
        LET rows == {f \in History(x) : f.step = k}
        IN Scope[k] # "SESSION" /\ CountFor(rows, k, q) > MaxOf[k]
           => \E f \in rows : \/ "record" \in f.stale
                              \/ session[f.session].mode = "REGISTER"

\* An entry is filed once, unless two submits of its session overlapped.
EntryFiledOnce ==
    \A f, g \in filed :
        f # g /\ f.entry = g.entry => "session" \in f.stale \cup g.stale

\* What a submitted session still holds is what was filed from it, of the
\* steps the submit looked at, unless a save overlapped the submit.
NothingLeftBehind ==
    \A s \in Sessions :
        /\ Open(s) /\ session[s].status = "SUBMITTED"
        /\ s \notin raced
        => \A e \in EntriesOf(s) :
             staged[e].step \in session[s].judged
             => \E f \in filed : f.entry = e /\ f.answer = staged[e].answer

\* A session's entries exceed the limit by no more than the saves that can be
\* under way beside one another: saveEntry counts before it writes, and nothing
\* holds the count in between.
StagedBounded ==
    \A s \in Sessions :
        Cardinality(EntriesOf(s)) <= MaxStaged + Cardinality(Requests) - 1

\* However many submits run, the month receives no more rows than its allowance
\* and one for each row that was deleted since (assertWithinMonthlyQuota does
\* not count those, although the comment on it says that they keep their place)
\* or filed by a submit that another overtook between its count and its commit.
MonthBounded ==
    Cardinality(filed) <=
        Quota + Cardinality(filed \ Live)
              + Cardinality({f \in filed : "month" \in f.stale})
=============================================================================
