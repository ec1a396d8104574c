------------------------ MODULE FormAppEntriesProofs ------------------------
(***************************************************************************)
(* Theorems about the entries of FormAppSessions: what is filed of a       *)
(* session, how often and in which month, and how many entries it stages.  *)
(* They rest on the type invariant and on the lemmas of                    *)
(* FormAppSessionsProofs.                                                  *)
(***************************************************************************)
EXTENDS FormAppSessionsProofs

-----------------------------------------------------------------------------
(* What a step leaves alone.                                               *)

\* Rows filed before and after a step correspond one to one, and differ in the
\* mark of the side effects at most, or in being deleted.
SameRow(f, g) ==
    /\ f.entry = g.entry /\ f.by = g.by /\ f.session = g.session
    /\ f.record = g.record /\ f.step = g.step /\ f.period = g.period
    /\ f.key = g.key /\ f.answer = g.answer /\ f.stale = g.stale
RowsFollow(from) ==
    /\ from \in [filed' -> filed]
    /\ \A g \in filed' : SameRow(g, from[g]) /\ (g.live => from[g].live)
    /\ \A f, g \in filed' : from[f] = from[g] => f = g
    /\ \A f \in filed : \E g \in filed' : SameRow(g, f)

\* The mark of the side effects changes nothing else.
LEMMA PostFollows ==
    ASSUME TypeOK, NEW rows \in SUBSET filed,
           NEW p \in {"none", "queued", "lost"}, SetPost(rows, p)
    PROVE  \E from : RowsFollow(from)
<1> DEFINE from == [g \in filed' |-> IF g \in filed \ rows THEN g
                        ELSE CHOOSE f \in rows : g = [f EXCEPT !.post = p]]
<1>1. filed' = (filed \ rows) \cup {[f EXCEPT !.post = p] : f \in rows}
  BY DEF SetPost
<1>2. ASSUME NEW g \in filed', g \notin filed \ rows
      PROVE  from[g] \in rows /\ g = [from[g] EXCEPT !.post = p]
  BY <1>1, <1>2
<1>3. ASSUME NEW g \in filed', g \in filed \ rows PROVE from[g] = g
  BY <1>3
<1>4. from \in [filed' -> filed]
  BY <1>2, <1>3
<1> HIDE DEF from
<1>5. ASSUME NEW g \in filed'
      PROVE  SameRow(g, from[g]) /\ (g.live => from[g].live)
  <2>1. from[g] \in FiledRow
    BY <1>4 DEF TypeOK, RowsTyped
  <2>2. CASE g \in filed \ rows
    BY <1>3, <2>2 DEF SameRow
  <2>3. CASE g \notin filed \ rows
    BY <1>2, <2>1, <2>3 DEF FiledRow, SameRow
  <2> QED BY <2>2, <2>3
<1>6. \A f, g \in filed' : from[f] = from[g] => f = g
  BY <1>2, <1>3
<1>7. ASSUME NEW f \in filed PROVE \E g \in filed' : SameRow(g, f)
  <2>1. CASE f \notin rows
    BY <1>1, <2>1 DEF SameRow
  <2>2. CASE f \in rows
    <3>1. [f EXCEPT !.post = p] \in filed' /\ f \in FiledRow
      BY <1>1, <2>2 DEF TypeOK, RowsTyped
    <3>2. SameRow([f EXCEPT !.post = p], f)
      BY <3>1 DEF FiledRow, SameRow
    <3> QED BY <3>1, <3>2
  <2> QED BY <2>1, <2>2
<1> QED BY <1>4, <1>5, <1>6, <1>7 DEF RowsFollow

\* A deletion only marks its row.
LEMMA DeleteFollows ==
    ASSUME TypeOK, NEW d \in filed, DeleteSubmission(d)
    PROVE  \E from : RowsFollow(from)
<1> DEFINE dead == [d EXCEPT !.live = FALSE]
           from == [g \in filed' |-> IF g \in filed \ {d} THEN g ELSE d]
<1>1. filed' = (filed \ {d}) \cup {dead}
  BY DEF DeleteSubmission
<1>2. from \in [filed' -> filed]
  OBVIOUS
<1>3. \A g \in filed' : g \in filed \ {d} => from[g] = g
  OBVIOUS
<1>4. \A g \in filed' : g \notin filed \ {d} => from[g] = d /\ g = dead
  BY <1>1
<1>5. d \in FiledRow
  BY DEF TypeOK, RowsTyped
<1>6. SameRow(dead, d) /\ ~dead.live
  BY <1>5 DEF FiledRow, SameRow
<1> HIDE DEF from, dead
<1>7. ASSUME NEW g \in filed'
      PROVE  SameRow(g, from[g]) /\ (g.live => from[g].live)
  <2>1. CASE g \in filed \ {d}
    BY <1>3, <2>1 DEF SameRow
  <2>2. CASE g \notin filed \ {d}
    BY <1>4, <1>6, <2>2
  <2> QED BY <2>1, <2>2
<1>8. \A f, g \in filed' : from[f] = from[g] => f = g
  BY <1>3, <1>4
<1>9. \A f \in filed : \E g \in filed' : SameRow(g, f)
  BY <1>1, <1>6 DEF SameRow
<1> QED BY <1>2, <1>7, <1>8, <1>9 DEF RowsFollow

\* Filed rows are left alone, marked, or added to by a commit.
LEMMA RowsLast ==
    ASSUME TypeOK, [Next]_vars
    PROVE  \/ UNCHANGED filed
           \/ (\E from : RowsFollow(from))
              /\ UNCHANGED <<session, staged, lastEntry, raced>>
              /\ (UNCHANGED req \/ \E r \in Requests : Finish(r))
           \/ \E r \in Requests : CommitReport(r)
<1>1. ASSUME NEW r \in Requests, OpenSession(r) PROVE UNCHANGED filed
  BY <1>1 DEF OpenSession, FindDraft, ResumeDraft, CreateDraft, tables
<1>2. ASSUME NEW r \in Requests, EditSession(r) PROVE UNCHANGED filed
  BY <1>2 DEF EditSession, SaveEntry, DeleteEntry, ResetSession, Call,
              CountStaged, UpsertEntry, RemoveEntry, RemoveAll, tables
<1>3. ASSUME NEW r \in Requests, EnqueueRow(r) PROVE \E from : RowsFollow(from)
  <2>1. PICK f \in ToEnqueue(r) : SetPost({f}, "queued") \/ SetPost({f}, "lost")
    BY <1>3 DEF EnqueueRow
  <2>2. {f} \in SUBSET filed
    BY DEF ToEnqueue
  <2> QED BY <2>1, <2>2, PostFollows
<1>4. ASSUME NEW r \in Requests, CrashAfterCommit(r)
      PROVE  \E from : RowsFollow(from)
  <2>1. ToEnqueue(r) \in SUBSET filed
    BY DEF ToEnqueue
  <2> QED BY <1>4, <2>1, PostFollows DEF CrashAfterCommit
<1>5. ASSUME NEW r \in Requests, Submit(r), ~CommitReport(r), ~EnqueueRow(r),
             ~CrashAfterCommit(r)
      PROVE  UNCHANGED filed
  BY <1>5 DEF Submit, SubmitSession, Call, ReadEntries, JudgeReport, Judge,
              CheckQuota, RollBack, Respond, tables
<1>6. ASSUME NEW r \in Requests, EnqueueRow(r)
      PROVE  UNCHANGED <<session, staged, lastEntry, raced, req>>
  BY <1>6 DEF EnqueueRow
<1>7. ASSUME NEW r \in Requests, CrashAfterCommit(r)
      PROVE  UNCHANGED <<session, staged, lastEntry, raced>> /\ Finish(r)
  BY <1>7 DEF CrashAfterCommit
<1>8. ASSUME NEW f \in filed, DeleteSubmission(f)
      PROVE  UNCHANGED <<session, staged, lastEntry, raced, req>>
  BY <1>8 DEF DeleteSubmission
<1>9. CASE UNCHANGED vars
  BY <1>9 DEF vars
<1>10. ASSUME NEW r \in Requests, Submit(r) \/ EnqueueRow(r)
       PROVE  \/ UNCHANGED filed
              \/ (\E from : RowsFollow(from))
                 /\ UNCHANGED <<session, staged, lastEntry, raced>>
                 /\ (UNCHANGED req \/ \E o \in Requests : Finish(o))
              \/ \E o \in Requests : CommitReport(o)
  BY <1>3, <1>4, <1>5, <1>6, <1>7, <1>10
<1> QED BY <1>1, <1>2, <1>8, <1>9, <1>10, DeleteFollows DEF Next

\* An open session stays open, keeps its mode and its window, and a follow-up
\* its record; one that is submitted stays submitted, and what the submit
\* looked at is written by commits only.
LEMMA SessionsLast ==
    ASSUME TypeOK, [Next]_vars, NEW s \in Sessions, Open(s)
    PROVE  /\ Open(s)' /\ session'[s].mode = session[s].mode
           /\ session'[s].period = session[s].period
           /\ session[s].mode = "FOLLOW_UP" => session'[s].about = session[s].about
           /\ session[s].status = "SUBMITTED" => session'[s].status = "SUBMITTED"
           /\ \/ /\ session'[s].status = session[s].status
                 /\ session'[s].judged = session[s].judged
              \/ \E r \in Requests : CommitReport(r) /\ req[r].session = s
<1>0. session[s] \in SessionRow /\ session \in [Sessions -> SessionRow \cup {None}]
  BY DEF Open, TypeOK, SessionsTyped
<1>1. CASE UNCHANGED session
  BY <1>1 DEF Open
<1>2. ASSUME NEW r \in Requests, ResumeDraft(r), session'[s] # session[s]
      PROVE  session'[s] = [session[s] EXCEPT !.asked = req[r].asked]
  BY <1>0, <1>2 DEF ResumeDraft
<1>3. ASSUME NEW r \in Requests, CreateDraft(r) PROVE session'[s] = session[s]
  BY <1>0, <1>3 DEF CreateDraft, Open
<1>4. ASSUME NEW r \in Requests, CommitReport(r), session'[s] # session[s]
      PROVE  /\ req[r].session = s
             /\ session'[s] = [session[s] EXCEPT !.status = "SUBMITTED",
                                  !.about = RecordFor(r), !.judged = Visible(r)]
  BY <1>0, <1>4 DEF CommitReport, Close
<1>5. ASSUME NEW r \in Requests, req[r].session = s, session[s].mode = "FOLLOW_UP"
      PROVE  RecordFor(r) = session[s].about
  BY <1>5 DEF RecordFor, Bound, FollowUp
<1>6. Open(s)'
  <2>1. CASE session'[s] = session[s]
    BY <2>1 DEF Open
  <2>2. ASSUME NEW r \in Requests, ResumeDraft(r), session'[s] # session[s]
        PROVE  session'[s] \in SessionRow
    <3>1. req[r].asked \in SUBSET Steps
      BY DEF TypeOK, CallsTyped, CallRow
    <3> QED BY <1>0, <1>2, <2>2, <3>1 DEF SessionRow
  <2>3. ASSUME NEW r \in Requests, CommitReport(r), session'[s] # session[s]
        PROVE  session'[s] \in SessionRow
    <3>1. /\ ~At(r, "idle") /\ ~At(r, "open")
      BY <2>3 DEF CommitReport, FileUnder, At
    <3>2. RecordFor(r) \in Records \cup {None} /\ Visible(r) \in SUBSET Steps
      BY <3>1, RecordType, Editing DEF Visible, CallRow
    <3> QED BY <1>0, <1>4, <2>3, <3>2 DEF SessionRow
  <2> QED BY <1>3, <2>1, <2>2, <2>3, OtherSteps, SessionAssumption DEF Open
<1> QED
  <2>1. CASE session'[s] = session[s]
    BY <1>6, <2>1
  <2>2. ASSUME NEW r \in Requests, ResumeDraft(r), session'[s] # session[s]
        PROVE  /\ session'[s].mode = session[s].mode
               /\ session'[s].period = session[s].period
               /\ session'[s].about = session[s].about
               /\ session'[s].status = session[s].status
               /\ session'[s].judged = session[s].judged
    BY <1>0, <1>2, <2>2 DEF SessionRow
  <2>3. ASSUME NEW r \in Requests, CommitReport(r), session'[s] # session[s]
        PROVE  /\ session'[s].mode = session[s].mode
               /\ session'[s].period = session[s].period
               /\ session'[s].about = RecordFor(r)
               /\ session'[s].status = "SUBMITTED"
    BY <1>0, <1>4, <2>3 DEF SessionRow
  <2> QED BY <1>3, <1>4, <1>5, <1>6, <2>1, <2>2, <2>3, OtherSteps

\* A request that changes is one whose step this is, or, at a commit, one that
\* learns it is late.
Late(o) ==
    /\ req'[o].at = req[o].at /\ req'[o].session = req[o].session
    /\ req'[o].asked = req[o].asked /\ req'[o].read = req[o].read
    /\ req'[o].step = req[o].step /\ req'[o].index = req[o].index
    /\ req'[o].answer = req[o].answer /\ req[o].stale \subseteq req'[o].stale
Acts(o) == OpenSession(o) \/ EditSession(o) \/ Submit(o)

\* A step changes the call of the request that takes it only, or marks a late one.
LEMMA CallsLast ==
    ASSUME TypeOK, [Next]_vars, NEW o \in Requests
    PROVE  \/ req'[o] = req[o]
           \/ Acts(o)
           \/ Late(o) /\ \E r \in Requests \ {o} : CommitReport(r)
<1>0. req \in [Requests -> CallRow]
  BY DEF TypeOK, CallsTyped
<1>1. ASSUME NEW r \in Requests, r # o, OpenSession(r) \/ EditSession(r)
      PROVE  req'[o] = req[o]
  BY <1>0, <1>1 DEF OpenSession, FindDraft, ResumeDraft, CreateDraft, EditSession,
       SaveEntry, DeleteEntry, ResetSession, Call, CountStaged, UpsertEntry,
       RemoveEntry, RemoveAll, Finish, Goto
<1>2. ASSUME NEW r \in Requests, r # o, Submit(r), ~CommitReport(r)
      PROVE  req'[o] = req[o]
  BY <1>0, <1>2 DEF Submit, SubmitSession, Call, ReadEntries, JudgeReport, Judge,
       CheckQuota, RollBack, EnqueueRow, Respond, CrashAfterCommit, Finish, Goto
<1>3. ASSUME NEW r \in Requests, r # o, CommitReport(r), req'[o] # req[o]
      PROVE  Late(o)
  <2>1. /\ req[o] \in CallRow
        /\ req'[o] = [req[o] EXCEPT !.stale = NowStale(o, r, RecordFor(r))]
    BY <1>0, <1>3 DEF CommitReport, FileUnder
  <2>2. req[o].stale \subseteq NowStale(o, r, RecordFor(r))
    BY DEF NowStale
  <2> QED BY <2>1, <2>2 DEF Late, CallRow
<1>4. ASSUME NEW f \in filed, DeleteSubmission(f) PROVE req'[o] = req[o]
  BY <1>4 DEF DeleteSubmission
<1>5. CASE UNCHANGED vars
  BY <1>5 DEF vars
<1> QED BY <1>1, <1>2, <1>3, <1>4, <1>5 DEF Next, Acts

\* The steps of the request itself: how one gets to each part of a submit.
LEMMA OwnSteps ==
    ASSUME TypeOK, NEW o \in Requests, Acts(o)
    PROVE  \/ req'[o].at \notin Reading \cup {"count", "save"}
           \/ \E s \in Sessions : SaveEntry(o, s) \/ SubmitSession(o, s)
           \/ CountStaged(o) /\ req'[o] = [req[o] EXCEPT !.at = "save"]
           \/ ReadEntries(o)
           \/ JudgeReport(o) /\ req'[o] = [req[o] EXCEPT !.at = "quota"]
           \/ CheckQuota(o) /\ req'[o] = [req[o] EXCEPT !.at = "commit"]
           \/ EnqueueRow(o)
<1>0. req \in [Requests -> CallRow]
  BY DEF TypeOK, CallsTyped
<1> DEFINE Out == req'[o].at \notin Reading \cup {"count", "save"}
<1>1. ASSUME Finish(o) PROVE Out
  BY <1>0, <1>1 DEF Finish, Idle, Reading
<1>2. ASSUME NEW s, NEW kind, NEW there, NEW c \in CallRow, Call(o, s, kind, there, c)
      PROVE  req'[o].at = there
  BY <1>0, <1>2 DEF Call, CallRow
<1>3. CASE OpenSession(o)
  <2>1. ASSUME NEW p \in Respondents, NEW x \in Records \cup {None},
               NEW q \in Periods, FindDraft(o, p, x, q)
        PROVE  req'[o].at = "open"
    BY <1>0, <2>1 DEF FindDraft, Idle
  <2> QED BY <1>1, <1>3, <2>1 DEF OpenSession, ResumeDraft, CreateDraft, Reading
<1>4. ASSUME NEW s \in Sessions, DeleteEntry(o, s) \/ ResetSession(o, s) PROVE Out
  <2>1. CASE ResetSession(o, s)
    <3>1. req'[o].at = "reset"
      BY <1>2, <2>1, IdleCall DEF ResetSession
    <3> QED BY <3>1 DEF Reading
  <2>2. CASE DeleteEntry(o, s)
    <3>1. req'[o].at = "delete"
      BY <1>0, <2>2 DEF DeleteEntry, Call, Idle
    <3> QED BY <3>1 DEF Reading
  <2> QED BY <1>4, <2>1, <2>2
<1>5. CASE CountStaged(o) /\ ~Finish(o)
  BY <1>0, <1>5 DEF CountStaged, Goto
<1>6. CASE UpsertEntry(o) \/ RemoveEntry(o) \/ RemoveAll(o)
  BY <1>1, <1>6 DEF UpsertEntry, RemoveEntry, RemoveAll
<1>7. CASE EditSession(o)
  BY <1>1, <1>4, <1>5, <1>6, <1>7 DEF EditSession
<1>8. CASE JudgeReport(o) /\ ~Finish(o)
  BY <1>0, <1>8 DEF JudgeReport, Judge, Goto
<1>9. CASE CheckQuota(o) /\ ~Finish(o)
  BY <1>0, <1>9 DEF CheckQuota, Goto
<1>10. CASE CommitReport(o)
  <2>1. req'[o].at = "enqueue"
    BY <1>0, <1>10 DEF CommitReport, FileUnder, CallRow
  <2> QED BY <2>1 DEF Reading
<1>11. CASE RollBack(o) \/ Respond(o) \/ CrashAfterCommit(o)
  BY <1>1, <1>11 DEF RollBack, Respond, CrashAfterCommit
<1>12. CASE Submit(o)
  BY <1>1, <1>8, <1>9, <1>10, <1>11, <1>12 DEF Submit
<1> QED BY <1>3, <1>7, <1>12 DEF Acts

\* A submit that holds what it read has read it now, or held it before.
Held == {"history", "quota", "commit"}
\* What a submit holds was read by the step before, or held since.
LEMMA HeldLast ==
    ASSUME TypeOK, [Next]_vars, NEW o \in Requests, req'[o].at \in Held
    PROVE  \/ ReadEntries(o)
           \/ /\ req[o].at \in Held /\ req'[o].session = req[o].session
              /\ req'[o].asked = req[o].asked /\ req'[o].read = req[o].read
              /\ req[o].stale \subseteq req'[o].stale
              /\ \/ req'[o].at = req[o].at
                 \/ JudgeReport(o) /\ req'[o].at = "quota" /\ req'[o].stale = req[o].stale
                 \/ CheckQuota(o) /\ req'[o].at = "commit" /\ req'[o].stale = req[o].stale
<1>0. req \in [Requests -> CallRow]
  BY DEF TypeOK, CallsTyped
<1>1. CASE req'[o] = req[o]
  BY <1>1
<1>2. CASE Late(o)
  BY <1>2 DEF Late
<1>3. CASE Acts(o) /\ req'[o] # req[o]
  <2>1. ASSUME NEW s \in Sessions, SaveEntry(o, s) \/ SubmitSession(o, s) PROVE FALSE
    <3>1. CASE SubmitSession(o, s)
      BY <1>0, <3>1 DEF SubmitSession, Call, Idle, Held
    <3>2. CASE SaveEntry(o, s)
      BY <1>0, <3>2 DEF SaveEntry, Call, Idle, Held
    <3> QED BY <2>1, <3>1, <3>2
  <2>2. CASE JudgeReport(o) /\ req'[o] = [req[o] EXCEPT !.at = "quota"]
    BY <1>0, <2>2 DEF JudgeReport, Judge, At, Held, CallRow
  <2>3. CASE CheckQuota(o) /\ req'[o] = [req[o] EXCEPT !.at = "commit"]
    BY <1>0, <2>3 DEF CheckQuota, At, Held, CallRow
  <2>4. ASSUME CountStaged(o), req'[o] = [req[o] EXCEPT !.at = "save"] PROVE FALSE
    BY <1>0, <2>4 DEF Held, CallRow
  <2>5. ASSUME EnqueueRow(o) PROVE FALSE
    BY <1>3, <2>5 DEF EnqueueRow
  <2> QED BY <1>3, <2>1, <2>2, <2>3, <2>4, <2>5, OwnSteps DEF Held, Reading
<1> QED BY <1>1, <1>2, <1>3, CallsLast

\* A submit under way has begun now, on a draft, or was under way before.
LEMMA ReadingLast ==
    ASSUME TypeOK, [Next]_vars, NEW o \in Requests, req'[o].at \in Reading
    PROVE  \/ /\ \E s \in Sessions : SubmitSession(o, s)
              /\ Draft(req'[o].session)
           \/ /\ req[o].at \in Reading /\ req'[o].session = req[o].session
              /\ req[o].stale \subseteq req'[o].stale
<1>0. req \in [Requests -> CallRow]
  BY DEF TypeOK, CallsTyped
<1>1. CASE req'[o].at \in Held
  <2>1. CASE ReadEntries(o)
    BY <1>0, <2>1 DEF ReadEntries, At, Reading
  <2> QED BY <1>1, <2>1, HeldLast DEF Held, Reading
<1>2. CASE req'[o].at = "entries"
  <2>1. CASE Late(o) \/ req'[o] = req[o]
    BY <1>2, <2>1 DEF Late, Reading
  <2>2. ASSUME NEW s \in Sessions, SubmitSession(o, s)
        PROVE  Draft(req'[o].session)
    BY <1>0, <2>2 DEF SubmitSession, Call, Idle
  <2>3. ASSUME NEW s \in Sessions, SaveEntry(o, s) PROVE FALSE
    BY <1>0, <1>2, <2>3 DEF SaveEntry, Call, Idle
  <2>4. ASSUME ReadEntries(o) PROVE FALSE
    BY <1>0, <1>2, <2>4 DEF ReadEntries
  <2>5. ASSUME \/ req'[o] = [req[o] EXCEPT !.at = "save"]
               \/ req'[o] = [req[o] EXCEPT !.at = "quota"]
               \/ req'[o] = [req[o] EXCEPT !.at = "commit"]
        PROVE  FALSE
    BY <1>0, <1>2, <2>5 DEF CallRow
  <2>6. ASSUME EnqueueRow(o) PROVE req'[o] = req[o]
    BY <2>6 DEF EnqueueRow
  <2> QED BY <1>2, <2>1, <2>2, <2>3, <2>4, <2>5, <2>6, CallsLast, OwnSteps DEF Reading
<1> QED BY <1>1, <1>2 DEF Held, Reading

\* Saves, removals and commits write the staged entries, nothing else does.
Writes(r) == UpsertEntry(r) \/ RemoveEntry(r) \/ RemoveAll(r) \/ CommitReport(r)

\* Only the steps of Writes touch the entries.
LEMMA EntriesOther ==
    ASSUME [Next]_vars
    PROVE  \/ UNCHANGED <<staged, lastEntry, raced>>
           \/ \E r \in Requests : Writes(r)
<1>1. ASSUME NEW r \in Requests, OpenSession(r)
      PROVE  UNCHANGED <<staged, lastEntry, raced>>
  BY <1>1 DEF OpenSession, FindDraft, ResumeDraft, CreateDraft, tables
<1>2. ASSUME NEW r \in Requests, EditSession(r), ~Writes(r)
      PROVE  UNCHANGED <<staged, lastEntry, raced>>
  BY <1>2 DEF EditSession, SaveEntry, DeleteEntry, ResetSession, Call,
              CountStaged, Writes, tables
<1>3. ASSUME NEW r \in Requests, Submit(r), ~Writes(r)
      PROVE  UNCHANGED <<staged, lastEntry, raced>>
  BY <1>3 DEF Submit, SubmitSession, Call, ReadEntries, JudgeReport, Judge,
              CheckQuota, RollBack, EnqueueRow, Respond, CrashAfterCommit,
              Writes, tables
<1>4. ASSUME NEW f \in filed, DeleteSubmission(f)
      PROVE  UNCHANGED <<staged, lastEntry, raced>>
  BY <1>4 DEF DeleteSubmission
<1> QED BY <1>1, <1>2, <1>3, <1>4 DEF Next, vars

\* What an entry's row keeps: the session and the step it was staged for; the
\* answer, except at an upsert; its position, except at a removal.
SameEntry(e) ==
    /\ staged[e] # None
    /\ staged'[e].session = staged[e].session /\ staged'[e].step = staged[e].step
SameAnswer(e) == SameEntry(e) /\ staged'[e].answer = staged[e].answer

\* An entry keeps its answer, or is the one an upsert writes.
LEMMA EntriesWritten ==
    ASSUME TypeOK, NEW r \in Requests, Writes(r), NEW e \in EntryIds, staged'[e] # None
    PROVE  \/ SameAnswer(e)
           \/ /\ UpsertEntry(r)
              /\ SameEntry(e) \/ e > lastEntry
              /\ staged'[e].session = req[r].session
<1>0. /\ staged \in [EntryIds -> EntryRow \cup {None}] /\ lastEntry \in Nat
      /\ staged[e] # None => staged[e] \in EntryRow
  BY DEF TypeOK, EntriesTyped
<1>1. CASE UpsertEntry(r)
  <2> DEFINE old == EntryAt(req[r].session, req[r].step, req[r].index)
             row == [session |-> req[r].session, step |-> req[r].step,
                     index |-> req[r].index, answer |-> req[r].answer,
                     filedBy |-> None]
  <2>1. CASE /\ old # {}
             /\ staged' = [d \in EntryIds |-> IF d \in old
                     THEN [staged[d] EXCEPT !.answer = row.answer] ELSE staged[d]]
    <3>1. CASE e \in old
      <4>1. staged[e] # None /\ staged[e].session = req[r].session
        BY <3>1 DEF EntryAt, EntriesOf
      <4>2. staged'[e] = [staged[e] EXCEPT !.answer = row.answer]
        BY <2>1, <3>1
      <4> QED BY <1>0, <1>1, <4>1, <4>2 DEF SameEntry, EntryRow
    <3>2. CASE e \notin old
      BY <2>1, <3>2 DEF SameAnswer, SameEntry
    <3> QED BY <3>1, <3>2
  <2>2. CASE /\ lastEntry + 1 \in EntryIds
             /\ staged' = [staged EXCEPT ![lastEntry + 1] = row]
    <3>1. CASE e = lastEntry + 1
      <4>1. staged'[e] = row
        BY <1>0, <2>2, <3>1
      <4> QED BY <1>0, <1>1, <3>1, <4>1
    <3>2. CASE e # lastEntry + 1
      BY <1>0, <2>2, <3>2 DEF SameAnswer, SameEntry
    <3> QED BY <3>1, <3>2
  <2> QED BY <1>1, <2>1, <2>2 DEF UpsertEntry
<1>2. CASE RemoveEntry(r)
  <2>1. staged'[e] = staged[e] \/ /\ staged[e] # None
                                  /\ staged'[e] = [staged[e] EXCEPT !.index = @ - 1]
    BY <1>2 DEF RemoveEntry, EntriesOf
  <2>2. CASE staged'[e] = staged[e]
    BY <2>2 DEF SameAnswer, SameEntry
  <2>3. CASE staged[e] # None /\ staged'[e] = [staged[e] EXCEPT !.index = @ - 1]
    BY <1>0, <2>3 DEF SameAnswer, SameEntry, EntryRow
  <2> QED BY <2>1, <2>2, <2>3
<1>3. CASE RemoveAll(r)
  BY <1>3 DEF RemoveAll, SameAnswer, SameEntry
<1>4. CASE CommitReport(r)
  <2>1. staged'[e] = staged[e] \/ /\ staged[e] # None
                                  /\ staged'[e] = [staged[e] EXCEPT !.filedBy = r]
    BY <1>4 DEF CommitReport, FileUnder
  <2>2. CASE staged'[e] = staged[e]
    BY <2>2 DEF SameAnswer, SameEntry
  <2>3. CASE staged[e] # None /\ staged'[e] = [staged[e] EXCEPT !.filedBy = r]
    BY <1>0, <2>3 DEF SameAnswer, SameEntry, EntryRow
  <2> QED BY <2>1, <2>2, <2>3
<1> QED BY <1>1, <1>2, <1>3, <1>4 DEF Writes

\* An id that was handed out never comes to stand for another entry.
LEMMA EntriesLast ==
    ASSUME TypeOK, [Next]_vars, NEW e \in EntryIds, e <= lastEntry, staged'[e] # None
    PROVE  SameEntry(e)
<1>1. CASE UNCHANGED staged
  BY <1>1 DEF SameEntry
<1>2. lastEntry \in Nat /\ e \in Nat
  BY SessionAssumption DEF TypeOK, EntriesTyped
<1>3. ~(e > lastEntry)
  BY <1>2
<1> QED BY <1>1, <1>3, EntriesOther, EntriesWritten DEF SameAnswer

\* Entry ids only grow.
LEMMA IdsLast ==
    ASSUME TypeOK, [Next]_vars
    PROVE  lastEntry' \in Nat /\ lastEntry <= lastEntry'
<1>1. lastEntry \in Nat
  BY DEF TypeOK, EntriesTyped
<1>2. ASSUME NEW r \in Requests, Writes(r)
      PROVE  lastEntry' = lastEntry \/ lastEntry' = lastEntry + 1
  BY <1>2 DEF Writes, UpsertEntry, RemoveEntry, RemoveAll, CommitReport, FileUnder
<1> QED BY <1>1, <1>2, EntriesOther

\* The history of races only grows.
LEMMA RacesGrow ==
    ASSUME [Next]_vars
    PROVE  raced \subseteq raced'
<1>1. ASSUME NEW r \in Requests, Writes(r) PROVE raced \subseteq raced'
  BY <1>1 DEF Writes, UpsertEntry, RemoveEntry, RemoveAll, CommitReport, FileUnder
<1> QED BY <1>1, EntriesOther

\* While a submit holds what it read of a session, and once the session is
\* submitted, a save that changes an answer in it is a race.
LEMMA AnswersLast ==
    ASSUME TypeOK, [Next]_vars, NEW s \in Sessions, s \notin raced',
           ~Draft(s) \/ \E o \in Requests : Submitting(o, s),
           NEW e \in EntryIds, e \in EntriesOf(s)'
    PROVE  e \in EntriesOf(s) /\ SameAnswer(e)
<1>1. staged'[e] # None /\ staged'[e].session = s
  BY DEF EntriesOf
<1>2. SameAnswer(e)
  <2>1. CASE UNCHANGED staged
    BY <1>1, <2>1 DEF SameAnswer, SameEntry
  <2>2. ASSUME NEW r \in Requests, UpsertEntry(r), req[r].session = s PROVE FALSE
    BY <2>2 DEF UpsertEntry, TypeOK
  <2> QED BY <1>1, <2>1, <2>2, EntriesOther, EntriesWritten
<1> QED BY <1>1, <1>2 DEF SameAnswer, SameEntry, EntriesOf

-----------------------------------------------------------------------------
(* An entry is filed once.                                                 *)

Own(e, s) == staged[e] = None \/ staged[e].session = s

\* A filed row comes from an entry of a session that is submitted, ...
RowsOwned ==
    \A f \in filed :
        /\ Open(f.session) /\ session[f.session].status = "SUBMITTED"
        /\ f.entry <= lastEntry /\ Own(f.entry, f.session)

\* ... a submit reads each entry of its session once, of steps it looks at, ...
ReadsOwned ==
    \A r \in Requests : req[r].at \in Held =>
        \A d \in req[r].read :
            /\ d.id <= lastEntry /\ Own(d.id, req[r].session)
            /\ d.step \in Visible(r)
            /\ \A e \in req[r].read : d.id = e.id => d = e

\* ... and is late when something of its session was filed after it began.
LateTold ==
    \A r \in Requests : req[r].at \in Reading =>
        \A f \in filed : f.session = req[r].session => "session" \in req[r].stale

OnceInv == RowsOwned /\ ReadsOwned /\ LateTold /\ EntryFiledOnce

\* A row that is filed now comes from the commit, or is one of before.
LEMMA RowsBefore ==
    ASSUME TypeOK, [Next]_vars, NEW f \in filed'
    PROVE  \/ \E g \in filed : SameRow(f, g)
           \/ \E r \in Requests : CommitReport(r) /\ f \in RowsOf(r, RecordFor(r))
<1>1. CASE f \in filed
  BY <1>1 DEF SameRow
<1>2. ASSUME NEW from, RowsFollow(from) PROVE \E g \in filed : SameRow(f, g)
  BY <1>2 DEF RowsFollow
<1>3. ASSUME NEW r \in Requests, CommitReport(r)
      PROVE  f \in filed \/ f \in RowsOf(r, RecordFor(r))
  BY <1>3 DEF CommitReport, FileUnder
<1> QED BY <1>1, <1>2, <1>3, RowsLast

\* What a submit knows of its session, and what it asked for, stays as it is.
LEMMA ViewLast ==
    ASSUME TypeOK, [Next]_vars, NEW o \in Requests, req[o].at \in Reading,
           req'[o].session = req[o].session
    PROVE  /\ req[o].session \in Sessions /\ Open(req[o].session)
           /\ FollowUp(o)' <=> FollowUp(o)
           /\ FollowUp(o) => Bound(o)' = Bound(o)
           /\ req'[o].asked = req[o].asked => Visible(o)' = Visible(o)
<1>1. req[o].session \in Sessions /\ Open(req[o].session)
  BY Editing DEF At, Reading
<1> QED BY <1>1, SessionsLast DEF FollowUp, Bound, Visible

\* The rows of a commit.
LEMMA CommitRows ==
    ASSUME TypeOK, NEW r \in Requests, CommitReport(r), NEW x,
           NEW f \in RowsOf(r, x)
    PROVE  \E d \in req[r].read :
              /\ d \in ReadRow
              /\ f.entry = d.id /\ f.step = d.step /\ f.answer = d.answer
              /\ f.session = req[r].session /\ f.record = x
              /\ f.period = session[req[r].session].period
              /\ f.live /\ f.stale = req[r].stale
<1>1. req[r] \in CallRow
  BY DEF TypeOK, CallsTyped
<1> QED BY <1>1 DEF RowsOf, CallRow

\* A commit closes its session, and finds its entries where they were read.
LEMMA CommitCloses ==
    ASSUME TypeOK, NEW r \in Requests, CommitReport(r)
    PROVE  /\ req[r].at = "commit" /\ req[r].session \in Sessions
           /\ Open(req[r].session) /\ Open(req[r].session)'
           /\ session'[req[r].session].status = "SUBMITTED"
           /\ session'[req[r].session].judged = Visible(r)
           /\ \A d \in req[r].read : staged[d.id] # None
           /\ filed' = filed \cup RowsOf(r, RecordFor(r))
           /\ req'[r].at = "enqueue"
           /\ \A o \in Requests \ {r} : req[o].at \in Reading =>
                 req'[o] = [req[o] EXCEPT !.stale = NowStale(o, r, RecordFor(r))]
<1>1. req[r].at = "commit" /\ ~At(r, "idle") /\ ~At(r, "open")
  BY DEF CommitReport, FileUnder, At
<1>2. /\ req[r].session \in Sessions /\ Open(req[r].session)
      /\ session[req[r].session] \in SessionRow /\ req[r] \in CallRow
  BY <1>1, Editing
<1>3. session' = [session EXCEPT ![req[r].session] =
            [@ EXCEPT !.status = "SUBMITTED", !.about = RecordFor(r),
                      !.judged = Visible(r)]]
  BY DEF CommitReport, Close
<1>4. /\ session'[req[r].session].status = "SUBMITTED"
      /\ session'[req[r].session].judged = Visible(r)
  BY <1>2, <1>3 DEF TypeOK, SessionsTyped, SessionRow
<1>5. Open(req[r].session)'
  <2>1. [Next]_vars
    BY DEF Next, Submit
  <2>2. Open(req[r].session) => session'[req[r].session] # None
    BY <1>2, <2>1, SessionsLast DEF Open
  <2>3. req'[r].session = req[r].session
    BY <1>2 DEF CommitReport, FileUnder, CallRow
  <2> QED BY <1>2, <2>2, <2>3 DEF Open
<1>6. /\ filed' = filed \cup RowsOf(r, RecordFor(r))
      /\ \A d \in req[r].read : staged[d.id] # None
  BY DEF CommitReport, FileUnder
<1>7. req' = [o \in Requests |->
            IF o = r THEN [req[r] EXCEPT !.at = "enqueue"]
            ELSE IF req[o].at \in Reading
            THEN [req[o] EXCEPT !.stale = NowStale(o, r, RecordFor(r))] ELSE req[o]]
  BY DEF CommitReport, FileUnder
<1>8. req'[r].at = "enqueue"
  BY <1>2, <1>7 DEF CallRow
<1> QED BY <1>1, <1>2, <1>4, <1>5, <1>6, <1>7, <1>8

\* An entry of a session never becomes one of another.
LEMMA OwnLast ==
    ASSUME TypeOK, [Next]_vars, NEW e \in EntryIds, e <= lastEntry, NEW s, Own(e, s)
    PROVE  e <= lastEntry' /\ (staged'[e] = None \/ staged'[e].session = s)
<1>1. lastEntry \in Nat /\ e \in Nat
  BY SessionAssumption DEF TypeOK, EntriesTyped
<1>2. e <= lastEntry'
  BY <1>1, IdsLast
<1> QED BY <1>2, EntriesLast DEF Own, SameEntry

\* Each step preserves RowsOwned: only a commit files, and it files what it owns.
LEMMA RowsOwnedStep ==
    ASSUME TypeOK, OnceInv, [Next]_vars
    PROVE  RowsOwned'
<1> SUFFICES ASSUME NEW f \in filed'
             PROVE  /\ Open(f.session)' /\ session'[f.session].status = "SUBMITTED"
                    /\ f.entry <= lastEntry' /\ Own(f.entry, f.session)'
  BY DEF RowsOwned
<1>0. /\ f.entry \in EntryIds /\ f.session \in Sessions
      /\ lastEntry \in Nat /\ EntryIds \subseteq Nat
  BY TypeStep, SessionAssumption DEF TypeOK, RowsTyped, FiledRow, EntriesTyped
<1>1. ASSUME f.entry <= lastEntry, Own(f.entry, f.session)
      PROVE  f.entry <= lastEntry' /\ Own(f.entry, f.session)'
  BY <1>0, <1>1, OwnLast DEF Own
<1>2. ASSUME NEW g \in filed, SameRow(f, g)
      PROVE  /\ Open(f.session)' /\ session'[f.session].status = "SUBMITTED"
             /\ f.entry <= lastEntry /\ Own(f.entry, f.session)
  BY <1>0, <1>2, SessionsLast DEF SameRow, OnceInv, RowsOwned
<1>3. ASSUME NEW r \in Requests, CommitReport(r), f \in RowsOf(r, RecordFor(r))
      PROVE  /\ Open(f.session)' /\ session'[f.session].status = "SUBMITTED"
             /\ f.entry <= lastEntry /\ Own(f.entry, f.session)
  <2>1. PICK d \in req[r].read : f.entry = d.id /\ f.session = req[r].session
    BY <1>3, CommitRows
  <2>2. req[r].at \in Held
    BY <1>3, CommitCloses DEF Held
  <2>3. d.id <= lastEntry /\ Own(d.id, req[r].session)
    BY <2>2 DEF OnceInv, ReadsOwned
  <2>4. /\ Open(req[r].session)' /\ session'[req[r].session].status = "SUBMITTED"
    BY <1>3, CommitCloses
  <2>5. Open(f.session)'
    BY <1>0, <1>3, <2>1, CommitCloses, SessionsLast DEF Open
  <2> QED BY <2>1, <2>3, <2>4, <2>5
<1> QED BY <1>1, <1>2, <1>3, RowsBefore

\* Each step preserves ReadsOwned: an entry read keeps its owner.
LEMMA ReadsOwnedStep ==
    ASSUME TypeOK, OnceInv, [Next]_vars
    PROVE  ReadsOwned'
<1> SUFFICES ASSUME NEW o \in Requests, req'[o].at \in Held, NEW d \in req'[o].read
             PROVE  /\ d.id <= lastEntry' /\ Own(d.id, req[o].session)'
                    /\ d.step \in Visible(o)'
                    /\ \A e \in req'[o].read : d.id = e.id => d = e
  BY DEF ReadsOwned
<1>0. /\ lastEntry \in Nat /\ EntryIds \subseteq Nat /\ req \in [Requests -> CallRow]
      /\ d.id \in EntryIds
  BY TypeStep, SessionAssumption DEF TypeOK, EntriesTyped, CallsTyped, CallRow, ReadRow
<1>1. CASE ReadEntries(o)
  <2>1. /\ req'[o].session = req[o].session /\ req'[o].asked = req[o].asked
        /\ req[o].at \in Reading
        /\ UNCHANGED <<staged, lastEntry>>
    BY <1>0, <1>1 DEF ReadEntries, tables, At, Reading
  <2> DEFINE mine == {c \in EntriesOf(req[o].session) : staged[c].step \in Visible(o)}
             rowof(c) == [id |-> c, step |-> staged[c].step,
                          index |-> staged[c].index, answer |-> staged[c].answer]
  <2>2. req'[o].read = {rowof(c) : c \in mine}
    BY <1>0, <1>1 DEF ReadEntries
  <2>3. PICK c \in mine : d = rowof(c)
    BY <2>2
  <2>4. c \in EntryIds /\ staged[c] # None /\ staged[c].session = req[o].session
    BY DEF EntriesOf
  <2>5. c <= lastEntry
    <3>1. ~(c > lastEntry)
      BY <2>4 DEF TypeOK, EntriesTyped
    <3>2. c \in Nat /\ lastEntry \in Nat
      BY <1>0, <2>4
    <3> HIDE DEF mine, rowof
    <3> QED BY <3>1, <3>2
  <2>6. Visible(o)' = Visible(o)
    BY <2>1, ViewLast
  <2>7. \A e \in req'[o].read : d.id = e.id => d = e
    BY <2>2, <2>3
  <2> QED BY <2>1, <2>3, <2>4, <2>5, <2>6, <2>7 DEF Own
<1>2. CASE /\ req[o].at \in Held /\ req'[o].session = req[o].session
           /\ req'[o].asked = req[o].asked /\ req'[o].read = req[o].read
  <2>1. /\ d.id <= lastEntry /\ Own(d.id, req[o].session) /\ d.step \in Visible(o)
        /\ \A e \in req[o].read : d.id = e.id => d = e
    BY <1>2 DEF OnceInv, ReadsOwned
  <2>2. Visible(o)' = Visible(o)
    BY <1>2, ViewLast DEF Held, Reading
  <2>3. d.id <= lastEntry' /\ Own(d.id, req[o].session)'
    BY <1>0, <1>2, <2>1, OwnLast DEF Own
  <2> QED BY <1>2, <2>1, <2>2, <2>3
<1> QED BY <1>1, <1>2, HeldLast

\* Each step preserves LateTold: a commit marks the other submits of its session.
LEMMA LateToldStep ==
    ASSUME TypeOK, OnceInv, [Next]_vars
    PROVE  LateTold'
<1> SUFFICES ASSUME NEW o \in Requests, req'[o].at \in Reading, NEW f \in filed',
                    f.session = req'[o].session
             PROVE  "session" \in req'[o].stale
  BY DEF LateTold
<1>1. ASSUME NEW g \in filed, SameRow(f, g) PROVE "session" \in req'[o].stale
  <2>1. ~Draft(req'[o].session)
    BY <1>1 DEF SameRow, OnceInv, RowsOwned, Draft
  <2>2. req[o].at \in Reading /\ req'[o].session = req[o].session
        /\ req[o].stale \subseteq req'[o].stale
    BY <2>1, ReadingLast
  <2>3. g.session = req[o].session
    BY <1>1, <2>2 DEF SameRow
  <2> QED BY <2>2, <2>3 DEF OnceInv, LateTold
<1>2. ASSUME NEW r \in Requests, CommitReport(r), f \in RowsOf(r, RecordFor(r))
      PROVE  "session" \in req'[o].stale
  <2>1. f.session = req[r].session
    BY <1>2, CommitRows
  <2>2. o # r
    BY <1>2, CommitCloses DEF Reading
  <2>3. req[o].at \in Reading
    <3>1. req[o].at \notin Reading => req'[o] = req[o]
      BY <1>2, <2>2 DEF CommitReport, FileUnder
    <3> QED BY <3>1
  <2>4. /\ req[o] \in CallRow
        /\ req'[o] = [req[o] EXCEPT !.stale = NowStale(o, r, RecordFor(r))]
    BY <1>2, <2>2, <2>3, CommitCloses DEF TypeOK, CallsTyped
  <2>5. req[o].session = req[r].session
    BY <2>1, <2>4 DEF CallRow
  <2>6. "session" \in NowStale(o, r, RecordFor(r))
    BY <2>5 DEF NowStale
  <2> QED BY <2>4, <2>6 DEF CallRow
<1> QED BY <1>1, <1>2, RowsBefore

\* Each step preserves EntryFiledOnce.
LEMMA FiledOnceStep ==
    ASSUME TypeOK, OnceInv, [Next]_vars
    PROVE  EntryFiledOnce'
<1> SUFFICES ASSUME NEW f \in filed', NEW g \in filed', f # g, f.entry = g.entry
             PROVE  "session" \in f.stale \cup g.stale
  BY DEF EntryFiledOnce
<1>1. CASE UNCHANGED filed
  BY <1>1 DEF OnceInv, EntryFiledOnce
<1>2. ASSUME NEW from, RowsFollow(from) PROVE "session" \in f.stale \cup g.stale
  <2>1. from[f] \in filed /\ from[g] \in filed /\ from[f] # from[g]
    BY <1>2 DEF RowsFollow
  <2>2. SameRow(f, from[f]) /\ SameRow(g, from[g])
    BY <1>2 DEF RowsFollow
  <2> QED BY <2>1, <2>2 DEF SameRow, OnceInv, EntryFiledOnce
<1>3. ASSUME NEW r \in Requests, CommitReport(r)
      PROVE  "session" \in f.stale \cup g.stale
  <2> DEFINE rows == RowsOf(r, RecordFor(r))
  <2>0. /\ filed' = filed \cup rows /\ req[r].at \in Held /\ req[r].at \in Reading
        /\ \A d \in req[r].read : staged[d.id] # None
    BY <1>3, CommitCloses DEF Held, Reading
  <2>1. ASSUME NEW h \in filed, NEW n \in rows, h.entry = n.entry
        PROVE  "session" \in n.stale
    <3>1. PICK d \in req[r].read : n.entry = d.id /\ n.stale = req[r].stale
      BY <1>3, CommitRows
    <3>2. staged[d.id].session = req[r].session
      BY <2>0 DEF OnceInv, ReadsOwned, Own
    <3>3. staged[d.id].session = h.session
      BY <2>0, <2>1, <3>1 DEF OnceInv, RowsOwned, Own
    <3> QED BY <2>0, <3>1, <3>2, <3>3 DEF OnceInv, LateTold
  <2>2. ASSUME f \in rows, g \in rows PROVE FALSE
    <3>1. PICK d \in req[r].read : f = [entry |-> d.id, by |-> r,
              session |-> req[r].session, record |-> RecordFor(r), step |-> d.step,
              period |-> session[req[r].session].period,
              key |-> IF RecordFor(r) = None THEN None ELSE KeyOf(r, d),
              answer |-> d.answer, live |-> TRUE, post |-> "none",
              stale |-> req[r].stale]
      BY <2>2 DEF RowsOf
    <3>2. PICK e \in req[r].read : g = [entry |-> e.id, by |-> r,
              session |-> req[r].session, record |-> RecordFor(r), step |-> e.step,
              period |-> session[req[r].session].period,
              key |-> IF RecordFor(r) = None THEN None ELSE KeyOf(r, e),
              answer |-> e.answer, live |-> TRUE, post |-> "none",
              stale |-> req[r].stale]
      BY <2>2 DEF RowsOf
    <3>3. d = e
      BY <2>0, <3>1, <3>2 DEF OnceInv, ReadsOwned
    <3> QED BY <3>1, <3>2, <3>3
  <2>3. CASE f \in filed /\ g \in filed
    BY <2>3 DEF OnceInv, EntryFiledOnce
  <2> QED BY <2>0, <2>1, <2>2, <2>3
<1> QED BY <1>1, <1>2, <1>3, RowsLast

\* An entry is filed once, unless two submits of its session overlapped,
\* however many of them run and whatever is saved and removed meanwhile.
THEOREM EntryFiledOnceCorrect == Spec => []EntryFiledOnce
<1>1. Init => TypeOK /\ OnceInv
  <2> SUFFICES ASSUME Init PROVE OnceInv
    BY TypeInit
  <2>1. filed = {} /\ \A r \in Requests : req[r].at = "idle"
    BY DEF Init, Idle
  <2> QED BY <2>1 DEF OnceInv, RowsOwned, ReadsOwned, LateTold, EntryFiledOnce,
                      Held, Reading
<1>2. TypeOK /\ OnceInv /\ [Next]_vars => (TypeOK /\ OnceInv)'
  BY TypeStep, RowsOwnedStep, ReadsOwnedStep, LateToldStep, FiledOnceStep DEF OnceInv
<1>3. OnceInv => EntryFiledOnce
  BY DEF OnceInv
<1> QED BY <1>1, <1>2, <1>3, PTL DEF Spec

-----------------------------------------------------------------------------
(* Nothing that was staged is left behind.                                 *)

\* A submit holds every entry of its session that it looks at, with the answer
\* that is staged, unless a save raced with it.
AllRead ==
    \A r \in Requests :
        req[r].at \in Held /\ req[r].session \notin raced =>
            \A e \in EntriesOf(req[r].session) : staged[e].step \in Visible(r) =>
                \E d \in req[r].read : d.id = e /\ d.answer = staged[e].answer

\* Each step preserves AllRead: a save a submit has not read is a race told.
LEMMA AllReadStep ==
    ASSUME TypeOK, AllRead, [Next]_vars
    PROVE  AllRead'
<1> SUFFICES ASSUME NEW o \in Requests, req'[o].at \in Held,
                    req'[o].session \notin raced',
                    NEW e \in EntryIds, e \in EntriesOf(req[o].session)',
                    staged'[e].step \in Visible(o)'
             PROVE  \E d \in req'[o].read : d.id = e /\ d.answer = staged'[e].answer
  BY DEF AllRead, EntriesOf
<1>0. req \in [Requests -> CallRow]
  BY DEF TypeOK, CallsTyped
<1>1. CASE ReadEntries(o)
  <2>1. /\ req'[o].session = req[o].session /\ req'[o].asked = req[o].asked
        /\ req[o].at \in Reading /\ UNCHANGED staged
    BY <1>0, <1>1 DEF ReadEntries, tables, At, Reading
  <2> DEFINE mine == {c \in EntriesOf(req[o].session) : staged[c].step \in Visible(o)}
             rowof(c) == [id |-> c, step |-> staged[c].step,
                          index |-> staged[c].index, answer |-> staged[c].answer]
  <2>2. req'[o].read = {rowof(c) : c \in mine}
    BY <1>0, <1>1 DEF ReadEntries
  <2>3. Visible(o)' = Visible(o)
    BY <2>1, ViewLast
  <2>4. e \in mine
    BY <2>1, <2>3 DEF EntriesOf
  <2>5. rowof(e) \in req'[o].read /\ rowof(e).id = e /\ rowof(e).answer = staged[e].answer
    BY <2>2, <2>4
  <2> QED BY <2>1, <2>5
<1>2. CASE /\ req[o].at \in Held /\ req'[o].session = req[o].session
           /\ req'[o].asked = req[o].asked /\ req'[o].read = req[o].read
  <2>1. req[o].session \in Sessions /\ Visible(o)' = Visible(o)
    BY <1>2, ViewLast DEF Held, Reading
  <2>2. Submitting(o, req[o].session)
    BY <1>2 DEF Submitting, Held
  <2>3. req[o].session \notin raced
    BY <1>2, <2>1, RacesGrow
  <2>4. PICK s \in Sessions : s = req[o].session
    BY <2>1
  <2>5. e \in EntriesOf(s) /\ SameAnswer(e)
    <3>1. Submitting(o, s) /\ s \notin raced'
      BY <1>2, <2>2, <2>4
    <3>2. e \in EntriesOf(s)'
      BY <1>2, <2>4 DEF EntriesOf
    <3> QED BY <3>1, <3>2, AnswersLast
  <2>6. e \in EntriesOf(req[o].session) /\ staged[e].step \in Visible(o)
    BY <2>1, <2>4, <2>5 DEF SameAnswer, SameEntry
  <2> QED BY <1>2, <2>3, <2>5, <2>6 DEF AllRead, SameAnswer, SameEntry
<1> QED BY <1>1, <1>2, HeldLast

\* A row that is filed stays filed, with its answer.
LEMMA RowsStay ==
    ASSUME TypeOK, [Next]_vars, NEW f \in filed
    PROVE  \E g \in filed' : SameRow(g, f)
<1>1. CASE f \in filed'
  BY <1>1 DEF SameRow
<1>2. ASSUME NEW from, RowsFollow(from) PROVE \E g \in filed' : SameRow(g, f)
  BY <1>2 DEF RowsFollow
<1>3. ASSUME NEW r \in Requests, CommitReport(r) PROVE f \in filed'
  BY <1>3, CommitCloses
<1> QED BY <1>1, <1>2, <1>3, RowsLast

\* Each step preserves NothingLeftBehind.
LEMMA LeftBehindStep ==
    ASSUME TypeOK, AllRead, NothingLeftBehind, [Next]_vars
    PROVE  NothingLeftBehind'
<1> SUFFICES ASSUME NEW s \in Sessions, Open(s)', session'[s].status = "SUBMITTED",
                    s \notin raced',
                    NEW e \in EntryIds, e \in EntriesOf(s)',
                    staged'[e].step \in session'[s].judged
             PROVE  \E f \in filed' : f.entry = e /\ f.answer = staged'[e].answer
  BY DEF NothingLeftBehind, EntriesOf
<1>1. s \notin raced
  BY RacesGrow
<1>2. CASE /\ Open(s) /\ session[s].status = "SUBMITTED"
           /\ session'[s].judged = session[s].judged
  <2>1. ~Draft(s)
    BY <1>2 DEF Draft
  <2>2. e \in EntriesOf(s) /\ SameAnswer(e)
    BY <2>1, AnswersLast
  <2>3. PICK f \in filed : f.entry = e /\ f.answer = staged[e].answer
    BY <1>1, <1>2, <2>2 DEF NothingLeftBehind, SameAnswer, SameEntry
  <2>4. PICK g \in filed' : SameRow(g, f)
    BY RowsStay
  <2> QED BY <2>2, <2>3, <2>4 DEF SameRow, SameAnswer
<1>3. ASSUME NEW r \in Requests, CommitReport(r), req[r].session = s
      PROVE  \E f \in filed' : f.entry = e /\ f.answer = staged'[e].answer
  <2>1. /\ req[r].at \in Held /\ session'[s].judged = Visible(r)
        /\ filed' = filed \cup RowsOf(r, RecordFor(r))
    BY <1>3, CommitCloses DEF Held
  <2>2. Submitting(r, s)
    BY <1>3, CommitCloses DEF Submitting
  <2>3. e \in EntriesOf(s) /\ SameAnswer(e)
    BY <2>2, AnswersLast
  <2>4. PICK d \in req[r].read : d.id = e /\ d.answer = staged[e].answer
    BY <1>1, <1>3, <2>1, <2>3 DEF AllRead, SameAnswer, SameEntry
  <2>5. \E f \in RowsOf(r, RecordFor(r)) : f.entry = d.id /\ f.answer = d.answer
    <3> DEFINE x == RecordFor(r)
               f == [entry |-> d.id, by |-> r, session |-> req[r].session,
                     record |-> x, step |-> d.step,
                     period |-> session[req[r].session].period,
                     key |-> IF x = None THEN None ELSE KeyOf(r, d),
                     answer |-> d.answer, live |-> TRUE, post |-> "none",
                     stale |-> req[r].stale]
    <3>1. f \in RowsOf(r, x)
      BY DEF RowsOf
    <3>2. f.entry = d.id /\ f.answer = d.answer
      OBVIOUS
    <3> HIDE DEF f
    <3> QED BY <3>1, <3>2
  <2> QED BY <2>1, <2>3, <2>4, <2>5 DEF SameAnswer
<1>4. CASE ~Open(s)
  <2>1. ASSUME NEW r \in Requests, ResumeDraft(r) PROVE FALSE
    <3>1. req[r].session \in Sessions /\ Open(req[r].session)
      BY <2>1 DEF ResumeDraft, TypeOK, CallsTyped, CallOK, CallRow
    <3>2. session'[s] = session[s]
      BY <1>4, <2>1, <3>1 DEF ResumeDraft, TypeOK, SessionsTyped
    <3> QED BY <1>4, <3>2 DEF Open
  <2>2. ASSUME NEW r \in Requests, CreateDraft(r) PROVE FALSE
    <3>1. session'[s] = session[s] \/ session'[s] = NewSession(r)
      BY <2>2 DEF CreateDraft, TypeOK, SessionsTyped
    <3>2. NewSession(r).status = "DRAFT"
      BY DEF NewSession
    <3> QED BY <1>4, <3>1, <3>2 DEF Open
  <2>3. ASSUME NEW r \in Requests, CommitReport(r) PROVE FALSE
    <3>1. req[r].session # s
      BY <1>4, <2>3, CommitCloses
    <3>2. session'[s] = session[s]
      BY <2>3, <3>1 DEF CommitReport, Close, TypeOK, SessionsTyped
    <3> QED BY <1>4, <3>2 DEF Open
  <2> QED BY <1>4, <2>1, <2>2, <2>3, OtherSteps DEF Open
<1> QED BY <1>2, <1>3, <1>4, SessionsLast

\* What a submitted session still holds is what was filed from it, of the steps
\* its submit looked at, unless a save overlapped the submit: no entry is left
\* behind, whatever was removed, renumbered or filed twice meanwhile.
THEOREM NothingLeftBehindCorrect == Spec => []NothingLeftBehind
<1>1. Init => TypeOK /\ AllRead /\ NothingLeftBehind
  <2> SUFFICES ASSUME Init PROVE AllRead /\ NothingLeftBehind
    BY TypeInit
  <2>1. \A r \in Requests : req[r].at = "idle"
    BY DEF Init, Idle
  <2>2. \A s \in Sessions : Open(s) => session[s].status = "DRAFT"
    BY StartAssumption DEF Init, Open
  <2> QED BY <2>1, <2>2 DEF AllRead, NothingLeftBehind, Held
<1>2. TypeOK /\ AllRead /\ NothingLeftBehind /\ [Next]_vars
        => (TypeOK /\ AllRead /\ NothingLeftBehind)'
  BY TypeStep, AllReadStep, LeftBehindStep
<1> QED BY <1>1, <1>2, PTL DEF Spec

-----------------------------------------------------------------------------
(* The limit on staged entries.                                            *)

\* The entries of a session are finitely many: their ids were handed out.
LEMMA EntriesFinite ==
    ASSUME TypeOK, NEW s, NEW mine \in SUBSET EntriesOf(s)
    PROVE  IsFiniteSet(mine)
<1>1. mine \in SUBSET Nat /\ lastEntry \in Nat
  BY SessionAssumption DEF EntriesOf, TypeOK, EntriesTyped
<1>2. \A e \in mine : ~(e > lastEntry)
  BY DEF EntriesOf, TypeOK, EntriesTyped
<1>3. \A e \in mine : e <= lastEntry
  BY <1>1, <1>2
<1> QED BY <1>1, <1>3, FS_BoundedSetOfNaturals

\* A submit that reads goes on to the history.
LEMMA ReadNow ==
    ASSUME TypeOK, NEW o \in Requests, ReadEntries(o)
    PROVE  req'[o].at = "history"
<1>1. req \in [Requests -> CallRow] /\ req[o] \in CallRow
  BY DEF TypeOK, CallsTyped
<1> QED BY <1>1 DEF ReadEntries, CallRow

\* The saves of session s that have counted its entries and not written yet.
Waiting(s) == {r \in Requests : req[r].at = "save" /\ req[r].session = s}

\* Each of them will add one entry at most.
StagedTold ==
    \A s \in Sessions :
        Cardinality(EntriesOf(s)) + Cardinality(Waiting(s))
            <= MaxStaged + Cardinality(Requests) - 1

\* Only an upsert adds an entry, one, to the session it is for.
LEMMA EntriesGrow ==
    ASSUME TypeOK, [Next]_vars, NEW s \in Sessions
    PROVE  \/ EntriesOf(s)' \subseteq EntriesOf(s)
           \/ \E r \in Requests :
                 /\ UpsertEntry(r) /\ req[r].session = s
                 /\ EntriesOf(s)' \subseteq EntriesOf(s) \cup {lastEntry + 1}
<1>1. CASE UNCHANGED staged
  BY <1>1 DEF EntriesOf
<1>2. ASSUME NEW r \in Requests, Writes(r), ~(UpsertEntry(r) /\ req[r].session = s)
      PROVE  EntriesOf(s)' \subseteq EntriesOf(s)
  BY <1>2, EntriesWritten DEF EntriesOf, SameAnswer, SameEntry
<1>3. ASSUME NEW r \in Requests, UpsertEntry(r), req[r].session = s,
             NEW e \in EntriesOf(s)', e # lastEntry + 1
      PROVE  e \in EntriesOf(s)
  <2>1. e \in EntryIds /\ staged'[e] # None /\ staged'[e].session = s
    BY DEF EntriesOf
  <2>2. staged[e] # None
    BY <1>3, <2>1 DEF UpsertEntry, EntryAt, EntriesOf, TypeOK, EntriesTyped
  <2>3. ~(e > lastEntry)
    BY <2>1, <2>2 DEF TypeOK, EntriesTyped
  <2>4. SameEntry(e)
    BY <1>3, <2>1, <2>3, EntriesWritten DEF Writes, SameAnswer
  <2> QED BY <2>1, <2>4 DEF SameEntry, EntriesOf
<1> QED BY <1>1, <1>2, <1>3, EntriesOther

\* A save that waits to write has waited, or has just found room.
LEMMA WaitingLast ==
    ASSUME TypeOK, [Next]_vars, NEW s \in Sessions, NEW r \in Waiting(s)'
    PROVE  \/ r \in Waiting(s)
           \/ CountStaged(r) /\ ~(Cardinality(EntriesOf(s)) >= MaxStaged)
<1>0. /\ req \in [Requests -> CallRow] /\ r \in Requests
      /\ req'[r].at = "save" /\ req'[r].session = s
  BY DEF TypeOK, CallsTyped, Waiting
<1>1. CASE req'[r] = req[r] \/ Late(r)
  BY <1>0, <1>1 DEF Waiting, Late
<1>2. CASE Acts(r)
  <2>1. ASSUME NEW t \in Sessions, SaveEntry(r, t) \/ SubmitSession(r, t) PROVE FALSE
    BY <1>0, <2>1 DEF SaveEntry, SubmitSession, Call, Idle
  <2>2. ~ReadEntries(r)
    BY <1>0, ReadNow
  <2>3. ASSUME \/ req'[r] = [req[r] EXCEPT !.at = "quota"]
               \/ req'[r] = [req[r] EXCEPT !.at = "commit"]
        PROVE  FALSE
    BY <1>0, <2>3 DEF CallRow
  <2>4. CASE EnqueueRow(r)
    BY <1>0, <2>4 DEF EnqueueRow, Waiting
  <2>5. CASE CountStaged(r)
    <3>1. req'[r] = Idle => FALSE
      BY <1>0 DEF Idle
    <3>2. Goto(r, "save") /\ ~(Cardinality(EntriesOf(req[r].session)) >= MaxStaged)
      BY <1>0, <2>5, <3>1 DEF CountStaged, Finish
    <3>3. req[r].session = s
      BY <1>0, <3>2 DEF Goto, CallRow
    <3> QED BY <2>5, <3>2, <3>3
  <2> QED BY <1>0, <1>2, <2>1, <2>2, <2>3, <2>4, <2>5, OwnSteps
<1> QED BY <1>0, <1>1, <1>2, CallsLast

\* Two finite sets together are no larger than both.
LEMMA UnionAtMost ==
    ASSUME NEW S, IsFiniteSet(S), NEW T, IsFiniteSet(T)
    PROVE  /\ IsFiniteSet(S \cup T)
           /\ Cardinality(S \cup T) <= Cardinality(S) + Cardinality(T)
<1>1. /\ IsFiniteSet(S \cup T)
      /\ Cardinality(S \cup T)
            = Cardinality(S) + Cardinality(T) - Cardinality(S \cap T)
  BY FS_Union
<1>2. /\ Cardinality(S \cap T) \in Nat
      /\ Cardinality(S) \in Nat /\ Cardinality(T) \in Nat
  BY FS_Intersection, FS_CardinalityType
<1> QED BY <1>1, <1>2

\* Each step preserves StagedTold: a save that counts finds room for one more
\* beside the others, and one that writes waits no longer.
LEMMA StagedStep ==
    ASSUME TypeOK, StagedTold, [Next]_vars
    PROVE  StagedTold'
<1> SUFFICES ASSUME NEW s \in Sessions
             PROVE  Cardinality(EntriesOf(s)') + Cardinality(Waiting(s)')
                        <= MaxStaged + Cardinality(Requests) - 1
  BY DEF StagedTold
<1>1. /\ IsFiniteSet(EntriesOf(s)) /\ IsFiniteSet(EntriesOf(s)')
      /\ IsFiniteSet(Waiting(s)) /\ IsFiniteSet(Requests)
      /\ Waiting(s)' \subseteq Requests
      /\ MaxStaged \in Nat
  <2>1. IsFiniteSet(EntriesOf(s))
    BY EntriesFinite
  <2>2. IsFiniteSet(EntriesOf(s)')
    <3>1. CASE EntriesOf(s)' \subseteq EntriesOf(s)
      BY <2>1, <3>1, FS_Subset
    <3>2. CASE EntriesOf(s)' \subseteq EntriesOf(s) \cup {lastEntry + 1}
      BY <2>1, <3>2, FS_Subset, FS_AddElement
    <3> QED BY <3>1, <3>2, EntriesGrow
  <2>3. Waiting(s) \subseteq Requests /\ Waiting(s)' \subseteq Requests
    BY DEF Waiting
  <2> QED BY <2>1, <2>2, <2>3, FS_Subset, SessionAssumption
<1>2. /\ Cardinality(EntriesOf(s)) \in Nat /\ Cardinality(EntriesOf(s)') \in Nat
      /\ Cardinality(Waiting(s)) \in Nat /\ Cardinality(Waiting(s)') \in Nat
      /\ Cardinality(Requests) \in Nat
      /\ Cardinality(Waiting(s)') <= Cardinality(Requests)
  BY <1>1, FS_Subset, FS_CardinalityType
<1>3. Cardinality(EntriesOf(s)) + Cardinality(Waiting(s))
        <= MaxStaged + Cardinality(Requests) - 1
  BY DEF StagedTold
<1>4. ASSUME NEW r \in Requests, CountStaged(r),
             ~(Cardinality(EntriesOf(s)) >= MaxStaged)
      PROVE  Cardinality(EntriesOf(s)') + Cardinality(Waiting(s)')
                 <= MaxStaged + Cardinality(Requests) - 1
  <2>1. EntriesOf(s)' = EntriesOf(s)
    BY <1>4 DEF CountStaged, tables, EntriesOf
  <2> QED BY <1>1, <1>2, <1>4, <2>1
<1>5. CASE Waiting(s)' \subseteq Waiting(s)
  <2>1. Cardinality(Waiting(s)') <= Cardinality(Waiting(s))
    BY <1>1, <1>5, FS_Subset
  <2>2. CASE EntriesOf(s)' \subseteq EntriesOf(s)
    <3>1. Cardinality(EntriesOf(s)') <= Cardinality(EntriesOf(s))
      BY <1>1, <2>2, FS_Subset
    <3> QED BY <1>1, <1>2, <1>3, <2>1, <3>1
  <2>3. ASSUME NEW r \in Requests, UpsertEntry(r), req[r].session = s,
               EntriesOf(s)' \subseteq EntriesOf(s) \cup {lastEntry + 1}
        PROVE  Cardinality(EntriesOf(s)') + Cardinality(Waiting(s)')
                   <= MaxStaged + Cardinality(Requests) - 1
    <3>1. r \in Waiting(s) /\ r \notin Waiting(s)'
      BY <2>3 DEF UpsertEntry, At, Finish, Idle, Waiting, TypeOK, CallsTyped
    <3>2. Waiting(s)' \subseteq Waiting(s) \ {r}
      BY <1>5, <3>1
    <3>3. /\ IsFiniteSet(Waiting(s) \ {r})
          /\ Cardinality(Waiting(s) \ {r}) = Cardinality(Waiting(s)) - 1
      BY <1>1, <3>1, FS_RemoveElement
    <3>4. Cardinality(Waiting(s)') <= Cardinality(Waiting(s)) - 1
      BY <3>2, <3>3, FS_Subset
    <3>5. /\ IsFiniteSet(EntriesOf(s) \cup {lastEntry + 1})
          /\ Cardinality(EntriesOf(s) \cup {lastEntry + 1})
                <= Cardinality(EntriesOf(s)) + 1
      BY <1>1, UnionAtMost, FS_Singleton
    <3>6. Cardinality(EntriesOf(s)')
            <= Cardinality(EntriesOf(s) \cup {lastEntry + 1})
      BY <2>3, <3>5, FS_Subset
    <3>7. Cardinality(EntriesOf(s) \cup {lastEntry + 1}) \in Nat
      BY <3>5, FS_CardinalityType
    <3> QED BY <1>1, <1>2, <1>3, <3>4, <3>5, <3>6, <3>7
  <2> QED BY <2>2, <2>3, EntriesGrow
<1>6. \/ Waiting(s)' \subseteq Waiting(s)
      \/ \E r \in Requests : /\ CountStaged(r)
                            /\ ~(Cardinality(EntriesOf(s)) >= MaxStaged)
  BY <1>1, WaitingLast
<1> QED BY <1>4, <1>5, <1>6

\* However many saves of however many sessions run beside one another, a
\* session's entries exceed the limit by fewer than the calls served at once.
THEOREM StagedBoundedCorrect == Spec => []StagedBounded
<1>1. Init => TypeOK /\ StagedTold
  <2> SUFFICES ASSUME Init, NEW s \in Sessions
               PROVE  Cardinality(EntriesOf(s)) + Cardinality(Waiting(s))
                          <= MaxStaged + Cardinality(Requests) - 1
    BY TypeInit DEF StagedTold
  <2>1. Waiting(s) = {} /\ Cardinality(Waiting(s)) = 0
    BY FS_EmptySet DEF Init, Idle, Waiting
  <2>2. Cardinality(EntriesOf(s)) <= MaxStaged
    BY StartAssumption DEF Init, EntriesOf
  <2>3. Cardinality(Requests) \in Nat /\ Cardinality(Requests) # 0
    BY SessionAssumption, FS_EmptySet, FS_CardinalityType
  <2>4. Cardinality(EntriesOf(s)) \in Nat
    BY TypeInit, EntriesFinite, FS_CardinalityType
  <2> QED BY <2>1, <2>2, <2>3, <2>4, SessionAssumption
<1>2. TypeOK /\ StagedTold /\ [Next]_vars => (TypeOK /\ StagedTold)'
  BY TypeStep, StagedStep
<1>3. TypeOK /\ StagedTold => StagedBounded
  <2> SUFFICES ASSUME TypeOK, StagedTold, NEW s \in Sessions
               PROVE  Cardinality(EntriesOf(s))
                          <= MaxStaged + Cardinality(Requests) - 1
    BY DEF StagedBounded
  <2>1. IsFiniteSet(EntriesOf(s)) /\ IsFiniteSet(Waiting(s)) /\ IsFiniteSet(Requests)
    BY EntriesFinite, SessionAssumption, FS_Subset DEF Waiting
  <2>2. /\ Cardinality(EntriesOf(s)) \in Nat /\ Cardinality(Waiting(s)) \in Nat
        /\ Cardinality(Requests) \in Nat
    BY <2>1, FS_CardinalityType
  <2> QED BY <2>2, SessionAssumption DEF StagedTold
<1> QED BY <1>1, <1>2, <1>3, PTL DEF Spec

-----------------------------------------------------------------------------
(* The allowance of the month.                                             *)

\* Rows, and what a submit has read, are finitely many.
FiniteInv ==
    /\ IsFiniteSet(filed)
    /\ \A r \in Requests : req[r].at \in Held => IsFiniteSet(req[r].read)

\* Sets of rows that only lose members do not grow.
LEMMA FewerRows ==
    ASSUME IsFiniteSet(filed), NEW from, RowsFollow(from),
           NEW A \in SUBSET filed', NEW B \in SUBSET filed, \A g \in A : from[g] \in B
    PROVE  IsFiniteSet(A) /\ Cardinality(A) <= Cardinality(B)
<1> DEFINE f == [g \in A |-> from[g]]
<1>1. f \in [A -> B] /\ \A g, h \in A : f[g] = f[h] => g = h
  BY DEF RowsFollow
<1>2. f \in Injection(A, B)
  BY <1>1 DEF Injection, IsInjective
<1>3. IsFiniteSet(B)
  BY FS_Subset
<1> QED BY <1>2, <1>3, FS_Injection

\* A set that a map takes another onto is no larger.
LEMMA OntoFewer ==
    ASSUME NEW S, IsFiniteSet(S), NEW T, NEW f \in [S -> T],
           \A t \in T : \E s \in S : f[s] = t
    PROVE  IsFiniteSet(T) /\ Cardinality(T) <= Cardinality(S)
<1>1. f \in Surjection(S, T)
  BY DEF Surjection
<1> QED BY <1>1, FS_Surjection

\* A report files at most one row per entry it has read, and per step.
LEMMA RowsCount ==
    ASSUME NEW r \in Requests, NEW x, IsFiniteSet(req[r].read), NEW k
    PROVE  /\ IsFiniteSet(RowsOf(r, x))
           /\ Cardinality(RowsOf(r, x)) <= Cardinality(req[r].read)
           /\ Cardinality({f \in RowsOf(r, x) : f.step = k})
                <= Cardinality({e \in req[r].read : e.step = k})
<1> DEFINE row(e) == [entry |-> e.id, by |-> r, session |-> req[r].session,
               record |-> x, step |-> e.step,
               period |-> session[req[r].session].period,
               key |-> IF x = None THEN None ELSE KeyOf(r, e), answer |-> e.answer,
               live |-> TRUE, post |-> "none", stale |-> req[r].stale]
           read == req[r].read
           rows == {row(e) : e \in read}
           readk == {e \in read : e.step = k}
           rowsk == {f \in rows : f.step = k}
<1>1. RowsOf(r, x) = rows
  BY DEF RowsOf
<1>2. \A e \in read : row(e).step = e.step
  OBVIOUS
<1>3. IsFiniteSet(readk)
  BY FS_Subset
<1>4. IsFiniteSet(rows) /\ Cardinality(rows) <= Cardinality(read)
  <2> DEFINE f == [e \in read |-> row(e)]
  <2>1. f \in [read -> rows] /\ \A t \in rows : \E e \in read : f[e] = t
    OBVIOUS
  <2> HIDE DEF f, rows
  <2> QED BY <2>1, OntoFewer
<1>5. Cardinality(rowsk) <= Cardinality(readk)
  <2> DEFINE f == [e \in readk |-> row(e)]
  <2>1. f \in [readk -> rowsk]
    BY <1>2
  <2>2. \A t \in rowsk : \E e \in readk : f[e] = t
    <3> SUFFICES ASSUME NEW t \in rowsk PROVE \E e \in readk : f[e] = t
      OBVIOUS
    <3>1. PICK e \in read : t = row(e)
      OBVIOUS
    <3>2. t.step = k
      OBVIOUS
    <3> HIDE DEF row
    <3>3. e \in readk
      BY <1>2, <3>1, <3>2
    <3> QED BY <3>1, <3>3
  <2> HIDE DEF f, rowsk, readk
  <2> QED BY <1>3, <2>1, <2>2, OntoFewer
<1> QED BY <1>1, <1>4, <1>5

\* Each step preserves FiniteInv.
LEMMA FiniteStep ==
    ASSUME TypeOK, FiniteInv, [Next]_vars
    PROVE  FiniteInv'
<1>1. IsFiniteSet(filed)'
  <2>1. ASSUME NEW from, RowsFollow(from) PROVE IsFiniteSet(filed')
    <3>1. \A g \in filed' : from[g] \in filed
      BY <2>1 DEF RowsFollow
    <3> QED BY <2>1, <3>1, FewerRows DEF FiniteInv
  <2>2. ASSUME NEW r \in Requests, CommitReport(r) PROVE IsFiniteSet(filed')
    <3>1. /\ filed' = filed \cup RowsOf(r, RecordFor(r)) /\ IsFiniteSet(req[r].read)
      BY <2>2, CommitCloses DEF FiniteInv, Held
    <3>2. IsFiniteSet(RowsOf(r, RecordFor(r)))
      BY <3>1, RowsCount
    <3> QED BY <3>1, <3>2, FS_Union DEF FiniteInv
  <2> QED BY <2>1, <2>2, RowsLast DEF FiniteInv
<1>2. ASSUME NEW o \in Requests, req'[o].at \in Held
      PROVE  IsFiniteSet(req'[o].read)
  <2>1. CASE ReadEntries(o)
    <3> DEFINE mine == {c \in EntriesOf(req[o].session) : staged[c].step \in Visible(o)}
               rowof(c) == [id |-> c, step |-> staged[c].step,
                            index |-> staged[c].index, answer |-> staged[c].answer]
               f == [c \in mine |-> rowof(c)]
               read == {rowof(c) : c \in mine}
    <3>1. req'[o].read = read
      BY <2>1 DEF ReadEntries, TypeOK, CallsTyped, CallRow
    <3>2. IsFiniteSet(mine)
      BY EntriesFinite
    <3>3. f \in [mine -> read] /\ \A t \in read : \E c \in mine : f[c] = t
      OBVIOUS
    <3> HIDE DEF f, mine, read
    <3>4. IsFiniteSet(read)
      BY <3>2, <3>3, OntoFewer
    <3> QED BY <3>1, <3>4
  <2> QED BY <1>2, <2>1, HeldLast DEF FiniteInv
<1> QED BY <1>1, <1>2 DEF FiniteInv

\* The live rows that were filed by a submit no other overtook between its count
\* and its commit.
Punctual == {f \in Live : "month" \notin f.stale}

\* They stay within the allowance, since such a submit has still got room for
\* all it has read.
MonthTold ==
    /\ Cardinality(Punctual) <= Quota
    /\ \A r \in Requests : req[r].at = "commit" /\ "month" \notin req[r].stale
          => Month + Cardinality(req[r].read) <= Quota

MonthInv == FiniteInv /\ MonthTold

\* Each step preserves MonthTold.
LEMMA MonthToldStep ==
    ASSUME TypeOK, MonthInv, [Next]_vars
    PROVE  MonthTold'
<1>0. /\ IsFiniteSet(filed) /\ Quota \in Nat
      /\ IsFiniteSet(Live) /\ Month \in Nat
      /\ IsFiniteSet(Punctual) /\ Cardinality(Punctual) \in Nat
  BY SessionAssumption, FS_Subset, FS_CardinalityType
     DEF MonthInv, FiniteInv, Live, Month, Punctual
<1>2. /\ Cardinality(Punctual) <= Quota
      /\ \A r \in Requests : req[r].at = "commit" /\ "month" \notin req[r].stale
            => Month + Cardinality(req[r].read) <= Quota
  BY DEF MonthInv, MonthTold
<1>3. CASE \A r \in Requests : ~CommitReport(r)
  <2>1. Month' \in Nat /\ Month' <= Month
    <3>1. CASE UNCHANGED filed
      BY <1>0, <3>1 DEF Month, Live
    <3>2. ASSUME NEW from, RowsFollow(from) PROVE Month' \in Nat /\ Month' <= Month
      <4>1. /\ Live' \in SUBSET filed' /\ Live \in SUBSET filed
            /\ \A g \in Live' : from[g] \in Live
        BY <3>2 DEF Live, RowsFollow
      <4>2. IsFiniteSet(Live') /\ Cardinality(Live') <= Cardinality(Live)
        BY <1>0, <3>2, <4>1, FewerRows
      <4> QED BY <4>2, FS_CardinalityType DEF Month
    <3> QED BY <1>3, <3>1, <3>2, RowsLast
  <2>2. ASSUME NEW o \in Requests, req'[o].at = "commit", "month" \notin req'[o].stale
        PROVE  /\ Month + Cardinality(req'[o].read) <= Quota
               /\ IsFiniteSet(req'[o].read)
    <3>1. ~ReadEntries(o)
      BY <2>2, ReadNow
    <3>2. CASE CheckQuota(o) /\ req'[o].read = req[o].read /\ req[o].at \in Held
      BY <2>2, <3>2 DEF CheckQuota, Finish, Idle, TypeOK, CallsTyped, MonthInv, FiniteInv
    <3>3. CASE /\ req[o].at = "commit" /\ req'[o].read = req[o].read
               /\ req[o].stale \subseteq req'[o].stale
      BY <1>2, <2>2, <3>3 DEF MonthInv, FiniteInv, Held
    <3> QED BY <2>2, <3>1, <3>2, <3>3, HeldLast DEF Held
  <2>3. ASSUME NEW o \in Requests, req'[o].at = "commit", "month" \notin req'[o].stale
        PROVE  Month' + Cardinality(req'[o].read) <= Quota
    <3>1. Cardinality(req'[o].read) \in Nat
      BY <2>2, <2>3, FS_CardinalityType
    <3> QED BY <1>0, <2>1, <2>2, <2>3, <3>1
  <2>4. Cardinality(Punctual') <= Cardinality(Punctual)
    <3>1. CASE UNCHANGED filed
      BY <1>0, <3>1 DEF Punctual, Live
    <3>2. ASSUME NEW from, RowsFollow(from)
          PROVE  Cardinality(Punctual') <= Cardinality(Punctual)
      <4>1. /\ Punctual' \in SUBSET filed' /\ Punctual \in SUBSET filed
            /\ \A g \in Punctual' : from[g] \in Punctual
        BY <3>2 DEF Punctual, Live, RowsFollow, SameRow
      <4> QED BY <1>0, <3>2, <4>1, FewerRows
    <3> QED BY <1>3, <3>1, <3>2, RowsLast
  <2>5. Cardinality(Punctual') \in Nat
    <3>1. IsFiniteSet(filed')
      BY FiniteStep DEF MonthInv, FiniteInv
    <3> QED BY <3>1, FS_Subset, FS_CardinalityType DEF Punctual, Live
  <2> QED BY <1>0, <1>2, <2>1, <2>3, <2>4, <2>5 DEF MonthTold
<1>4. ASSUME NEW r \in Requests, CommitReport(r)
      PROVE  MonthTold'
  <2> DEFINE rows == RowsOf(r, RecordFor(r))
  <2>1. filed' = filed \cup rows /\ req[r].at = "commit"
    BY <1>4, CommitCloses
  <2>2. IsFiniteSet(req[r].read)
    BY <2>1 DEF MonthInv, FiniteInv, Held
  <2>3. \A f \in rows : f.live /\ f.stale = req[r].stale
    BY <1>4, CommitRows
  <2>4. Live' = Live \cup rows
    BY <2>1, <2>3 DEF Live
  <2>5. IsFiniteSet(rows) /\ Cardinality(rows) <= Cardinality(req[r].read)
    BY <2>2, RowsCount
  <2> HIDE DEF rows
  <2>8. ASSUME NEW o \in Requests, req'[o].at = "commit" PROVE "month" \in req'[o].stale
    <3>1. o # r
      BY <1>4, <2>8, CommitCloses
    <3>2. req[o] \in CallRow
      BY DEF TypeOK, CallsTyped
    <3>3. req[o].at \in Reading
      <4>1. req[o].at \notin Reading => req'[o] = req[o]
        BY <1>4, <3>1 DEF CommitReport, FileUnder
      <4> QED BY <2>8, <4>1 DEF Reading
    <3>4. req'[o] = [req[o] EXCEPT !.stale = NowStale(o, r, RecordFor(r))]
      BY <1>4, <3>1, <3>3, CommitCloses
    <3>5. req[o].at = "commit"
      BY <2>8, <3>2, <3>4 DEF CallRow
    <3> QED BY <3>2, <3>4, <3>5 DEF NowStale, CallRow
  <2>6. CASE "month" \in req[r].stale
    <3>1. Punctual' = Punctual
      BY <2>3, <2>4, <2>6 DEF Punctual
    <3> QED BY <1>2, <2>8, <3>1 DEF MonthTold
  <2>7. CASE "month" \notin req[r].stale
    <3>1. Month + Cardinality(req[r].read) <= Quota
      BY <1>2, <2>1, <2>7
    <3>2. Cardinality(Live \cup rows)
            = Cardinality(Live) + Cardinality(rows) - Cardinality(Live \cap rows)
      BY <1>0, <2>5, FS_Union
    <3>3. /\ Cardinality(Live \cap rows) \in Nat /\ Cardinality(rows) \in Nat
          /\ Cardinality(req[r].read) \in Nat
      BY <1>0, <2>2, <2>5, FS_Intersection, FS_CardinalityType
    <3>4. Cardinality(Live') <= Quota
      BY <1>0, <2>4, <2>5, <3>1, <3>2, <3>3 DEF Month
    <3>5. IsFiniteSet(Live') /\ Punctual' \subseteq Live'
      BY <1>0, <2>4, <2>5, FS_Union DEF Punctual
    <3>6. /\ Cardinality(Punctual') <= Cardinality(Live')
          /\ Cardinality(Punctual') \in Nat /\ Cardinality(Live') \in Nat
      BY <3>5, FS_Subset, FS_CardinalityType
    <3>7. Cardinality(Punctual') <= Quota
      BY <1>0, <3>4, <3>6
    <3> QED BY <2>8, <3>7 DEF MonthTold
  <2> QED BY <2>6, <2>7
<1> QED BY <1>3, <1>4

\* However many submits run, the month receives no more rows than its allowance
\* and one for each row that was deleted since, or filed by a submit that
\* another overtook between its count and its commit.
THEOREM MonthBoundedCorrect == Spec => []MonthBounded
<1>1. Init => TypeOK /\ MonthInv
  <2> SUFFICES ASSUME Init PROVE MonthInv
    BY TypeInit
  <2>1. filed = {} /\ \A r \in Requests : req[r].at = "idle"
    BY DEF Init, Idle
  <2>2. Punctual = {} /\ Cardinality(Punctual) = 0
    BY <2>1, FS_EmptySet DEF Live, Punctual
  <2> QED BY <2>1, <2>2, FS_EmptySet, SessionAssumption
          DEF MonthInv, FiniteInv, MonthTold, Held
<1>2. TypeOK /\ MonthInv /\ [Next]_vars => (TypeOK /\ MonthInv)'
  BY TypeStep, FiniteStep, MonthToldStep DEF MonthInv
<1>3. MonthInv => MonthBounded
  <2> SUFFICES ASSUME MonthInv PROVE MonthBounded
    OBVIOUS
  <2> DEFINE gone == filed \ Live
             overtaken == {f \in filed : "month" \in f.stale}
  <2>1. IsFiniteSet(filed) /\ Quota \in Nat /\ Cardinality(Punctual) <= Quota
    BY SessionAssumption DEF MonthInv, FiniteInv, MonthTold
  <2>2. /\ IsFiniteSet(gone) /\ IsFiniteSet(overtaken) /\ IsFiniteSet(Punctual)
        /\ filed = (Punctual \cup gone) \cup overtaken
    BY <2>1, FS_Subset DEF Punctual, Live
  <2> HIDE DEF gone, overtaken
  <2>3. /\ IsFiniteSet(Punctual \cup gone)
        /\ Cardinality(Punctual \cup gone)
              <= Cardinality(Punctual) + Cardinality(gone)
    BY <2>2, UnionAtMost
  <2>4. Cardinality((Punctual \cup gone) \cup overtaken)
          <= Cardinality(Punctual \cup gone) + Cardinality(overtaken)
    BY <2>2, <2>3, UnionAtMost
  <2>5. /\ Cardinality(filed) \in Nat /\ Cardinality(Punctual) \in Nat
        /\ Cardinality(gone) \in Nat /\ Cardinality(overtaken) \in Nat
        /\ Cardinality(Punctual \cup gone) \in Nat
    BY <2>1, <2>2, <2>3, FS_CardinalityType
  <2>6. Cardinality(filed) <= Quota + Cardinality(gone) + Cardinality(overtaken)
    BY <2>1, <2>2, <2>3, <2>4, <2>5
  <2> QED BY <2>6 DEF gone, overtaken, MonthBounded
<1> QED BY <1>1, <1>2, <1>3, PTL DEF Spec

-----------------------------------------------------------------------------
(* The maximum of a step.                                                  *)

\* The live rows of a record that count for step k in window q, ...
Counted(x, k, q) ==
    {f \in Live : /\ f.record = x /\ f.step = k
                  /\ Scope[k] = "SUBJECT_PERIOD" => f.period = q}

\* ... and those of them filed by a follow-up that read the record's history
\* and was not overtaken.
Fresh(x, k, q) ==
    {f \in Counted(x, k, q) :
        "record" \notin f.stale /\ session[f.session].mode = "FOLLOW_UP"}

\* A follow-up is about a record, ...
ModeTold ==
    \A s \in Sessions :
        Open(s) /\ session[s].mode = "FOLLOW_UP" => session[s].about # None

\* ... what it judged leaves room for what it will file, and what was filed
\* like that fits.
RoomTold ==
    \A r \in Requests :
        /\ req[r].at \in {"quota", "commit"}
        /\ FollowUp(r) /\ "record" \notin req[r].stale
        => \A k \in Visible(r) : Scope[k] # "SESSION" =>
               Cardinality(Counted(Bound(r), k, session[req[r].session].period))
                 + Cardinality({e \in req[r].read : e.step = k}) <= MaxOf[k]
FreshFits ==
    \A x \in Records, k \in Steps, q \in Periods :
        Scope[k] # "SESSION" => Cardinality(Fresh(x, k, q)) <= MaxOf[k]

MaxInv == OnceInv /\ FiniteInv /\ ModeTold /\ RoomTold /\ FreshFits

\* Each step preserves ModeTold: a follow-up is opened about a record.
LEMMA ModeToldStep ==
    ASSUME TypeOK, ModeTold, [Next]_vars
    PROVE  ModeTold'
<1> SUFFICES ASSUME NEW s \in Sessions, Open(s)', session'[s].mode = "FOLLOW_UP"
             PROVE  session'[s].about # None
  BY DEF ModeTold
<1>1. CASE Open(s)
  BY <1>1, SessionsLast DEF ModeTold
<1>2. ASSUME ~Open(s), NEW r \in Requests, CreateDraft(r) PROVE session'[s].about # None
  <2>1. session'[s] = NewSession(r)
    BY <1>2 DEF CreateDraft, Open, TypeOK, SessionsTyped
  <2> QED BY <2>1 DEF NewSession
<1>3. ASSUME ~Open(s), NEW r \in Requests, ResumeDraft(r) PROVE FALSE
  <2>1. req[r].session \in Sessions /\ Open(req[r].session)
    BY <1>3 DEF ResumeDraft, TypeOK, CallsTyped, CallOK, CallRow
  <2> QED BY <1>3, <2>1 DEF ResumeDraft, TypeOK, SessionsTyped, Open
<1>4. ASSUME ~Open(s), NEW r \in Requests, CommitReport(r) PROVE FALSE
  <2>1. req[r].session \in Sessions /\ Open(req[r].session)
    BY <1>4, CommitCloses
  <2> QED BY <1>4, <2>1 DEF CommitReport, Close, TypeOK, SessionsTyped, Open
<1> QED BY <1>1, <1>2, <1>3, <1>4, OtherSteps DEF Open

\* The rows that count are finitely many, and do not become more unless a
\* report about the record is committed.
LEMMA CountedFinite ==
    ASSUME FiniteInv, NEW x, NEW k, NEW q
    PROVE  /\ IsFiniteSet(Counted(x, k, q)) /\ Cardinality(Counted(x, k, q)) \in Nat
           /\ Counted(x, k, q) \in SUBSET filed
<1>1. Counted(x, k, q) \in SUBSET filed
  BY DEF Counted, Live
<1> QED BY <1>1, FS_Subset, FS_CardinalityType DEF FiniteInv

\* Without a commit for its record, a count of filed entries does not grow.
LEMMA CountedLast ==
    ASSUME TypeOK, FiniteInv, [Next]_vars, NEW x, NEW k, NEW q,
           \A r \in Requests : CommitReport(r) => RecordFor(r) # x
    PROVE  Cardinality(Counted(x, k, q)') <= Cardinality(Counted(x, k, q))
<1>1. CASE UNCHANGED filed
  <2>1. Counted(x, k, q)' = Counted(x, k, q)
    BY <1>1 DEF Counted, Live
  <2> QED BY <2>1, CountedFinite
<1>2. ASSUME NEW from, RowsFollow(from)
      PROVE  Cardinality(Counted(x, k, q)') <= Cardinality(Counted(x, k, q))
  <2>1. /\ Counted(x, k, q)' \in SUBSET filed'
        /\ \A g \in Counted(x, k, q)' : from[g] \in Counted(x, k, q)
    BY <1>2 DEF Counted, Live, RowsFollow, SameRow
  <2> QED BY <1>2, <2>1, CountedFinite, FewerRows DEF FiniteInv
<1>3. ASSUME NEW r \in Requests, CommitReport(r)
      PROVE  Cardinality(Counted(x, k, q)') <= Cardinality(Counted(x, k, q))
  <2>1. filed' = filed \cup RowsOf(r, RecordFor(r))
    BY <1>3, CommitCloses
  <2>2. \A f \in RowsOf(r, RecordFor(r)) : f.record # x
    BY <1>3, CommitRows
  <2>3. Counted(x, k, q)' = Counted(x, k, q)
    BY <2>1, <2>2 DEF Counted, Live
  <2> QED BY <2>3, CountedFinite
<1> QED BY <1>1, <1>2, <1>3, RowsLast

\* history.countFor is the number of rows that count.
LEMMA CountIs ==
    ASSUME NEW x, x # None, NEW k \in Steps, NEW q, Scope[k] # "SESSION"
    PROVE  CountFor(History(x), k, q) = Cardinality(Counted(x, k, q))
<1>0. Scope[k] \in {"SUBJECT", "SUBJECT_PERIOD"}
  BY SessionAssumption
<1>1. CASE Scope[k] = "SUBJECT"
  <2>1. {f \in History(x) : f.step = k} = Counted(x, k, q)
    BY <1>1 DEF History, Counted
  <2>2. CountFor(History(x), k, q) = Cardinality({f \in History(x) : f.step = k})
    BY <1>1 DEF CountFor
  <2> QED BY <2>1, <2>2
<1>2. CASE Scope[k] = "SUBJECT_PERIOD"
  <2>1. {f \in History(x) : f.step = k /\ f.period = q} = Counted(x, k, q)
    BY <1>2 DEF History, Counted
  <2>2. CountFor(History(x), k, q)
          = Cardinality({f \in History(x) : f.step = k /\ f.period = q})
    BY <1>2 DEF CountFor
  <2> QED BY <2>1, <2>2
<1> QED BY <1>0, <1>1, <1>2

\* Each step preserves RoomTold.
LEMMA RoomToldStep ==
    ASSUME TypeOK, MaxInv, [Next]_vars
    PROVE  RoomTold'
<1> SUFFICES ASSUME NEW o \in Requests, req'[o].at \in {"quota", "commit"},
                    FollowUp(o)', "record" \notin req'[o].stale,
                    NEW k \in Visible(o)', Scope[k] # "SESSION"
             PROVE  Cardinality(Counted(Bound(o), k, session[req[o].session].period)')
                      + Cardinality({e \in req'[o].read : e.step = k}) <= MaxOf[k]
  BY DEF RoomTold
<1>1. ~ReadEntries(o)
  BY ReadNow
<1>2. /\ req[o].at \in Held /\ req[o].at \in Reading
      /\ req'[o].session = req[o].session /\ req'[o].asked = req[o].asked
      /\ req'[o].read = req[o].read /\ req[o].stale \subseteq req'[o].stale
  BY <1>1, HeldLast DEF Held, Reading
<1>3. /\ req[o].session \in Sessions /\ Open(req[o].session)
      /\ FollowUp(o) /\ Bound(o)' = Bound(o) /\ Visible(o)' = Visible(o)
      /\ session'[req[o].session].period = session[req[o].session].period
  BY <1>2, ViewLast, SessionsLast
<1>4. PICK x, q : x = Bound(o) /\ q = session[req[o].session].period
  OBVIOUS
<1>5. x # None /\ x = session[req[o].session].about
  BY <1>3, <1>4 DEF MaxInv, ModeTold, Bound, FollowUp
<1>6. k \in Visible(o) /\ k \in Steps
  BY <1>3 DEF Visible, TypeOK, CallsTyped, CallRow
<1> DEFINE n == Cardinality({e \in req[o].read : e.step = k})
<1>7. n \in Nat
  <2>1. IsFiniteSet(req[o].read)
    BY <1>2 DEF MaxInv, FiniteInv
  <2> QED BY <2>1, FS_Subset, FS_CardinalityType
<1>8. Cardinality(Counted(x, k, q)) + n <= MaxOf[k]
  <2>1. CASE req[o].at \in {"quota", "commit"}
    BY <1>2, <1>3, <1>4, <1>6, <2>1 DEF MaxInv, RoomTold
  <2>2. CASE JudgeReport(o)
    <3>1. CardinalityKept(o, History(x))
      BY <1>4, <2>2 DEF JudgeReport, Judge, Finish, Idle, TypeOK, CallsTyped
    <3>2. CountFor(History(x), k, q) + n <= MaxOf[k]
      BY <1>4, <1>6, <3>1 DEF CardinalityKept
    <3> QED BY <1>5, <1>6, <3>2, CountIs
  <2>3. req[o].at \in {"quota", "commit"} \/ JudgeReport(o)
    <3>1. req'[o].at = req[o].at \/ JudgeReport(o) \/ CheckQuota(o)
      BY <1>1, HeldLast DEF Held
    <3> QED BY <3>1 DEF CheckQuota, At
  <2> QED BY <2>1, <2>2, <2>3
<1>9. ASSUME NEW r \in Requests, CommitReport(r) PROVE RecordFor(r) # x
  <2>1. o # r
    BY <1>9, CommitCloses
  <2>2. req[o] \in CallRow
        /\ req'[o] = [req[o] EXCEPT !.stale = NowStale(o, r, RecordFor(r))]
    BY <1>2, <1>9, <2>1, CommitCloses DEF TypeOK, CallsTyped
  <2>3. "record" \notin NowStale(o, r, RecordFor(r)) /\ req[o].at \in {"quota", "commit"}
    BY <2>2 DEF CallRow
  <2> QED BY <1>5, <2>3 DEF NowStale
<1>10. Cardinality(Counted(x, k, q)') <= Cardinality(Counted(x, k, q))
  BY <1>9, CountedLast DEF MaxInv
<1>11. /\ Cardinality(Counted(x, k, q)) \in Nat /\ Cardinality(Counted(x, k, q)') \in Nat
       /\ MaxOf[k] \in Nat
  <2>1. IsFiniteSet(filed')
    BY FiniteStep DEF MaxInv, FiniteInv
  <2>2. Counted(x, k, q)' \in SUBSET filed'
    BY DEF Counted, Live
  <2>3. Cardinality(Counted(x, k, q)') \in Nat
    BY <2>1, <2>2, FS_Subset, FS_CardinalityType
  <2> QED BY <1>6, <2>3, CountedFinite, SessionAssumption DEF MaxInv
<1>12. Cardinality(Counted(x, k, q)') + n <= MaxOf[k]
  <2> HIDE DEF n
  <2> QED BY <1>7, <1>8, <1>10, <1>11
<1> QED BY <1>2, <1>3, <1>4, <1>12

\* Each step preserves FreshFits.
LEMMA FreshFitsStep ==
    ASSUME TypeOK, MaxInv, [Next]_vars
    PROVE  FreshFits'
<1> SUFFICES ASSUME NEW x \in Records, NEW k \in Steps, NEW q \in Periods,
                    Scope[k] # "SESSION"
             PROVE  Cardinality(Fresh(x, k, q)') <= MaxOf[k]
  BY DEF FreshFits
<1>0. Cardinality(Fresh(x, k, q)) <= MaxOf[k]
  BY DEF MaxInv, FreshFits
<1>1. \A f \in filed : /\ f.session \in Sessions
                       /\ session'[f.session].mode = session[f.session].mode
  <2>1. \A f \in filed : f.session \in Sessions /\ Open(f.session)
    BY DEF MaxInv, OnceInv, RowsOwned, TypeOK, RowsTyped, FiledRow
  <2> QED BY <2>1, SessionsLast
<1>2. /\ Fresh(x, k, q) \in SUBSET filed /\ IsFiniteSet(Fresh(x, k, q))
      /\ Cardinality(Fresh(x, k, q)) \in Nat /\ MaxOf[k] \in Nat
  <2>1. Fresh(x, k, q) \in SUBSET filed
    BY DEF Fresh, Counted, Live
  <2> QED BY <2>1, FS_Subset, FS_CardinalityType, SessionAssumption
          DEF MaxInv, FiniteInv
<1>3. CASE UNCHANGED filed
  <2>1. Fresh(x, k, q)' = Fresh(x, k, q)
    BY <1>1, <1>3 DEF Fresh, Counted, Live
  <2> QED BY <1>0, <2>1
<1>4. ASSUME NEW from, RowsFollow(from)
      PROVE  Cardinality(Fresh(x, k, q)') <= MaxOf[k]
  <2>1. Fresh(x, k, q)' \in SUBSET filed'
    BY DEF Fresh, Counted, Live
  <2>2. ASSUME NEW g \in filed', g \in Fresh(x, k, q)' PROVE from[g] \in Fresh(x, k, q)
    <3>1. from[g] \in filed /\ SameRow(g, from[g]) /\ (g.live => from[g].live)
      BY <1>4 DEF RowsFollow
    <3> QED BY <1>1, <2>2, <3>1 DEF SameRow, Fresh, Counted, Live
  <2>3. IsFiniteSet(filed)
    BY DEF MaxInv, FiniteInv
  <2>4. /\ IsFiniteSet(Fresh(x, k, q)')
        /\ Cardinality(Fresh(x, k, q)') <= Cardinality(Fresh(x, k, q))
    BY <1>2, <1>4, <2>1, <2>2, <2>3, FewerRows
  <2>5. Cardinality(Fresh(x, k, q)') \in Nat
    BY <2>4, FS_CardinalityType
  <2> QED BY <1>0, <1>2, <2>4, <2>5
<1>5. ASSUME NEW r \in Requests, CommitReport(r)
      PROVE  Cardinality(Fresh(x, k, q)') <= MaxOf[k]
  <2> DEFINE y == RecordFor(r)
             rows == RowsOf(r, y)
             p == session[req[r].session].period
             rowsk == {f \in rows : f.step = k}
             readk == {e \in req[r].read : e.step = k}
  <2>1. /\ req[r].at = "commit" /\ req[r].session \in Sessions
        /\ Open(req[r].session) /\ filed' = filed \cup rows
    BY <1>5, CommitCloses
  <2>2. ASSUME NEW f \in rows
        PROVE  /\ f.session = req[r].session /\ f.record = y /\ f.period = p
               /\ f.stale = req[r].stale /\ f.live
               /\ \E d \in req[r].read : f.step = d.step
    BY <1>5, <2>2, CommitRows
  <2>3. session'[req[r].session].mode = session[req[r].session].mode
    BY <2>1, SessionsLast
  <2> HIDE DEF rows, y, p
  <2>4. CASE \E f \in rows : f \in Fresh(x, k, q)'
    <3>1. PICK f \in rows : f \in Fresh(x, k, q)'
      BY <2>4
    <3>2. /\ y = x /\ FollowUp(r) /\ "record" \notin req[r].stale
          /\ Scope[k] = "SUBJECT_PERIOD" => p = q
      BY <2>2, <2>3, <3>1 DEF Fresh, Counted, FollowUp
    <3>3. k \in Visible(r)
      <4>1. PICK d \in req[r].read : d.step = k
        BY <2>2, <3>1 DEF Fresh, Counted
      <4>2. req[r].at \in Held
        BY <2>1 DEF Held
      <4> QED BY <4>1, <4>2 DEF MaxInv, OnceInv, ReadsOwned
    <3>4. Bound(r) = x
      BY <3>2 DEF y, RecordFor
    <3>5. Counted(x, k, p) = Counted(x, k, q)
      BY <3>2 DEF Counted
    <3>6. Cardinality(Counted(x, k, q)) + Cardinality(readk) <= MaxOf[k]
      BY <2>1, <3>2, <3>3, <3>4, <3>5 DEF MaxInv, RoomTold, p
    <3>7. Fresh(x, k, q)' \in SUBSET (Counted(x, k, q) \cup rowsk)
      BY <2>1 DEF Fresh, Counted, Live
    <3>8. IsFiniteSet(req[r].read)
      BY <2>1 DEF MaxInv, FiniteInv, Held
    <3>9. IsFiniteSet(readk) /\ Cardinality(readk) \in Nat
      BY <3>8, FS_Subset, FS_CardinalityType
    <3>10. IsFiniteSet(rows) /\ Cardinality(rowsk) <= Cardinality(readk)
      BY <3>8, RowsCount DEF rows
    <3>11. IsFiniteSet(rowsk) /\ Cardinality(rowsk) \in Nat
      BY <3>10, FS_Subset, FS_CardinalityType
    <3>12. IsFiniteSet(Counted(x, k, q)) /\ Cardinality(Counted(x, k, q)) \in Nat
      BY CountedFinite DEF MaxInv
    <3> HIDE DEF rowsk, readk
    <3> DEFINE all == Counted(x, k, q) \cup rowsk
               both == Counted(x, k, q) \cap rowsk
    <3>13. /\ IsFiniteSet(all)
           /\ Cardinality(all)
                = Cardinality(Counted(x, k, q)) + Cardinality(rowsk) - Cardinality(both)
           /\ Cardinality(both) \in Nat
      BY <3>11, <3>12, FS_Union, FS_Intersection, FS_CardinalityType
    <3>14. /\ Cardinality(Fresh(x, k, q)') <= Cardinality(all)
           /\ Cardinality(Fresh(x, k, q)') \in Nat
      BY <3>7, <3>13, FS_Subset, FS_CardinalityType
    <3> HIDE DEF all, both
    <3> QED BY <1>2, <3>6, <3>9, <3>10, <3>11, <3>12, <3>13, <3>14
  <2>5. CASE \A f \in rows : f \notin Fresh(x, k, q)'
    <3>1. Fresh(x, k, q)' = Fresh(x, k, q)
      <4>1. \A f \in Fresh(x, k, q)' : f \in filed
        BY <2>1, <2>5 DEF Fresh, Counted, Live
      <4>2. \A f \in filed : f \in Fresh(x, k, q)' <=> f \in Fresh(x, k, q)
        BY <1>1, <2>1 DEF Fresh, Counted, Live
      <4> QED BY <1>2, <4>1, <4>2
    <3> QED BY <1>0, <3>1
  <2> QED BY <2>4, <2>5
<1> QED BY <1>3, <1>4, <1>5, RowsLast

\* A record holds no more entries of a step than the step allows, whatever the
\* maximum and however many coordinators submit, unless one was filed while
\* another submit about the record was being judged, or came with a
\* registration of the record.
THEOREM MaxEntriesCorrect == Spec => []MaxEntriesRespected
<1>1. Init => TypeOK /\ MaxInv
  <2> SUFFICES ASSUME Init PROVE MaxInv
    BY TypeInit
  <2>1. filed = {} /\ \A r \in Requests : req[r].at = "idle"
    BY DEF Init, Idle
  <2>2. OnceInv /\ FiniteInv /\ RoomTold
    BY <2>1, FS_EmptySet DEF OnceInv, RowsOwned, ReadsOwned, LateTold, EntryFiledOnce,
                Held, Reading, FiniteInv, RoomTold
  <2>3. ModeTold
    BY StartAssumption DEF Init, ModeTold, Open
  <2>4. ASSUME NEW x \in Records, NEW k \in Steps, NEW q \in Periods
        PROVE  Cardinality(Fresh(x, k, q)) <= MaxOf[k]
    <3>1. Fresh(x, k, q) = {}
      BY <2>1 DEF Fresh, Counted, Live
    <3>2. Cardinality(Fresh(x, k, q)) = 0
      BY <3>1, FS_EmptySet
    <3> QED BY <3>2, SessionAssumption
  <2> QED BY <2>2, <2>3, <2>4 DEF MaxInv, FreshFits
<1>2. TypeOK /\ MaxInv /\ [Next]_vars => (TypeOK /\ MaxInv)'
  <2> SUFFICES ASSUME TypeOK, MaxInv, [Next]_vars PROVE TypeOK' /\ MaxInv'
    OBVIOUS
  <2>1. OnceInv /\ FiniteInv /\ ModeTold
    BY DEF MaxInv
  <2>2. OnceInv'
    BY <2>1, RowsOwnedStep, ReadsOwnedStep, LateToldStep, FiledOnceStep DEF OnceInv
  <2> QED BY <2>1, <2>2, TypeStep, FiniteStep, ModeToldStep, RoomToldStep,
             FreshFitsStep DEF MaxInv
<1>3. TypeOK /\ MaxInv => MaxEntriesRespected
  <2> SUFFICES ASSUME TypeOK, MaxInv, NEW x \in subjects, NEW k \in Steps,
                      NEW q \in Periods, Scope[k] # "SESSION",
                      CountFor({f \in History(x) : f.step = k}, k, q) > MaxOf[k]
               PROVE  \E f \in {f \in History(x) : f.step = k} :
                          \/ "record" \in f.stale
                          \/ session[f.session].mode = "REGISTER"
    BY DEF MaxEntriesRespected
  <2>1. x \in Records /\ x # None
    BY SessionAssumption DEF TypeOK, RowsTyped
  <2>2. CountFor({f \in History(x) : f.step = k}, k, q) = Cardinality(Counted(x, k, q))
    <3>1. Scope[k] \in {"SUBJECT", "SUBJECT_PERIOD"}
      BY SessionAssumption
    <3> DEFINE rows == {f \in History(x) : f.step = k}
    <3>2. CASE Scope[k] = "SUBJECT"
      <4>1. {f \in rows : f.step = k} = Counted(x, k, q)
        BY <2>1, <3>2 DEF History, Counted
      <4>2. CountFor(rows, k, q) = Cardinality({f \in rows : f.step = k})
        BY <3>2 DEF CountFor
      <4> QED BY <4>1, <4>2
    <3>3. CASE Scope[k] = "SUBJECT_PERIOD"
      <4>1. {f \in rows : f.step = k /\ f.period = q} = Counted(x, k, q)
        BY <2>1, <3>3 DEF History, Counted
      <4>2. CountFor(rows, k, q) = Cardinality({f \in rows : f.step = k /\ f.period = q})
        BY <3>3 DEF CountFor
      <4> QED BY <4>1, <4>2
    <3> QED BY <3>1, <3>2, <3>3
  <2>3. /\ Cardinality(Counted(x, k, q)) \in Nat /\ MaxOf[k] \in Nat
        /\ Cardinality(Fresh(x, k, q)) <= MaxOf[k]
    BY <2>1, CountedFinite, SessionAssumption DEF MaxInv, FreshFits
  <2>4. Counted(x, k, q) # Fresh(x, k, q)
    BY <2>2, <2>3
  <2>5. PICK f \in Counted(x, k, q) :
            ~("record" \notin f.stale /\ session[f.session].mode = "FOLLOW_UP")
    BY <2>4 DEF Fresh
  <2>6. f \in History(x) /\ f.step = k /\ f \in filed
    BY <2>1 DEF Counted, History, Live
  <2>7. session[f.session].mode \in {"REGISTER", "FOLLOW_UP"}
    <3>1. f.session \in Sessions /\ Open(f.session)
      BY <2>6 DEF MaxInv, OnceInv, RowsOwned, TypeOK, RowsTyped, FiledRow
    <3> QED BY <3>1 DEF Open, TypeOK, SessionsTyped, SessionRow
  <2> QED BY <2>5, <2>6, <2>7
<1> QED BY <1>1, <1>2, <1>3, PTL DEF Spec
=============================================================================
