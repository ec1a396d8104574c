----------------------- MODULE FormAppSessionsProofs -----------------------
(***************************************************************************)
(* Theorems about FormAppSessions, for any number of requests, sessions,   *)
(* entries, respondents and records, and any app.                          *)
(***************************************************************************)
EXTENDS FormAppSessions, FiniteSetTheorems, TLAPS

-----------------------------------------------------------------------------
(* Type correctness.                                                       *)

\* Replacing what one request does by a well-formed call keeps all calls
\* well-formed, as long as no session disappears.
LEMMA CallsStep ==
    ASSUME TypeOK, NEW r \in Requests, NEW c \in CallRow, CallOK(c),
           req' = [req EXCEPT ![r] = c],
           \A s \in Sessions : Open(s) => Open(s)'
    PROVE  CallsTyped'
<1>1. req' \in [Requests -> CallRow]
  BY DEF TypeOK, CallsTyped
<1>2. ASSUME NEW o \in Requests PROVE CallOK(req[o])'
  <2>1. req'[o] = c \/ req'[o] = req[o]
    BY DEF TypeOK, CallsTyped
  <2>2. CallOK(req[o]) /\ req[o] \in CallRow
    BY DEF TypeOK, CallsTyped
  <2>3. req[o].session \in Sessions \cup {None} /\ c.session \in Sessions \cup {None}
    BY <2>2 DEF CallRow
  <2> QED BY <2>1, <2>2, <2>3 DEF CallOK
<1> QED BY <1>1, <1>2 DEF CallsTyped

\* A call that is over is idle.
LEMMA IdleCall == Idle \in CallRow /\ CallOK(Idle)
BY DEF Idle, CallRow, CallOK, RequestStates

\* So is what a call that only moves on to another of its steps.
LEMMA CallsMove ==
    ASSUME TypeOK, NEW r \in Requests, NEW there \in RequestStates,
           Goto(r, there), UNCHANGED session,
           there \in {"open", "idle"} \/ req[r].at \notin {"open", "idle"},
           there = "open" => req[r].at = "open",
           there \in {"count", "save"} => req[r].at \in {"count", "save"}
    PROVE  CallsTyped'
<1> DEFINE c == [req[r] EXCEPT !.at = there]
<1>1. req[r] \in CallRow /\ CallOK(req[r])
  BY DEF TypeOK, CallsTyped
<1>2. c \in CallRow
  BY <1>1 DEF CallRow
<1>3. /\ c.at = there /\ c.session = req[r].session /\ c.step = req[r].step
      /\ c.answer = req[r].answer /\ c.who = req[r].who
      /\ c.period = req[r].period /\ c.read = req[r].read
  BY <1>1 DEF CallRow
<1>4. CallOK(c)
  BY <1>1, <1>3 DEF CallOK
<1>5. req' = [req EXCEPT ![r] = c]
  BY DEF Goto, TypeOK, CallsTyped
<1>6. \A s \in Sessions : Open(s) => Open(s)'
  BY DEF Open
<1> QED BY <1>2, <1>4, <1>5, <1>6, CallsStep

\* A request that ends leaves an idle call behind.
LEMMA CallsEnd ==
    ASSUME TypeOK, NEW r \in Requests, Finish(r), \A s \in Sessions : Open(s) => Open(s)'
    PROVE  CallsTyped'
BY IdleCall, CallsStep DEF Finish

\* A step that leaves the tables alone.
LEMMA TablesKept ==
    ASSUME TypeOK, UNCHANGED tables, CallsTyped'
    PROVE  TypeOK'
BY DEF TypeOK, tables, SessionsTyped, EntriesTyped, RowsTyped, WellTyped

\* A call that passed assertDraft.
LEMMA CallType ==
    ASSUME TypeOK, NEW r \in Requests, NEW s \in Sessions, NEW kind,
           NEW there \in RequestStates \ {"idle", "open"},
           NEW c \in CallRow, c.read = {},
           there \in {"count", "save"} => /\ c.step \in Steps
                                        /\ c.answer \in AnswersOf(c.step),
           Call(r, s, kind, there, c)
    PROVE  TypeOK'
<1> DEFINE d == [c EXCEPT !.at = there, !.session = s]
<1>1. d \in CallRow
  BY DEF CallRow
<1>2. /\ d.at = there /\ d.session = s /\ d.step = c.step
      /\ d.answer = c.answer /\ d.read = {}
  BY DEF CallRow
<1>3. Open(s)
  BY DEF Call, Draft
<1>4. CallOK(d)
  BY <1>2, <1>3 DEF CallOK
<1>5. \A t \in Sessions : Open(t) => Open(t)'
  BY DEF Call, tables, Open
<1>6. req' = [req EXCEPT ![r] = d]
  BY DEF Call
<1>7. CallsTyped'
  BY <1>1, <1>4, <1>5, <1>6, CallsStep
<1> QED BY <1>7, TablesKept DEF Call

\* openSession: the draft found is one that exists, and a new row is well-formed.
LEMMA OpenType ==
    ASSUME TypeOK, NEW r \in Requests, OpenSession(r)
    PROVE  TypeOK'
<1>1. ASSUME NEW p \in Respondents, NEW x \in Records \cup {None},
             NEW q \in Periods, FindDraft(r, p, x, q)
      PROVE  TypeOK'
  <2> DEFINE asked == IF x = None THEN Steps ELSE Available(x, q)
  <2>1. PICK s \in IF DraftsOf(p, x) = {} THEN {None} ELSE DraftsOf(p, x) :
            req' = [req EXCEPT ![r] =
                [Idle EXCEPT !.at = "open", !.session = s, !.who = p,
                             !.about = x, !.period = q, !.asked = asked]]
    BY <1>1 DEF FindDraft
  <2> DEFINE c == [Idle EXCEPT !.at = "open", !.session = s, !.who = p,
                               !.about = x, !.period = q, !.asked = asked]
  <2>2. s \in Sessions \cup {None} /\ (s # None => Open(s))
    BY <2>1 DEF DraftsOf, Draft
  <2>3. asked \in SUBSET Steps
    BY DEF Available
  <2> HIDE DEF asked
  <2>9. "open" \in RequestStates
    BY DEF RequestStates
  <2>4. c \in CallRow
    BY <2>2, <2>3, <2>9, IdleCall DEF CallRow
  <2>5. /\ c.at = "open" /\ c.session = s /\ c.who = p /\ c.period = q
        /\ c.read = {}
    BY DEF Idle
  <2>8. CallOK(c)
    BY <2>2, <2>5 DEF CallOK
  <2>6. \A t \in Sessions : Open(t) => Open(t)'
    BY <1>1 DEF FindDraft, tables, Open
  <2>7. CallsTyped'
    BY <2>1, <2>4, <2>8, <2>6, CallsStep
  <2> QED BY <1>1, <2>7, TablesKept DEF FindDraft
<1>2. CASE ResumeDraft(r)
  <2>1. req[r] \in CallRow /\ CallOK(req[r])
    BY DEF TypeOK, CallsTyped
  <2>2. req[r].session \in Sessions /\ session[req[r].session] \in SessionRow
    BY <1>2, <2>1 DEF ResumeDraft, CallOK, CallRow, Open, TypeOK, SessionsTyped
  <2>3. [session[req[r].session] EXCEPT !.asked = req[r].asked] \in SessionRow
    BY <2>1, <2>2 DEF SessionRow, CallRow
  <2>4. SessionsTyped'
    BY <1>2, <2>2, <2>3 DEF ResumeDraft, TypeOK, SessionsTyped
  <2>5. \A t \in Sessions : Open(t) => Open(t)'
    BY <1>2, <2>2, <2>3, SessionAssumption DEF ResumeDraft, Open, TypeOK,
                                               SessionsTyped
  <2>6. CallsTyped'
    BY <1>2, <2>5, CallsEnd DEF ResumeDraft
  <2> QED
    BY <1>2, <2>4, <2>6 DEF ResumeDraft, TypeOK, EntriesTyped, RowsTyped,
                            WellTyped
<1>3. CASE CreateDraft(r)
  <2>5. req[r] \in CallRow /\ CallOK(req[r])
    BY DEF TypeOK, CallsTyped
  <2>6. /\ req[r].who \in Respondents /\ req[r].period \in Periods
        /\ req[r].about \in Records \cup {None} /\ req[r].asked \in SUBSET Steps
    BY <1>3, <2>5 DEF CreateDraft, At, CallOK, CallRow
  <2>1. NewSession(r) \in SessionRow
    BY <2>6 DEF NewSession, SessionRow
  <2>2. SessionsTyped'
    BY <1>3, <2>1 DEF CreateDraft, TypeOK, SessionsTyped
  <2>3. \A t \in Sessions : Open(t) => Open(t)'
    BY <1>3, <2>1, SessionAssumption DEF CreateDraft, Open, TypeOK,
                                         SessionsTyped
  <2>4. CallsTyped'
    BY <1>3, <2>3, CallsEnd DEF CreateDraft
  <2> QED
    BY <1>3, <2>2, <2>4 DEF CreateDraft, TypeOK, EntriesTyped, RowsTyped,
                            WellTyped
<1> QED BY <1>1, <1>2, <1>3 DEF OpenSession

\* What a request knows of its session and its entry while it edits.
LEMMA Editing ==
    ASSUME TypeOK, NEW r \in Requests, ~At(r, "idle"), ~At(r, "open")
    PROVE  /\ req[r] \in CallRow /\ CallOK(req[r])
           /\ req[r].session \in Sessions /\ Open(req[r].session)
           /\ session[req[r].session] \in SessionRow
<1>1. req[r] \in CallRow /\ CallOK(req[r])
  BY DEF TypeOK, CallsTyped
<1>2. req[r].session \in Sessions
  BY <1>1 DEF At, CallOK
<1>3. Open(req[r].session)
  BY <1>1, <1>2, SessionAssumption DEF CallOK
<1> QED BY <1>1, <1>2, <1>3 DEF Open, TypeOK, SessionsTyped

\* A save, a removal or a reset that passed assertDraft.
LEMMA CallEditType ==
    ASSUME TypeOK, NEW r \in Requests, NEW s \in Sessions,
           SaveEntry(r, s) \/ DeleteEntry(r, s) \/ ResetSession(r, s)
    PROVE  TypeOK'
<1> USE SessionAssumption
<1>1. CASE SaveEntry(r, s)
  <2>0. PICK k \in Steps :
            \E a \in AnswersOf(k), i \in 0 .. MaxOf[k] - 1 :
                Call(r, s, "save", "count",
                     [Idle EXCEPT !.step = k, !.index = i, !.answer = a])
    BY <1>1 DEF SaveEntry
  <2>1. PICK a \in AnswersOf(k), i \in 0 .. MaxOf[k] - 1 :
            Call(r, s, "save", "count",
                 [Idle EXCEPT !.step = k, !.index = i, !.answer = a])
    BY <2>0
  <2> DEFINE c == [Idle EXCEPT !.step = k, !.index = i, !.answer = a]
  <2>2. i \in Nat /\ a \in Answers \cup Records
    BY DEF AnswersOf
  <2>3. c \in CallRow
    BY <2>2, IdleCall DEF CallRow
  <2>4. c.step = k /\ c.answer = a /\ c.read = {}
    BY DEF Idle
  <2>5. "count" \in RequestStates \ {"idle", "open"}
    BY DEF RequestStates
  <2>6. Call(r, s, "save", "count", c)
    BY <2>1
  <2> HIDE DEF c
  <2> QED BY <2>3, <2>4, <2>5, <2>6, CallType
<1>2. CASE DeleteEntry(r, s)
  <2>0. PICK k \in Repeatable : \E i \in 0 .. MaxOf[k] - 1 :
            Call(r, s, "delete", "delete",
                 [Idle EXCEPT !.step = k, !.index = i])
    BY <1>2 DEF DeleteEntry
  <2>1. PICK i \in 0 .. MaxOf[k] - 1 :
            Call(r, s, "delete", "delete",
                 [Idle EXCEPT !.step = k, !.index = i])
    BY <2>0
  <2> DEFINE c == [Idle EXCEPT !.step = k, !.index = i]
  <2>2. k \in Steps /\ i \in Nat
    OBVIOUS
  <2>3. c \in CallRow
    BY <2>2, IdleCall DEF CallRow
  <2>4. c.read = {}
    BY DEF Idle
  <2>5. "delete" \in RequestStates \ {"idle", "open"}
    BY DEF RequestStates
  <2>6. Call(r, s, "delete", "delete", c)
    BY <2>1
  <2> HIDE DEF c
  <2> QED BY <2>3, <2>4, <2>5, <2>6, CallType
<1>3. CASE ResetSession(r, s)
  <2>1. Idle \in CallRow /\ Idle.read = {}
    BY IdleCall DEF Idle
  <2>2. "reset" \in RequestStates \ {"idle", "open"}
    BY DEF RequestStates
  <2> QED BY <1>3, <2>1, <2>2, CallType DEF ResetSession
<1> QED BY <1>1, <1>2, <1>3

\* A step that changes staged entries and the history of races only.
LEMMA EntriesMoved ==
    ASSUME TypeOK, NEW r \in Requests, Finish(r), EntriesTyped',
           raced' \in SUBSET Sessions,
           UNCHANGED <<session, subjects, filed>>
    PROVE  TypeOK'
<1>1. \A t \in Sessions : Open(t) => Open(t)'
  BY DEF Open
<1>2. CallsTyped'
  BY <1>1, CallsEnd
<1> QED BY <1>2 DEF TypeOK, SessionsTyped, RowsTyped

\* The writes of saveEntry, deleteEntry and resetSession: an upsert keeps or
\* extends the table, and an index that moves down stays a natural number.
LEMMA EditType ==
    ASSUME TypeOK, NEW r \in Requests, EditSession(r)
    PROVE  TypeOK'
<1> USE SessionAssumption
<1>1. CASE CountStaged(r)
  <2>1. CASE Finish(r)
    BY <1>1, <2>1, CallsEnd, TablesKept DEF CountStaged, tables, Open
  <2>2. CASE Goto(r, "save")
    <3>1. CallsTyped'
      BY <1>1, <2>2, CallsMove DEF CountStaged, tables, At, RequestStates
    <3> QED BY <1>1, <3>1, TablesKept DEF CountStaged
  <2> QED BY <1>1, <2>1, <2>2 DEF CountStaged
<1>2. CASE UpsertEntry(r)
  <2> DEFINE s == req[r].session
             old == EntryAt(s, req[r].step, req[r].index)
             row == [session |-> s, step |-> req[r].step,
                     index |-> req[r].index, answer |-> req[r].answer,
                     filedBy |-> None]
  <2>1. /\ s \in Sessions /\ req[r].step \in Steps /\ req[r].index \in Nat
        /\ req[r].answer \in AnswersOf(req[r].step)
    BY <1>2, Editing DEF UpsertEntry, At, CallOK, CallRow
  <2>2. row \in EntryRow /\ WellTyped(row) /\ row.answer = req[r].answer
    BY <2>1 DEF EntryRow, WellTyped, AnswersOf
  <2>3. ASSUME staged' = [e \in EntryIds |-> IF e \in old
                   THEN [staged[e] EXCEPT !.answer = row.answer] ELSE staged[e]],
               UNCHANGED lastEntry
        PROVE  EntriesTyped'
    <3>1. ASSUME NEW e \in old
          PROVE  /\ e \in EntryIds /\ staged[e] # None
                 /\ WellTyped([staged[e] EXCEPT !.answer = row.answer])
                 /\ [staged[e] EXCEPT !.answer = row.answer] \in EntryRow
      <4>1. e \in EntryIds /\ staged[e] # None /\ staged[e].step = req[r].step
        BY DEF EntryAt, EntriesOf
      <4>2. staged[e] \in EntryRow
        BY <4>1 DEF TypeOK, EntriesTyped
      <4> HIDE DEF old, row
      <4>3. row.answer \in Answers \cup Records
        BY <2>1, <2>2 DEF AnswersOf
      <4>4. [staged[e] EXCEPT !.answer = row.answer] \in EntryRow
        BY <4>2, <4>3 DEF EntryRow
      <4>5. /\ [staged[e] EXCEPT !.answer = row.answer].answer = row.answer
            /\ [staged[e] EXCEPT !.answer = row.answer].step = staged[e].step
        BY <4>2 DEF EntryRow
      <4> QED BY <4>1, <4>4, <4>5, <2>1, <2>2 DEF WellTyped
    <3> HIDE DEF old, row
    <3> QED BY <2>3, <3>1 DEF TypeOK, EntriesTyped, WellTyped
  <2>4. ASSUME lastEntry + 1 \in EntryIds,
               staged' = [staged EXCEPT ![lastEntry + 1] = row],
               lastEntry' = lastEntry + 1
        PROVE  EntriesTyped'
    <3>1. lastEntry \in Nat /\ lastEntry' \in Nat
      BY <2>4 DEF TypeOK, EntriesTyped
    <3> HIDE DEF row, old, s
    <3>2. staged' \in [EntryIds -> EntryRow \cup {None}]
      BY <2>2, <2>4 DEF TypeOK, EntriesTyped
    <3>3. \A e \in EntryIds : /\ e = lastEntry + 1 => staged'[e] = row
                              /\ e # lastEntry + 1 => staged'[e] = staged[e]
      BY <2>4 DEF TypeOK, EntriesTyped
    <3>4. \A e \in EntryIds : staged'[e] # None => WellTyped(staged[e])'
      <4> SUFFICES ASSUME NEW e \in EntryIds, staged'[e] # None
                   PROVE  WellTyped(staged'[e])
        BY DEF WellTyped
      <4>1. CASE e = lastEntry + 1
        BY <2>2, <3>1, <3>3, <4>1
      <4>2. CASE e # lastEntry + 1
        BY <3>1, <3>3, <4>2 DEF TypeOK, EntriesTyped
      <4> QED BY <4>1, <4>2
    <3>5. \A e \in EntryIds : e > lastEntry' => staged'[e] = None
      <4>1. ASSUME NEW e \in EntryIds, e > lastEntry'
            PROVE  e > lastEntry /\ e # lastEntry + 1
        BY <2>4, <3>1, <4>1, SessionAssumption
      <4> QED BY <3>3, <4>1 DEF TypeOK, EntriesTyped
    <3> QED BY <3>1, <3>2, <3>4, <3>5 DEF EntriesTyped
  <2>5. EntriesTyped'
    BY <1>2, <2>3, <2>4 DEF UpsertEntry
  <2>6. raced' \in SUBSET Sessions
    BY <1>2, <2>1 DEF UpsertEntry, TypeOK
  <2> QED BY <1>2, <2>5, <2>6, EntriesMoved DEF UpsertEntry
<1>3. CASE RemoveEntry(r)
  <2> DEFINE s == req[r].session
             above(e) == /\ e \in EntriesOf(s)
                         /\ staged[e].step = req[r].step
                         /\ staged[e].index > req[r].index
  <2>1. s \in Sessions /\ req[r].index \in Nat
    BY <1>3, Editing DEF RemoveEntry, At, CallRow
  <2>2. ASSUME NEW e \in EntryIds, above(e)
        PROVE  /\ [staged[e] EXCEPT !.index = @ - 1] \in EntryRow
               /\ WellTyped([staged[e] EXCEPT !.index = @ - 1])
    <3>1. staged[e] \in EntryRow /\ WellTyped(staged[e])
      BY <2>2 DEF EntriesOf, TypeOK, EntriesTyped
    <3>2. staged[e].index - 1 \in Nat
      BY <2>1, <2>2, <3>1 DEF EntryRow
    <3>3. [staged[e] EXCEPT !.index = @ - 1] \in EntryRow
      BY <3>1, <3>2 DEF EntryRow
    <3>4. /\ [staged[e] EXCEPT !.index = @ - 1].answer = staged[e].answer
          /\ [staged[e] EXCEPT !.index = @ - 1].step = staged[e].step
      BY <3>1 DEF EntryRow
    <3> QED BY <3>1, <3>3, <3>4 DEF WellTyped
  <2>3. \A e \in EntryIds : above(e) => staged[e] # None
    BY DEF EntriesOf
  <2>4. /\ staged' = [e \in EntryIds |->
            IF e \in EntryAt(s, req[r].step, req[r].index) THEN None
            ELSE IF above(e) THEN [staged[e] EXCEPT !.index = @ - 1]
            ELSE staged[e]]
        /\ UNCHANGED lastEntry
    BY <1>3 DEF RemoveEntry
  <2> HIDE DEF above
  <2>5. EntriesTyped'
    BY <2>2, <2>3, <2>4 DEF TypeOK, EntriesTyped, WellTyped
  <2>6. raced' \in SUBSET Sessions
    BY <1>3, <2>1 DEF RemoveEntry, TypeOK
  <2> QED BY <1>3, <2>5, <2>6, EntriesMoved DEF RemoveEntry
<1>4. CASE RemoveAll(r)
  <2>1. EntriesTyped'
    BY <1>4 DEF RemoveAll, TypeOK, EntriesTyped, WellTyped
  <2>2. raced' \in SUBSET Sessions
    BY <1>4 DEF RemoveAll, TypeOK
  <2> QED BY <1>4, <2>1, <2>2, EntriesMoved DEF RemoveAll
<1> QED BY <1>1, <1>2, <1>3, <1>4, CallEditType DEF EditSession

\* The key of an occurrence is none, or one of the index's.
LEMMA KeyType ==
    ASSUME NEW k \in Steps, NEW q \in Periods, NEW a \in Answers \cup Records
    PROVE  OccurrenceKey(k, q, a) \in Keys \cup {None}
<1> DEFINE within == IF Scope[k] = "SUBJECT_PERIOD" THEN q ELSE None
<1>1. within \in Periods \cup {None}
  OBVIOUS
<1>2. <<within, a>> \in Keys /\ <<within, "singleton">> \in Keys
  BY <1>1 DEF Keys
<1>3. CASE Scope[k] = "SESSION"
  BY <1>3 DEF OccurrenceKey
<1>4. CASE Scope[k] # "SESSION" /\ k \in Keyed
  BY <1>2, <1>4 DEF OccurrenceKey
<1>5. CASE Scope[k] # "SESSION" /\ k \notin Keyed
  BY <1>2, <1>5 DEF OccurrenceKey
<1> QED BY <1>3, <1>4, <1>5

\* A report is filed about a record that may exist.
LEMMA RecordType ==
    ASSUME TypeOK, NEW r \in Requests, ~At(r, "idle"), ~At(r, "open")
    PROVE  RecordFor(r) \in Records \cup {None}
<1>1. CASE FollowUp(r)
  BY <1>1, Editing DEF RecordFor, Bound, SessionRow
<1>2. CASE ~FollowUp(r)
  <2> DEFINE named == {e.answer : e \in {d \in req[r].read :
                            d.step \in Registration /\ d.index = 0}}
  <2>1. named \subseteq Records
    BY Editing DEF CallOK, AnswersOf
  <2>2. RecordFor(r) = IF named = {} THEN None ELSE CHOOSE x \in named : TRUE
    BY <1>2 DEF RecordFor
  <2> HIDE DEF named
  <2> QED BY <2>1, <2>2
<1> QED BY <1>1, <1>2

\* The rows a report is filed as are well-formed.
LEMMA RowsType ==
    ASSUME TypeOK, NEW r \in Requests, ~At(r, "idle"), ~At(r, "open"),
           NEW x \in Records \cup {None}
    PROVE  \A f \in RowsOf(r, x) : f \in FiledRow /\ f.record = x
<1>1. /\ req[r].read \subseteq ReadRow /\ req[r].session \in Sessions
      /\ req[r].stale \in SUBSET {"session", "record", "month"}
      /\ session[req[r].session].period \in Periods
  BY Editing DEF CallRow, SessionRow
<1>2. ASSUME NEW e \in req[r].read
      PROVE  LET key == IF x = None THEN None ELSE KeyOf(r, e)
                 f == [entry |-> e.id, by |-> r, session |-> req[r].session,
                       record |-> x, step |-> e.step,
                       period |-> session[req[r].session].period,
                       key |-> key, answer |-> e.answer, live |-> TRUE,
                       post |-> "none", stale |-> req[r].stale]
             IN  f \in FiledRow /\ f.record = x
  <2>1. e.id \in EntryIds /\ e.step \in Steps /\ e.answer \in Answers \cup Records
    BY <1>1 DEF ReadRow
  <2>2. (IF x = None THEN None ELSE KeyOf(r, e)) \in Keys \cup {None}
    BY <1>1, <2>1, KeyType DEF KeyOf
  <2> QED BY <1>1, <2>1, <2>2 DEF FiledRow
<1> QED BY <1>2 DEF RowsOf

\* Requests other than the one that commits only learn that they are late.
LEMMA CommitCallsType ==
    ASSUME TypeOK, NEW r \in Requests, NEW x, FileUnder(r, x),
           \A s \in Sessions : Open(s) => Open(s)'
    PROVE  CallsTyped'
<1>1. ASSUME NEW o \in Requests
      PROVE  /\ req'[o] \in CallRow
             /\ CallOK(req[o])'
  <2>1. req[o] \in CallRow /\ CallOK(req[o])
    BY DEF TypeOK, CallsTyped
  <2>2. CASE o = r
    <3> DEFINE c == [req[r] EXCEPT !.at = "enqueue"]
    <3>1. req'[o] = c
      BY <2>2 DEF FileUnder
    <3>2. c \in CallRow
      BY <2>1, <2>2 DEF CallRow, RequestStates
    <3>3. /\ c.at = "enqueue" /\ c.session = req[r].session
          /\ c.read = req[r].read
      BY <2>1, <2>2 DEF CallRow
    <3>4. req[r].session \in Sessions
      BY <2>1, <2>2 DEF FileUnder, At, CallOK
    <3> HIDE DEF c
    <3> QED BY <2>1, <2>2, <3>1, <3>2, <3>3, <3>4 DEF CallOK
  <2>3. CASE o # r /\ req[o].at \in Reading
    <3> DEFINE late == NowStale(o, r, x)
               c == [req[o] EXCEPT !.stale = late]
    <3>1. req'[o] = c
      BY <2>3 DEF FileUnder
    <3>2. late \in SUBSET {"session", "record", "month"}
      BY <2>1 DEF NowStale, CallRow
    <3> HIDE DEF late
    <3>3. c \in CallRow
      BY <2>1, <3>2 DEF CallRow
    <3>4. /\ c.at = req[o].at /\ c.session = req[o].session
          /\ c.step = req[o].step /\ c.answer = req[o].answer
          /\ c.who = req[o].who /\ c.period = req[o].period
          /\ c.read = req[o].read
      BY <2>1 DEF CallRow
    <3>5. c.session \in Sessions \cup {None}
      BY <3>3 DEF CallRow
    <3> HIDE DEF c
    <3> QED BY <2>1, <3>1, <3>3, <3>4, <3>5 DEF CallOK
  <2>4. CASE o # r /\ req[o].at \notin Reading
    <3>1. req'[o] = req[o]
      BY <2>4 DEF FileUnder
    <3>2. req[o].session \in Sessions \cup {None}
      BY <2>1 DEF CallRow
    <3> QED BY <2>1, <3>1, <3>2 DEF CallOK
  <2> QED BY <2>2, <2>3, <2>4
<1>2. req' \in [Requests -> CallRow]
  <2>1. DOMAIN req' = Requests /\ req' = [o \in Requests |-> req'[o]]
    BY DEF FileUnder
  <2> QED BY <1>1, <2>1
<1> QED BY <1>1, <1>2 DEF CallsTyped

\* The transaction of a submit.
LEMMA CommitType ==
    ASSUME TypeOK, NEW r \in Requests, CommitReport(r)
    PROVE  TypeOK'
<1> DEFINE x == RecordFor(r)
<1>1. /\ FileUnder(r, x) /\ Close(r, x)
      /\ ~At(r, "idle") /\ ~At(r, "open")
  BY DEF CommitReport, FileUnder, At
<1>2. x \in Records \cup {None}
  BY <1>1, RecordType
<1> HIDE DEF x
<1>3. SessionsTyped' /\ \A s \in Sessions : Open(s) => Open(s)'
  <2> DEFINE s == req[r].session
             row == [session[s] EXCEPT !.status = "SUBMITTED", !.about = x,
                                       !.judged = Visible(r)]
  <2>1. s \in Sessions /\ session[s] \in SessionRow /\ req[r] \in CallRow
    BY <1>1, Editing
  <2>2. Visible(r) \in SUBSET Steps
    BY <2>1 DEF Visible, CallRow
  <2>3. row \in SessionRow
    BY <1>2, <2>1, <2>2 DEF SessionRow
  <2>4. session' = [session EXCEPT ![s] = row]
    BY <1>1, <2>1 DEF Close, TypeOK, SessionsTyped
  <2> HIDE DEF row, s
  <2> QED
    BY <2>1, <2>3, <2>4, SessionAssumption DEF TypeOK, SessionsTyped, Open
<1>4. EntriesTyped'
  <2>1. ASSUME NEW e \in EntryIds, \E d \in req[r].read : d.id = e
        PROVE  /\ staged[e] # None
               /\ [staged[e] EXCEPT !.filedBy = r] \in EntryRow
               /\ WellTyped([staged[e] EXCEPT !.filedBy = r])
    <3>1. staged[e] # None /\ staged[e] \in EntryRow /\ WellTyped(staged[e])
      BY <1>1, <2>1 DEF FileUnder, TypeOK, EntriesTyped
    <3>2. [staged[e] EXCEPT !.filedBy = r] \in EntryRow
      BY <3>1 DEF EntryRow
    <3>3. /\ [staged[e] EXCEPT !.filedBy = r].answer = staged[e].answer
          /\ [staged[e] EXCEPT !.filedBy = r].step = staged[e].step
      BY <3>1 DEF EntryRow
    <3> QED BY <3>1, <3>2, <3>3 DEF WellTyped
  <2>2. /\ staged' = [e \in EntryIds |->
              IF \E d \in req[r].read : d.id = e
              THEN [staged[e] EXCEPT !.filedBy = r] ELSE staged[e]]
        /\ UNCHANGED lastEntry
    BY <1>1 DEF FileUnder
  <2> QED BY <2>1, <2>2 DEF TypeOK, EntriesTyped, WellTyped
<1>5. RowsTyped'
  BY <1>1, <1>2, RowsType DEF FileUnder, TypeOK, RowsTyped
<1>6. CallsTyped'
  BY <1>1, <1>3, CommitCallsType
<1> QED BY <1>1, <1>3, <1>4, <1>5, <1>6 DEF FileUnder, TypeOK

\* A step that changes filed rows in place, and the calls.
LEMMA RowsChanged ==
    ASSUME TypeOK, CallsTyped',
           \A g \in filed' : g \in FiledRow /\ \E f \in filed : g.record = f.record,
           UNCHANGED <<session, staged, lastEntry, subjects, raced>>
    PROVE  TypeOK'
<1>1. RowsTyped'
  BY DEF TypeOK, RowsTyped
<1> QED BY <1>1 DEF TypeOK, SessionsTyped, EntriesTyped, WellTyped

\* The mark of the side effects is one of three.
LEMMA PostType ==
    ASSUME TypeOK, NEW rows \in SUBSET filed, NEW p \in {"none", "queued", "lost"},
           SetPost(rows, p)
    PROVE  \A g \in filed' : g \in FiledRow /\ \E f \in filed : g.record = f.record
<1>1. ASSUME NEW f \in filed
      PROVE  /\ [f EXCEPT !.post = p] \in FiledRow
             /\ [f EXCEPT !.post = p].record = f.record
             /\ f \in FiledRow
  <2>1. f \in FiledRow
    BY DEF TypeOK, RowsTyped
  <2> QED BY <2>1 DEF FiledRow
<1> QED BY <1>1 DEF SetPost

\* Calls stay well-formed when neither they nor the sessions change.
LEMMA CallsKept ==
    ASSUME TypeOK, UNCHANGED <<session, req>>
    PROVE  CallsTyped'
<1>1. ASSUME NEW o \in Requests PROVE CallOK(req[o])'
  <2>1. CallOK(req[o]) /\ req[o].session \in Sessions \cup {None}
    BY DEF TypeOK, CallsTyped, CallRow
  <2> QED BY <2>1 DEF CallOK, Open
<1> QED BY <1>1 DEF TypeOK, CallsTyped

\* deleteSubmission changes one mark of one row.
LEMMA DeleteType ==
    ASSUME TypeOK, NEW f \in filed, DeleteSubmission(f)
    PROVE  TypeOK'
<1>1. f \in FiledRow
  BY DEF TypeOK, RowsTyped
<1>2. /\ [f EXCEPT !.live = FALSE] \in FiledRow
      /\ [f EXCEPT !.live = FALSE].record = f.record
  BY <1>1 DEF FiledRow
<1>3. \A g \in filed' : g \in FiledRow /\ \E h \in filed : g.record = h.record
  BY <1>2 DEF DeleteSubmission, TypeOK, RowsTyped
<1>4. CallsTyped'
  BY CallsKept DEF DeleteSubmission
<1> QED BY <1>3, <1>4, RowsChanged DEF DeleteSubmission

\* submitSession, one lemma's step per step of the call.
LEMMA SubmitType ==
    ASSUME TypeOK, NEW r \in Requests, Submit(r)
    PROVE  TypeOK'
<1>1. ASSUME NEW s \in Sessions, SubmitSession(r, s) PROVE TypeOK'
  <2> DEFINE c == [Idle EXCEPT !.asked = session[s].asked]
  <2>1. session[s] \in SessionRow
    BY <1>1 DEF SubmitSession, Call, Draft, Open, TypeOK, SessionsTyped
  <2>2. session[s].asked \in SUBSET Steps
    BY <2>1 DEF SessionRow
  <2>3. c \in CallRow
    BY <2>2, IdleCall DEF CallRow
  <2>4. c.read = {}
    BY DEF Idle
  <2>5. "entries" \in RequestStates \ {"idle", "open"}
    BY DEF RequestStates, Reading
  <2>6. Call(r, s, "submit", "entries", c)
    BY <1>1 DEF SubmitSession
  <2> HIDE DEF c
  <2> QED BY <2>3, <2>4, <2>5, <2>6, CallType
<1>2. CASE ReadEntries(r)
  <2> DEFINE read == {[id |-> e, step |-> staged[e].step,
                       index |-> staged[e].index, answer |-> staged[e].answer] :
                e \in {d \in EntriesOf(req[r].session) :
                            staged[d].step \in Visible(r)}}
             c == [req[r] EXCEPT !.at = "history", !.read = read]
  <2>1. /\ req[r] \in CallRow /\ CallOK(req[r]) /\ req[r].session \in Sessions
        /\ req[r].at = "entries"
    BY <1>2, Editing DEF ReadEntries, At
  <2>2. \A e \in read : e \in ReadRow /\ e.answer \in AnswersOf(e.step)
    BY DEF EntriesOf, TypeOK, EntriesTyped, WellTyped, EntryRow, ReadRow
  <2> HIDE DEF read
  <2>3. c \in CallRow
    BY <2>1, <2>2 DEF CallRow, RequestStates, Reading
  <2>4. /\ c.at = "history" /\ c.session = req[r].session /\ c.read = read
    BY <2>1 DEF CallRow
  <2>5. CallOK(c)
    BY <2>1, <2>2, <2>4 DEF CallOK
  <2>6. req' = [req EXCEPT ![r] = c] /\ UNCHANGED tables
    BY <1>2 DEF ReadEntries, read, TypeOK, CallsTyped
  <2>7. CallsTyped'
    BY <2>3, <2>5, <2>6, CallsStep DEF tables, Open
  <2> QED BY <2>6, <2>7, TablesKept
<1>3. CASE JudgeReport(r)
  <2>1. CallsTyped'
    BY <1>3, CallsMove, CallsEnd
    DEF JudgeReport, Judge, At, tables, RequestStates, Reading, Open
  <2> QED BY <1>3, <2>1, TablesKept DEF JudgeReport, Judge
<1>4. CASE CheckQuota(r)
  <2>1. CallsTyped'
    BY <1>4, CallsMove, CallsEnd
    DEF CheckQuota, At, tables, RequestStates, Reading, Open
  <2> QED BY <1>4, <2>1, TablesKept DEF CheckQuota
<1>5. CASE CommitReport(r)
  BY <1>5, CommitType
<1>6. CASE RollBack(r) \/ Respond(r)
  <2>1. CallsTyped'
    BY <1>6, CallsEnd DEF RollBack, Respond, tables, Open
  <2> QED BY <1>6, <2>1, TablesKept DEF RollBack, Respond
<1>7. CASE EnqueueRow(r)
  <2>1. CallsTyped'
    BY <1>7, CallsKept DEF EnqueueRow
  <2>2. PICK f \in ToEnqueue(r) : SetPost({f}, "queued") \/ SetPost({f}, "lost")
    BY <1>7 DEF EnqueueRow
  <2>3. {f} \in SUBSET filed
    BY DEF ToEnqueue
  <2>4. \A g \in filed' : g \in FiledRow /\ \E h \in filed : g.record = h.record
    BY <2>2, <2>3, PostType
  <2> QED BY <1>7, <2>1, <2>4, RowsChanged DEF EnqueueRow
<1>8. CASE CrashAfterCommit(r)
  <2>1. CallsTyped'
    BY <1>8, CallsEnd DEF CrashAfterCommit, Open
  <2>2. ToEnqueue(r) \in SUBSET filed
    BY DEF ToEnqueue
  <2>3. \A g \in filed' : g \in FiledRow /\ \E h \in filed : g.record = h.record
    BY <1>8, <2>2, PostType DEF CrashAfterCommit
  <2> QED BY <1>8, <2>1, <2>3, RowsChanged DEF CrashAfterCommit
<1> QED BY <1>1, <1>2, <1>3, <1>4, <1>5, <1>6, <1>7, <1>8 DEF Submit

\* Every step keeps the types.
LEMMA TypeStep ==
    ASSUME TypeOK, [Next]_vars
    PROVE  TypeOK'
<1>1. ASSUME UNCHANGED vars PROVE TypeOK'
  BY <1>1, CallsKept, TablesKept DEF vars, tables
<1> QED BY <1>1, OpenType, EditType, SubmitType, DeleteType DEF Next

\* The tables one may start with are well-formed.
LEMMA TypeInit ==
    ASSUME Init
    PROVE  TypeOK
<1>1. SessionsTyped
  BY StartAssumption DEF Init, SessionsTyped
<1>2. EntriesTyped
  BY SessionAssumption, StartAssumption DEF Init, EntriesTyped
<1>3. RowsTyped
  BY SessionAssumption DEF Init, RowsTyped
<1>4. CallsTyped
  <2>1. \A r \in Requests : req[r] = Idle
    BY DEF Init
  <2> QED BY <2>1, IdleCall DEF Init, CallsTyped
<1> QED BY <1>1, <1>2, <1>3, <1>4 DEF Init, TypeOK

\* Every variable holds a value of its kind in every reachable state; the
\* record a row is filed about exists, so a submission never names a record
\* that its transaction did not create.
THEOREM TypeCorrect == Spec => []TypeOK
<1>1. Init => TypeOK
  BY TypeInit
<1>2. TypeOK /\ [Next]_vars => TypeOK'
  BY TypeStep
<1> QED BY <1>1, <1>2, PTL DEF Spec

-----------------------------------------------------------------------------
(* One open draft.                                                         *)

SameOwner(s, t) ==
    session[s].who = session[t].who /\ session[s].about = session[t].about

\* The invariant of the index on open drafts, as a statement about pairs.
DraftsDistinct ==
    \A s, t \in Sessions : Draft(s) /\ Draft(t) /\ SameOwner(s, t) => s = t

\* A step after which every draft was one before, of the same respondent and
\* about the same record, opens no second one.
LEMMA DraftsKept ==
    ASSUME DraftsDistinct,
           \A s \in Sessions : Draft(s)' =>
              /\ Draft(s)
              /\ session'[s].who = session[s].who
              /\ session'[s].about = session[s].about
    PROVE  DraftsDistinct'
BY DEF DraftsDistinct, SameOwner

\* Only openSession and the commit of a submit write a session's row.
LEMMA OtherSteps ==
    ASSUME [Next]_vars
    PROVE  \/ UNCHANGED session
           \/ \E r \in Requests :
                ResumeDraft(r) \/ CreateDraft(r) \/ CommitReport(r)
<1>1. ASSUME NEW r \in Requests, OpenSession(r), ~ResumeDraft(r), ~CreateDraft(r)
      PROVE  UNCHANGED session
  BY <1>1 DEF OpenSession, FindDraft, tables
<1>2. ASSUME NEW r \in Requests, EditSession(r) PROVE UNCHANGED session
  BY <1>2 DEF EditSession, SaveEntry, DeleteEntry, ResetSession, Call,
              CountStaged, UpsertEntry, RemoveEntry, RemoveAll, tables
<1>3. ASSUME NEW r \in Requests, Submit(r), ~CommitReport(r)
      PROVE  UNCHANGED session
  BY <1>3 DEF Submit, SubmitSession, Call, ReadEntries, JudgeReport, Judge,
              CheckQuota, RollBack, EnqueueRow, Respond, CrashAfterCommit,
              tables
<1>4. ASSUME NEW f \in filed, DeleteSubmission(f) PROVE UNCHANGED session
  BY <1>4 DEF DeleteSubmission
<1> QED BY <1>1, <1>2, <1>3, <1>4 DEF Next, vars

\* The insert of a draft is refused when there is one; a resumed one keeps its
\* owner; a submitted one is no draft any more.
LEMMA DraftsStep ==
    ASSUME TypeOK, DraftsDistinct, [Next]_vars
    PROVE  DraftsDistinct'
<1>1. CASE UNCHANGED session
  BY <1>1, DraftsKept DEF Draft, Open
<1>2. ASSUME NEW r \in Requests, ResumeDraft(r) PROVE DraftsDistinct'
  <2>1. req[r].session \in Sessions /\ session[req[r].session] \in SessionRow
    BY <1>2 DEF ResumeDraft, TypeOK, CallsTyped, CallOK, CallRow, Open,
                SessionsTyped
  <2>2. \A s \in Sessions : session'[s] = session[s] \/
            /\ session[s] \in SessionRow
            /\ session'[s] = [session[s] EXCEPT !.asked = req[r].asked]
    BY <1>2, <2>1 DEF ResumeDraft, TypeOK, SessionsTyped
  <2>3. ASSUME NEW s \in Sessions, session[s] \in SessionRow,
               session'[s] = [session[s] EXCEPT !.asked = req[r].asked]
        PROVE  /\ session'[s].status = session[s].status
               /\ session'[s].who = session[s].who
               /\ session'[s].about = session[s].about
               /\ session[s] # None
    BY <2>3, SessionAssumption DEF SessionRow
  <2>4. \A s \in Sessions : Draft(s)' =>
              /\ Draft(s)
              /\ session'[s].who = session[s].who
              /\ session'[s].about = session[s].about
    BY <2>2, <2>3 DEF Draft, Open
  <2> QED BY <2>4, DraftsKept
<1>3. ASSUME NEW r \in Requests, CreateDraft(r) PROVE DraftsDistinct'
  <2>1. CASE UNCHANGED session
    BY <2>1, DraftsKept DEF Draft, Open
  <2>2. ASSUME DraftsOf(req[r].who, req[r].about) = {}, NEW d \in Sessions,
               session' = [session EXCEPT ![d] = NewSession(r)]
        PROVE  DraftsDistinct'
    <3>1. /\ session'[d] = NewSession(r)
          /\ \A s \in Sessions \ {d} : session'[s] = session[s]
      BY <2>2 DEF TypeOK, SessionsTyped
    <3>2. /\ session'[d].who = req[r].who /\ session'[d].about = req[r].about
      BY <3>1 DEF NewSession
    <3>3. \A s \in Sessions \ {d} : Draft(s)' => Draft(s) /\
              ~(session'[s].who = req[r].who /\ session'[s].about = req[r].about)
      BY <2>2, <3>1 DEF DraftsOf, Draft, Open
    <3>4. ASSUME NEW s \in Sessions, NEW t \in Sessions,
                 Draft(s)', Draft(t)', SameOwner(s, t)', s # t
          PROVE  FALSE
      <4>1. CASE s = d \/ t = d
        BY <3>2, <3>3, <3>4, <4>1 DEF SameOwner
      <4>2. CASE s # d /\ t # d
        BY <3>1, <3>3, <3>4, <4>2 DEF SameOwner, DraftsDistinct
      <4> QED BY <4>1, <4>2
    <3> QED BY <3>4 DEF DraftsDistinct
  <2> QED BY <1>3, <2>1, <2>2 DEF CreateDraft
<1>4. ASSUME NEW r \in Requests, CommitReport(r) PROVE DraftsDistinct'
  <2>1. PICK s \in Sessions : s = req[r].session /\ session[s] \in SessionRow
    BY <1>4, Editing DEF CommitReport, FileUnder, At
  <2>2. /\ session'[s].status = "SUBMITTED"
        /\ \A t \in Sessions \ {s} : session'[t] = session[t]
    BY <1>4, <2>1 DEF CommitReport, Close, TypeOK, SessionsTyped, SessionRow
  <2>3. ~Draft(s)'
    BY <2>2 DEF Draft
  <2> QED BY <2>2, <2>3, DraftsKept DEF Draft, Open
<1> QED BY <1>1, <1>2, <1>3, <1>4, OtherSteps

\* A respondent has at most one open draft about a record, however many opens
\* of the app race: the look-up before the insert decides nothing, the index
\* on open drafts does.
THEOREM OneOpenDraftCorrect == Spec => []OneOpenDraft
<1>1. Init => TypeOK /\ DraftsDistinct
  BY TypeInit, StartAssumption
  DEF Init, DraftsDistinct, SameOwner, Draft, Open
<1>2. TypeOK /\ DraftsDistinct /\ [Next]_vars => (TypeOK /\ DraftsDistinct)'
  BY TypeStep, DraftsStep
<1>3. DraftsDistinct => OneOpenDraft
  <2> SUFFICES ASSUME DraftsDistinct, NEW p \in Respondents,
                      NEW x \in Records \cup {None}
               PROVE  Cardinality(DraftsOf(p, x)) <= 1
    BY DEF OneOpenDraft
  <2>1. \A s, t \in DraftsOf(p, x) : s = t
    BY DEF DraftsOf, DraftsDistinct, SameOwner
  <2>2. CASE DraftsOf(p, x) = {}
    BY <2>2, FS_EmptySet
  <2>3. ASSUME NEW s \in DraftsOf(p, x)
        PROVE  Cardinality(DraftsOf(p, x)) <= 1
    <3>1. DraftsOf(p, x) = {s}
      BY <2>1
    <3>2. Cardinality({s}) = 1
      BY FS_Singleton
    <3> QED BY <3>1, <3>2
  <2> QED BY <2>2, <2>3
<1> QED BY <1>1, <1>2, <1>3, PTL DEF Spec

-----------------------------------------------------------------------------
(* Occurrences are recorded once.                                          *)

\* A row about a record carries the key of its answer, ...
KeysTold ==
    \A f \in filed : f.record # None =>
        f.key = OccurrenceKey(f.step, f.period, f.answer)

\* ... and two live rows of a record and a step never carry the same one.
KeysDistinct ==
    \A f, g \in filed :
        /\ f # g /\ f.live /\ g.live /\ f.record = g.record /\ f.record # None
        /\ f.step = g.step /\ f.key # None
        => f.key # g.key

Occurrences == KeysTold /\ KeysDistinct

\* A step after which every row comes from one of before, and live rows from
\* different live ones, disturbs no occurrence.
LEMMA OccurrencesKept ==
    ASSUME Occurrences, NEW from \in [filed' -> filed],
           \A g \in filed' :
              /\ g.record = from[g].record /\ g.step = from[g].step
              /\ g.period = from[g].period /\ g.answer = from[g].answer
              /\ g.key = from[g].key /\ (g.live => from[g].live),
           \A f, g \in filed' : f.live /\ g.live /\ from[f] = from[g] => f = g
    PROVE  Occurrences'
<1>1. KeysTold'
  BY DEF Occurrences, KeysTold
<1>2. ASSUME NEW f \in filed', NEW g \in filed',
             f # g, f.live, g.live, f.record = g.record, f.record # None,
             f.step = g.step, f.key # None
      PROVE  f.key # g.key
  <2>1. from[f] # from[g] /\ from[f] \in filed /\ from[g] \in filed
    BY <1>2
  <2> QED BY <1>2, <2>1 DEF Occurrences, KeysDistinct
<1> QED BY <1>1, <1>2 DEF Occurrences, KeysDistinct

\* The mark of the side effects is no part of an occurrence.
LEMMA OccurrencesPost ==
    ASSUME TypeOK, Occurrences, NEW rows \in SUBSET filed,
           NEW p \in {"none", "queued", "lost"}, SetPost(rows, p)
    PROVE  Occurrences'
<1> DEFINE from == [g \in filed' |-> IF g \in filed \ rows THEN g
                        ELSE CHOOSE f \in rows : g = [f EXCEPT !.post = p]]
<1>1. filed' = (filed \ rows) \cup {[f EXCEPT !.post = p] : f \in rows}
  BY DEF SetPost
<1>2. ASSUME NEW g \in filed', g \notin filed \ rows
      PROVE  from[g] \in rows /\ g = [from[g] EXCEPT !.post = p]
  BY <1>1, <1>2
<1>3. ASSUME NEW g \in filed', g \in filed \ rows PROVE from[g] = g
  BY <1>3
<1>4. from \in [filed' -> filed]
  BY <1>2, <1>3
<1> HIDE DEF from
<1>5. ASSUME NEW g \in filed'
      PROVE  /\ g.record = from[g].record /\ g.step = from[g].step
             /\ g.period = from[g].period /\ g.answer = from[g].answer
             /\ g.key = from[g].key /\ (g.live => from[g].live)
  <2>1. from[g] \in FiledRow
    BY <1>4 DEF TypeOK, RowsTyped
  <2>2. CASE g \in filed \ rows
    BY <1>3, <2>2
  <2>3. CASE g \notin filed \ rows
    BY <1>2, <2>1, <2>3 DEF FiledRow
  <2> QED BY <2>2, <2>3
<1>6. \A f, g \in filed' : from[f] = from[g] => f = g
  BY <1>2, <1>3
<1> QED BY <1>4, <1>5, <1>6, OccurrencesKept

\* A deleted row is not live any more, the others stay.
LEMMA OccurrencesDelete ==
    ASSUME TypeOK, Occurrences, NEW d \in filed, DeleteSubmission(d)
    PROVE  Occurrences'
<1> DEFINE from == [g \in filed' |-> IF g \in filed \ {d} THEN g ELSE d]
<1>1. filed' = (filed \ {d}) \cup {[d EXCEPT !.live = FALSE]}
  BY DEF DeleteSubmission
<1>2. from \in [filed' -> filed]
  OBVIOUS
<1>3. ASSUME NEW g \in filed', g \in filed \ {d} PROVE from[g] = g
  BY <1>3
<1>4. ASSUME NEW g \in filed', g \notin filed \ {d}
      PROVE  from[g] = d /\ g = [d EXCEPT !.live = FALSE]
  BY <1>1, <1>4
<1> HIDE DEF from
<1>5. d \in FiledRow
  BY DEF TypeOK, RowsTyped
<1>6. ASSUME NEW g \in filed'
      PROVE  /\ g.record = from[g].record /\ g.step = from[g].step
             /\ g.period = from[g].period /\ g.answer = from[g].answer
             /\ g.key = from[g].key /\ (g.live => from[g].live)
  <2>1. CASE g \in filed \ {d}
    BY <1>3, <2>1
  <2>2. CASE g \notin filed \ {d}
    BY <1>4, <1>5, <2>2 DEF FiledRow
  <2> QED BY <2>1, <2>2
<1>7. ASSUME NEW f \in filed', NEW g \in filed', from[f] = from[g]
      PROVE  f = g
  <2>1. CASE f \in filed \ {d} /\ g \in filed \ {d}
    BY <1>3, <1>7, <2>1
  <2>2. CASE f \notin filed \ {d} /\ g \notin filed \ {d}
    <3> DEFINE dead == [d EXCEPT !.live = FALSE]
    <3>1. f = dead
      BY <1>4, <2>2
    <3>2. g = dead
      BY <1>4, <2>2
    <3> HIDE DEF dead
    <3> QED BY <3>1, <3>2
  <2>3. CASE f \in filed \ {d} /\ g \notin filed \ {d}
    BY <1>3, <1>4, <1>7, <2>3
  <2>4. CASE f \notin filed \ {d} /\ g \in filed \ {d}
    BY <1>3, <1>4, <1>7, <2>4
  <2> QED BY <2>1, <2>2, <2>3, <2>4
<1> QED BY <1>2, <1>6, <1>7, OccurrencesKept

\* The index admits a report only when no occurrence of it is on file, and
\* none is in it twice.
LEMMA OccurrencesCommit ==
    ASSUME TypeOK, Occurrences, NEW r \in Requests, CommitReport(r)
    PROVE  Occurrences'
<1> DEFINE x == RecordFor(r)
           rows == RowsOf(r, x)
<1>1. x \in Records \cup {None}
  BY RecordType DEF CommitReport, FileUnder, At
<1>2. filed' = filed \cup rows /\ IndexAdmits(rows, x)
  BY DEF CommitReport, FileUnder
<1>3. \A f \in rows : f.record = x
  BY <1>1, RowsType DEF CommitReport, FileUnder, At
<1>4. \A f \in rows : x # None =>
          f.key = OccurrenceKey(f.step, f.period, f.answer)
  BY DEF RowsOf, KeyOf
<1> HIDE DEF x, rows
<1>5. KeysTold'
  BY <1>2, <1>3, <1>4 DEF Occurrences, KeysTold
<1>6. ASSUME NEW f \in filed', NEW g \in filed',
             f # g, f.live, g.live, f.record = g.record, f.record # None,
             f.step = g.step, f.key # None
      PROVE  f.key # g.key
  <2>1. CASE f \in filed /\ g \in filed
    BY <1>6, <2>1 DEF Occurrences, KeysDistinct
  <2>2. CASE f \in rows /\ g \in filed \cup rows
    BY <1>3, <1>2, <1>6, <2>2 DEF IndexAdmits, HasOccurrence
  <2>3. CASE f \in filed /\ g \in rows
    BY <1>3, <1>2, <1>6, <2>3 DEF IndexAdmits, HasOccurrence
  <2> QED BY <1>2, <2>1, <2>2, <2>3
<1> QED BY <1>5, <1>6 DEF Occurrences, KeysDistinct

\* Only the commit, the side effects and a deletion write filed rows.
LEMMA OccurrencesStep ==
    ASSUME TypeOK, Occurrences, [Next]_vars
    PROVE  Occurrences'
<1>1. CASE UNCHANGED filed
  BY <1>1 DEF Occurrences, KeysTold, KeysDistinct
<1>2. ASSUME NEW r \in Requests, OpenSession(r) PROVE UNCHANGED filed
  BY <1>2 DEF OpenSession, FindDraft, ResumeDraft, CreateDraft, tables
<1>3. ASSUME NEW r \in Requests, EditSession(r) PROVE UNCHANGED filed
  BY <1>3 DEF EditSession, SaveEntry, DeleteEntry, ResetSession, Call,
              CountStaged, UpsertEntry, RemoveEntry, RemoveAll, tables
<1>4. ASSUME NEW r \in Requests, Submit(r)
      PROVE  Occurrences'
  <2>1. CASE CommitReport(r)
    BY <2>1, OccurrencesCommit
  <2>2. CASE EnqueueRow(r)
    <3>1. PICK f \in ToEnqueue(r) : SetPost({f}, "queued") \/ SetPost({f}, "lost")
      BY <2>2 DEF EnqueueRow
    <3>2. {f} \in SUBSET filed
      BY DEF ToEnqueue
    <3> QED BY <3>1, <3>2, OccurrencesPost
  <2>3. CASE CrashAfterCommit(r)
    <3>1. ToEnqueue(r) \in SUBSET filed
      BY DEF ToEnqueue
    <3> QED BY <2>3, <3>1, OccurrencesPost DEF CrashAfterCommit
  <2>4. ASSUME ~CommitReport(r), ~EnqueueRow(r), ~CrashAfterCommit(r)
        PROVE  UNCHANGED filed
    BY <1>4, <2>4 DEF Submit, SubmitSession, Call, ReadEntries, JudgeReport,
                      Judge, CheckQuota, RollBack, Respond, tables
  <2> QED BY <1>1, <2>1, <2>2, <2>3, <2>4
<1> QED
  BY <1>1, <1>2, <1>3, <1>4, OccurrencesDelete DEF Next, vars

\* An answer that identifies an occurrence has a key, and equal ones within
\* the step's scope have the same key.
LEMMA KeyTells ==
    ASSUME NEW k \in Steps, NEW p \in Periods, NEW q \in Periods,
           NEW a \in Answers \cup Records, NEW b \in Answers \cup Records,
           Scope[k] # "SESSION", Scope[k] = "SUBJECT_PERIOD" => p = q,
           \/ k \in Keyed /\ a # Blank /\ a = b
           \/ k \notin Keyed /\ MaxOf[k] = 1
    PROVE  /\ OccurrenceKey(k, p, a) # None
           /\ OccurrenceKey(k, p, a) = OccurrenceKey(k, q, b)
<1> DEFINE within == IF Scope[k] = "SUBJECT_PERIOD" THEN p ELSE None
<1>1. within \in Periods \cup {None}
      /\ within = IF Scope[k] = "SUBJECT_PERIOD" THEN q ELSE None
  OBVIOUS
<1>2. /\ <<within, a>> \in Keys /\ <<within, a>> # None
      /\ <<within, "singleton">> \in Keys /\ <<within, "singleton">> # None
  BY <1>1, SessionAssumption DEF Keys
<1>3. CASE k \in Keyed /\ a # Blank /\ a = b
  BY <1>1, <1>2, <1>3 DEF OccurrenceKey
<1>4. CASE k \notin Keyed /\ MaxOf[k] = 1
  BY <1>1, <1>2, <1>4 DEF OccurrenceKey
<1> QED BY <1>3, <1>4

\* Two live rows of a record never record the same occurrence, whatever
\* submits overlap: what was read of the record's history decides nothing, the
\* partial unique index on the occurrence's key does.
THEOREM OccurrenceUniqueCorrect == Spec => []OccurrenceUnique
<1>1. Init => TypeOK /\ Occurrences
  BY TypeInit DEF Init, Occurrences, KeysTold, KeysDistinct
<1>2. TypeOK /\ Occurrences /\ [Next]_vars => (TypeOK /\ Occurrences)'
  BY TypeStep, OccurrencesStep
<1>3. TypeOK /\ Occurrences => OccurrenceUnique
  <2> SUFFICES ASSUME TypeOK, Occurrences, NEW f \in Live, NEW g \in Live,
                      f # g, f.record = g.record, f.record # None,
                      f.step = g.step, Scope[f.step] # "SESSION",
                      Scope[f.step] = "SUBJECT_PERIOD" => f.period = g.period
               PROVE  IF f.step \in Keyed
                      THEN f.answer = Blank \/ f.answer # g.answer
                      ELSE MaxOf[f.step] > 1
    BY DEF OccurrenceUnique
  <2>1. f \in filed /\ g \in filed /\ f.live /\ g.live
    BY DEF Live
  <2>2. /\ f.step \in Steps /\ f.period \in Periods /\ g.period \in Periods
        /\ f.answer \in Answers \cup Records /\ g.answer \in Answers \cup Records
    BY <2>1 DEF TypeOK, RowsTyped, FiledRow
  <2>3. /\ f.key = OccurrenceKey(f.step, f.period, f.answer)
        /\ g.key = OccurrenceKey(f.step, g.period, g.answer)
    BY <2>1 DEF Occurrences, KeysTold
  <2>4. ~(f.key # None /\ f.key = g.key)
    BY <2>1 DEF Occurrences, KeysDistinct
  <2>5. ~ \/ f.step \in Keyed /\ f.answer # Blank /\ f.answer = g.answer
          \/ f.step \notin Keyed /\ MaxOf[f.step] = 1
    BY <2>2, <2>3, <2>4, KeyTells
  <2>6. MaxOf[f.step] \in Nat \ {0}
    BY <2>2, SessionAssumption
  <2> QED BY <2>5, <2>6
<1> QED BY <1>1, <1>2, <1>3, PTL DEF Spec
=============================================================================
