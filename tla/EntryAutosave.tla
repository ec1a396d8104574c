---------------------------- MODULE EntryAutosave ----------------------------
(***************************************************************************)
(* The respondent's side of a sitting: the hook useAppSession and the       *)
(* cards of AppRunner that use it, against the four endpoints they call.    *)
(* One repeatable step is modelled, because the hook keeps every step's     *)
(* entries apart by key.                                                    *)
(*                                                                          *)
(* Answers are the SET of edits an entry holds: typing adds one edit to     *)
(* what the card's form runner shows.  The endpoints are reduced to what    *)
(* they do to the staged entries (module FormAppSessions has them in full). *)
(* Requests travel independently: they may arrive in any order, or never.   *)
(***************************************************************************)
EXTENDS Naturals, FiniteSets, FiniteSetsExt, Functions

CONSTANTS
    MaxEntries,  \* the step's maxEntries
    Resumed,     \* how many entries the resumed sitting already holds
    Mandatory,   \* minEntries > 0: an empty step still shows one card
    MaxEdits,    \* bound: edits made, the resumed ones included
    MaxRemovals, \* bound: presses of Remove and Reset
    MaxMishaps,  \* bound: lost requests, lost replies and reloads
    Events       \* which of them happen

EventKinds == {"lost_save", "lost_delete", "lost_reply", "reload"}

ASSUME AutosaveAssumption ==
    /\ {MaxEntries, Resumed, MaxEdits, MaxRemovals, MaxMishaps} \subseteq Nat
    /\ Resumed =< MaxEntries /\ Resumed =< MaxEdits
    /\ Mandatory \in BOOLEAN
    /\ Events \subseteq EventKinds

VARIABLES
    server,     \* FormAppSessionEntry rows of the step: index -> answers
    filed,      \* the reports submitSession filed: none, or one
    staged,     \* staged.current / drafts: index -> answers
    runner,     \* the cards on screen: index -> answers its FormRunner holds
    known,      \* indexes in session.steps[..].entries, as last fetched
    timers,     \* debounce timers that tick
    wire,       \* requests and replies under way
    due,        \* calls of refresh() that have not returned
    phase,      \* of submit(): editing, flushing, posting, done
    left,       \* timers submit() has still to flush
    pressed,    \* drafts as submit() closed over them
    edits, removals, mishaps,    \* counters of the bounds
    suspect,    \* history: indexes whose last save may not have counted
    overlapped, \* history: something else was pending around a removal
    removed,    \* history: edits of entries that were removed
    inherited   \* history: a card was edited that did not show its own draft

client  == <<staged, runner, known, timers, due>>
submit  == <<phase, left, pressed>>
history == <<suspect, overlapped, removed, inherited>>
bounds  == <<edits, removals, mishaps>>
vars == <<server, filed, client, wire, submit, bounds, history>>

Index    == 0 .. MaxEntries
Answers  == SUBSET (1 .. MaxEdits)
Blank    == {}
SaveKinds == {"save", "flush", "add"}
Requests  == [kind : SaveKinds \cup {"delete", "deleted", "reset", "emptied"},
              index : Index, answers : Answers, no : 0 .. MaxRemovals]
Timers    == [index : Index, answers : Answers, at : 1 .. MaxEdits, tracked : BOOLEAN]
Entries   == UNION {[D -> Answers] : D \in SUBSET Index}
Nothing   == <<>>   \* the empty function: no entry

TypeOK ==
    /\ server \in Entries /\ staged \in Entries
    /\ runner \in Entries /\ pressed \in Entries
    /\ filed \subseteq [holds : Entries, typed : Entries, excused : SUBSET Index] /\ Cardinality(filed) =< 1
    /\ known \subseteq Index
    /\ timers \subseteq Timers
    /\ \A t, u \in timers :
          (t.tracked /\ u.tracked /\ t.index = u.index) \/ t.at = u.at => t = u
    /\ wire \subseteq Requests
    /\ due \in Nat
    /\ phase \in {"editing", "flushing", "posting", "done"}
    /\ suspect \subseteq Index
    /\ removed \in Answers

(***************************************************************************)
(* What the two sides compute                                               *)
(***************************************************************************)
At(entries, i) == IF i \in DOMAIN entries THEN entries[i] ELSE Blank

\* The entries with answers at i set.
Put(entries, i, answers) ==
    [j \in DOMAIN entries \cup {i} |-> IF j = i THEN answers ELSE entries[j]]

\* Indexes close up after entry i is taken away: j is what Before(i, j) was.
Before(i, j) == IF j < i THEN j ELSE j + 1
ClosedUp(I, i) == {j \in Index : Before(i, j) \in I}
WithoutEntry(entries, i) ==
    [j \in ClosedUp(DOMAIN entries, i) |-> entries[Before(i, j)]]

\* indexes, in AppRunner: the cards shown.
Shown(have, drafts) ==
    LET all == have \cup DOMAIN drafts
    IN  IF all = {} /\ Mandatory THEN {0} ELSE all

\* A card that stays on screen keeps its FormRunner and what that one holds;
\* a card that appears starts from its draft.
Rendered(have, drafts) ==
    [i \in Shown(have, drafts) |-> IF i \in DOMAIN runner THEN runner[i] ELSE At(drafts, i)]

InFlight(i) == \E m \in wire : m.kind \in SaveKinds /\ m.index = i
Message(kind, i, answers) == [kind |-> kind, index |-> i, answers |-> answers, no |-> removals]
Save(kind, i, answers)    == [kind |-> kind, index |-> i, answers |-> answers, no |-> 0]

\* Bookkeeping of a save that is sent: it does not count when its answers are
\* old, it can be overtaken when another one of its entry is still under way, and
\* it repairs the entry otherwise.
Sent(i, answers) ==
    suspect' = IF InFlight(i) \/ answers # At(staged, i)
               THEN suspect \cup {i} ELSE suspect \ {i}

\* A removal is under way until the drafts have been rebuilt.
Renumbering == \E m \in wire : m.kind \in {"delete", "deleted", "reset", "emptied"}

Untracked(ts, i) ==
    {IF t.index = i THEN [t EXCEPT !.tracked = FALSE] ELSE t : t \in ts}

(***************************************************************************)
(* Opening or resuming a sitting: the drafts are seeded from the server     *)
(***************************************************************************)
Init ==
    /\ server = [i \in 0 .. Resumed - 1 |-> {i + 1}]
    /\ staged = server /\ known = DOMAIN server
    /\ runner = [i \in Shown(known, staged) |-> At(staged, i)]
    /\ filed = {}
    /\ timers = {} /\ wire = {} /\ due = 0
    /\ phase = "editing" /\ left = {} /\ pressed = Nothing
    /\ edits = Resumed /\ removals = 0 /\ mishaps = 0
    /\ suspect = {} /\ overlapped = FALSE /\ removed = {} /\ inherited = FALSE

(***************************************************************************)
(* setEntryAnswers and the debounce timer                                   *)
(***************************************************************************)
Type(i) ==
    /\ phase # "done" /\ edits < MaxEdits
    /\ i \in DOMAIN runner
    /\ LET answers == runner[i] \cup {edits + 1} IN
          /\ runner' = [runner EXCEPT ![i] = answers]
          /\ staged' = Put(staged, i, answers)
          /\ timers' = {t \in timers : ~(t.tracked /\ t.index = i)}
                         \cup {[index |-> i, answers |-> answers, at |-> edits + 1, tracked |-> TRUE]}
    /\ edits' = edits + 1
    /\ overlapped' = (overlapped \/ Renumbering)
    /\ inherited' = (inherited \/ runner[i] # At(staged, i))
    /\ UNCHANGED <<server, filed, known, due, wire, submit, removals, mishaps,
                   suspect, removed>>

\* Every timer has the same delay: they fire in the order they were set.  The
\* callback forgets whatever timer its key now has.
TimerFires(t) ==
    /\ \A u \in timers : t.at =< u.at
    /\ timers' = Untracked(timers \ {t}, t.index)
    /\ wire' = wire \cup {Save("save", t.index, t.answers)}
    /\ Sent(t.index, t.answers)
    /\ overlapped' = (overlapped \/ Renumbering)
    /\ UNCHANGED <<server, filed, staged, runner, known, due, submit, bounds, removed, inherited>>

\* Folding a card away and back mounts a fresh FormRunner from the draft.
Refold(i) ==
    /\ phase # "done"
    /\ i \in DOMAIN runner
    /\ runner' = [runner EXCEPT ![i] = At(staged, i)]
    /\ UNCHANGED <<server, filed, staged, known, timers, due, wire, submit, bounds, history>>

(***************************************************************************)
(* addEntry                                                                 *)
(***************************************************************************)
NextIndex == Max({Cardinality(known)} \cup {i + 1 : i \in DOMAIN staged})

Add ==
    /\ phase # "done"
    /\ due = 0 /\ \A m \in wire : m.kind # "add"  \* bound: one Add at a time
    /\ Cardinality(Shown(known, staged)) < MaxEntries
    /\ wire' = wire \cup {Save("add", NextIndex, Blank)}
    /\ Sent(NextIndex, Blank)
    /\ overlapped' = (overlapped \/ Renumbering)
    /\ UNCHANGED <<server, filed, client, submit, bounds, removed, inherited>>

(***************************************************************************)
(* removeEntry and reset                                                    *)
(***************************************************************************)
\* Mutant of Remove: the removed entry's timer goes on ticking.
RemoveKeepingTimer(i) ==
    /\ phase # "done" /\ removals < MaxRemovals
    /\ i \in DOMAIN runner
    /\ removals' = removals + 1
    /\ timers' = timers
    /\ wire' = wire \cup {Message("delete", i, At(staged, i))}
    /\ overlapped' = (overlapped \/ wire # {} \/ phase # "editing"
                                 \/ \E t \in timers : t.index > i \/ ~t.tracked)
    /\ UNCHANGED <<server, filed, staged, runner, known, due, submit, edits, mishaps,
                   suspect, removed, inherited>>

Remove(i) ==
    /\ phase # "done" /\ removals < MaxRemovals
    /\ i \in DOMAIN runner
    /\ removals' = removals + 1
    /\ timers' = {t \in timers : ~(t.tracked /\ t.index = i)}
    /\ wire' = wire \cup {Message("delete", i, At(staged, i))}
    /\ overlapped' = (overlapped \/ wire # {} \/ phase # "editing"
                                 \/ \E t \in timers : t.index > i \/ ~t.tracked)
    /\ UNCHANGED <<server, filed, staged, runner, known, due, submit, edits, mishaps,
                   suspect, removed, inherited>>

Reset ==
    /\ phase = "editing" /\ removals < MaxRemovals
    /\ removals' = removals + 1
    /\ wire' = wire \cup {Message("reset", 0, UNION Range(staged))}
    /\ overlapped' = (overlapped \/ wire # {} \/ timers # {})
    /\ UNCHANGED <<server, filed, client, submit, edits, mishaps, suspect, removed, inherited>>

\* Mutant of ClosesUp: the drafts are patched, not rebuilt.
DropsEntry(m) ==
    /\ m.kind = "deleted"
    /\ staged' = [j \in DOMAIN staged \ {m.index} |-> staged[j]]
    /\ suspect' = ClosedUp(suspect, m.index)

\* The reply has come: the drafts are rebuilt, or emptied, and refresh() is called.
ClosesUp(m) ==
    /\ m.kind = "deleted"
    /\ staged' = WithoutEntry(staged, m.index)
    /\ suspect' = ClosedUp(suspect, m.index)

EmptiesDrafts(m) ==
    /\ m.kind = "emptied"
    /\ staged' = Nothing
    /\ suspect' = {}

RemovalReturns(m) ==
    /\ ClosesUp(m) \/ EmptiesDrafts(m)
    /\ wire' = wire \ {m}
    /\ due' = due + 1
    /\ runner' = Rendered(known, staged')
    /\ removed' = removed \cup m.answers
    /\ UNCHANGED <<server, filed, known, timers, submit, bounds, overlapped, inherited>>

(***************************************************************************)
(* refresh(): the list of entries is fetched again, the drafts are not      *)
(***************************************************************************)
Refresh ==
    /\ due > 0
    /\ due' = due - 1
    /\ known' = DOMAIN server
    /\ runner' = Rendered(known', staged)
    /\ UNCHANGED <<server, filed, staged, timers, wire, submit, bounds, history>>

(***************************************************************************)
(* submit()                                                                 *)
(***************************************************************************)
\* Mutant of PressSubmit: the pending timers are left to fire.
PressWithoutFlush ==
    /\ phase = "editing"
    /\ phase' = "flushing"
    /\ left' = {}
    /\ pressed' = staged
    /\ overlapped' = (overlapped \/ Renumbering)
    /\ UNCHANGED <<server, filed, client, wire, bounds, suspect, removed, inherited>>

PressSubmit ==
    /\ phase = "editing"
    /\ phase' = "flushing"
    /\ left' = {[index |-> t.index, at |-> t.at] : t \in {u \in timers : u.tracked}}
    /\ pressed' = staged
    /\ overlapped' = (overlapped \/ Renumbering)
    /\ UNCHANGED <<server, filed, client, wire, bounds, suspect, removed, inherited>>

Flushing == \E m \in wire : m.kind = "flush"

\* One pending timer is cleared and its entry saved from the drafts submit()
\* closed over; the loop awaits each save.
FlushNext(p) ==
    /\ phase = "flushing" /\ ~Flushing
    /\ p \in left
    /\ left' = left \ {p}
    /\ timers' = Untracked({t \in timers : t.at # p.at}, p.index)
    /\ wire' = wire \cup {Save("flush", p.index, At(pressed, p.index))}
    /\ Sent(p.index, At(pressed, p.index))
    /\ UNCHANGED <<server, filed, staged, runner, known, due, phase, pressed,
                   bounds, overlapped, removed, inherited>>

PostSubmit ==
    /\ phase = "flushing" /\ ~Flushing
    /\ left = {}
    /\ phase' = "posting"
    /\ UNCHANGED <<server, filed, client, wire, left, pressed, bounds, history>>

\* submitSession files what is staged on the server; typed and excused are
\* history: what was typed when Submit was pressed, and the entries of which
\* nothing is claimed.
NotAwaited == {m.index : m \in {n \in wire : n.kind \in {"save", "add"}}}
                \cup {t.index : t \in {u \in timers : ~u.tracked}}
Report == [holds |-> server, typed |-> pressed,
           excused |-> IF overlapped \/ inherited THEN Index ELSE suspect \cup NotAwaited]

SubmitCommits ==
    /\ phase = "posting" /\ filed = {}
    /\ filed' = {Report}
    /\ phase' = "done"
    /\ UNCHANGED <<server, client, wire, left, pressed, bounds, history>>

\* The report is rejected, or the session is already closed.
SubmitRejected ==
    /\ phase = "posting"
    /\ phase' = "editing"
    /\ pressed' = Nothing
    /\ UNCHANGED <<server, filed, client, wire, left, bounds, history>>

(***************************************************************************)
(* The endpoints                                                            *)
(***************************************************************************)
\* What a returned save wakes: addEntry goes on to refresh().
Returns(m) ==
    /\ wire' = wire \ {m}
    /\ due' = IF m.kind = "add" THEN due + 1 ELSE due

SaveArrives(m) ==
    /\ m.kind \in SaveKinds
    /\ filed = {} /\ m.index < MaxEntries
    /\ server' = Put(server, m.index, m.answers)
    /\ Returns(m)
    /\ UNCHANGED <<filed, staged, runner, known, timers, submit, bounds, history>>

\* Refused by the endpoint; the hook ignores the refusal.
SaveRefused(m) ==
    /\ m.kind \in SaveKinds
    /\ filed # {} \/ m.index >= MaxEntries
    /\ Returns(m)
    /\ suspect' = suspect \cup {m.index}
    /\ UNCHANGED <<server, filed, staged, runner, known, timers, submit, bounds,
                   overlapped, removed, inherited>>

DeleteArrives(m) ==
    /\ m.kind = "delete" /\ filed = {}
    /\ server' = WithoutEntry(server, m.index)
    /\ wire' = (wire \ {m}) \cup {[m EXCEPT !.kind = "deleted"]}
    /\ UNCHANGED <<filed, client, submit, bounds, history>>

ResetArrives(m) ==
    /\ m.kind = "reset" /\ filed = {}
    /\ server' = Nothing
    /\ wire' = (wire \ {m}) \cup {[m EXCEPT !.kind = "emptied"]}
    /\ UNCHANGED <<filed, client, submit, bounds, history>>

RemovalRefused(m) ==
    /\ m.kind \in {"delete", "reset"} /\ filed # {}
    /\ wire' = wire \ {m}
    /\ UNCHANGED <<server, filed, client, submit, bounds, history>>

(***************************************************************************)
(* What goes wrong                                                          *)
(***************************************************************************)
Mishap(event) ==
    /\ event \in Events /\ mishaps < MaxMishaps
    /\ mishaps' = mishaps + 1

\* flush() swallows the error.
SaveLost(m) ==
    /\ m.kind \in SaveKinds
    /\ Mishap("lost_save")
    /\ Returns(m)
    /\ suspect' = suspect \cup {m.index}
    /\ UNCHANGED <<server, filed, staged, runner, known, timers, submit, edits, removals,
                   overlapped, removed, inherited>>

\* The call throws: nothing after it in the handler runs.  The timer that
\* removeEntry cleared is not set again.
RemovalLost(m) ==
    /\ m.kind \in {"delete", "reset", "deleted", "emptied"}
    /\ Mishap("lost_delete")
    /\ wire' = wire \ {m}
    /\ suspect' = IF m.kind = "delete" THEN suspect \cup {m.index} ELSE suspect
    /\ overlapped' = (overlapped \/ m.kind \in {"deleted", "emptied"})
    /\ UNCHANGED <<server, filed, client, submit, edits, removals, removed, inherited>>

RefreshFails ==
    /\ due > 0
    /\ Mishap("lost_reply")
    /\ due' = due - 1
    /\ UNCHANGED <<server, filed, staged, runner, known, timers, wire, submit,
                   edits, removals, history>>

\* The report was filed but the answer to the respondent is lost.
SubmitReplyLost ==
    /\ phase = "posting" /\ filed = {}
    /\ Mishap("lost_reply")
    /\ filed' = {Report}
    /\ phase' = "editing"
    /\ UNCHANGED <<server, client, wire, left, pressed, edits, removals, history>>

\* The tab is closed and the sitting resumed: timers die with the page, sent
\* requests do not.
Reload ==
    /\ phase = "editing" /\ filed = {}
    /\ Mishap("reload")
    /\ staged' = server /\ known' = DOMAIN server
    /\ runner' = [i \in Shown(known', staged') |-> At(staged', i)]
    /\ timers' = {} /\ due' = 0
    /\ wire' = {IF m.kind \in SaveKinds THEN [m EXCEPT !.kind = "save"] ELSE m :
                    m \in {n \in wire : n.kind \notin {"deleted", "emptied"}}}
    /\ suspect' = {i \in Index : InFlight(i)}
    /\ overlapped' = (overlapped \/ Renumbering)
    /\ UNCHANGED <<server, filed, submit, edits, removals, removed, inherited>>

(***************************************************************************)
(* The specification                                                        *)
(***************************************************************************)
Respondent ==
    \/ \E i \in Index : Type(i) \/ Refold(i) \/ Remove(i)
    \/ Add \/ Reset \/ PressSubmit

Browser ==
    \/ \E t \in timers : TimerFires(t)
    \/ \E p \in left : FlushNext(p)
    \/ \E m \in wire : RemovalReturns(m)
    \/ Refresh \/ PostSubmit

Endpoints ==
    \/ \E m \in wire : \/ SaveArrives(m) \/ SaveRefused(m) \/ DeleteArrives(m)
                       \/ ResetArrives(m) \/ RemovalRefused(m)
    \/ SubmitCommits \/ SubmitRejected

Trouble ==
    \/ \E m \in wire : SaveLost(m) \/ RemovalLost(m)
    \/ RefreshFails \/ SubmitReplyLost \/ Reload

Next == Respondent \/ Browser \/ Endpoints \/ Trouble

Spec == Init /\ [][Next]_vars

(***************************************************************************)
(* Properties                                                               *)
(***************************************************************************)
Quiet == timers = {} /\ wire = {}

\* When nothing is pending or under way, the server has staged exactly what
\* the drafts hold, and otherwise only entries nothing was typed into, except
\* an entry whose last save was lost, refused, overtaken, or carried older
\* answers (a submit's, while the respondent typed on, or a timer's that its
\* entry had forgotten), and after a removal that overlapped with pending
\* work ("Indexes close up server-side, so the local drafts have to be
\* rebuilt rather than patched", use-app-session.ts:361-362).
ServerHasDrafts ==
    (Quiet /\ filed = {} /\ ~overlapped) =>
        \A i \in Index \ suspect : At(server, i) = At(staged, i)

\* What submit files contains everything typed before Submit was pressed
\* ("Every pending autosave is flushed FIRST", use-app-session.ts:394), except
\* an entry with a save under way, which submit does not await, or whose last
\* save was lost, overtaken or carried older answers, and after a removal that
\* overlapped with pending work or an edit in a card that did not show its own
\* draft.
FiledHoldsWhatWasTyped ==
    \A report \in filed :
        \A i \in DOMAIN report.typed \ report.excused :
            report.typed[i] \subseteq At(report.holds, i)

\* Answers of a removed entry do not come back to the server, neither by the
\* timer that was pending for it nor by a save that was late, unless the
\* removal overlapped with pending work or the respondent edited a card that
\* did not show its own draft (a card that takes over an index is not mounted
\* anew, so its runner keeps the answers of the entry that was there).
RemovedStaysRemoved ==
    (~overlapped /\ ~inherited) => removed \cap UNION Range(server) = {}

\* The drafts are "the source of truth while typing" (use-app-session.ts:172)
\* and after a removal "entry 3 becomes entry 2" (362): while nothing is lost
\* or overlaps, every edit but those of removed entries is in some draft.  The
\* code does not keep this: the card that takes over the index of a removed
\* entry still holds the removed answers, and the next edit in it replaces the
\* draft of the entry that moved there.
DraftsKeepEveryEdit ==
    (mishaps = 0 /\ ~overlapped) =>
        (1 .. edits) \ removed \subseteq UNION Range(staged)
=============================================================================
