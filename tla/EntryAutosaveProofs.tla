------------------------- MODULE EntryAutosaveProofs -------------------------
(***************************************************************************)
(* Theorems about EntryAutosave, for any number of entries, edits, removals *)
(* and mishaps, and any set of events.                                     *)
(***************************************************************************)
EXTENDS EntryAutosave, FiniteSetTheorems, WellFoundedInduction, TLAPS

-----------------------------------------------------------------------------
(* Entries, cards and indexes.                                             *)

\* The indexes the server takes, and those that have a card.
Below == {i \in Index : i < MaxEntries}
Cards == Below \cup (IF Mandatory THEN {0} ELSE {})
RemovalKinds == {"delete", "deleted", "reset", "emptied"}

LEMMA EntriesAre ==
    ASSUME NEW f \in Entries
    PROVE  DOMAIN f \subseteq Index /\ f \in [DOMAIN f -> Answers]
BY DEF Entries

LEMMA AreEntries ==
    ASSUME NEW D \in SUBSET Index, NEW f \in [D -> Answers]
    PROVE  f \in Entries /\ DOMAIN f = D
BY DEF Entries

LEMMA NothingIs ==
    /\ Nothing \in Entries /\ DOMAIN Nothing = {}
    /\ \A i : At(Nothing, i) = {}
<1>1. Nothing \in [{} -> Answers] /\ DOMAIN Nothing = {}
  BY DEF Nothing
<1> QED BY <1>1, AreEntries DEF At, Blank

LEMMA AtIs ==
    ASSUME NEW f \in Entries, NEW i
    PROVE  /\ At(f, i) \in Answers
           /\ i \in DOMAIN f => At(f, i) = f[i]
           /\ i \notin DOMAIN f => At(f, i) = {}
BY EntriesAre DEF At, Blank, Answers

LEMMA PutIs ==
    ASSUME NEW f \in Entries, NEW i \in Index, NEW a \in Answers
    PROVE  /\ Put(f, i, a) \in Entries /\ DOMAIN Put(f, i, a) = DOMAIN f \cup {i}
           /\ At(Put(f, i, a), i) = a
           /\ \A j : j # i => At(Put(f, i, a), j) = At(f, j)
<1>1. Put(f, i, a) \in [DOMAIN f \cup {i} -> Answers] /\ DOMAIN f \cup {i} \in SUBSET Index
  BY EntriesAre DEF Put
<1>2. Put(f, i, a) \in Entries /\ DOMAIN Put(f, i, a) = DOMAIN f \cup {i}
  BY <1>1, AreEntries
<1>3. At(Put(f, i, a), i) = a
  BY <1>2 DEF Put, At
<1>4. ASSUME NEW j, j # i PROVE At(Put(f, i, a), j) = At(f, j)
  BY <1>2, <1>4 DEF Put, At
<1> QED BY <1>2, <1>3, <1>4

\* Taking an entry away keeps every other one, at the index it moves to.
LEMMA WithoutIs ==
    ASSUME AutosaveAssumption, NEW f \in Entries, NEW i \in Index
    PROVE  /\ WithoutEntry(f, i) \in Entries
           /\ DOMAIN WithoutEntry(f, i) = ClosedUp(DOMAIN f, i)
           /\ \A j \in Index : At(WithoutEntry(f, i), j) = At(f, Before(i, j))
<1>1. ClosedUp(DOMAIN f, i) \in SUBSET Index /\ \A j \in ClosedUp(DOMAIN f, i) : Before(i, j) \in DOMAIN f
  BY DEF ClosedUp
<1>2. WithoutEntry(f, i) \in [ClosedUp(DOMAIN f, i) -> Answers]
  BY <1>1, EntriesAre DEF WithoutEntry
<1>3. WithoutEntry(f, i) \in Entries /\ DOMAIN WithoutEntry(f, i) = ClosedUp(DOMAIN f, i)
  BY <1>1, <1>2, AreEntries
<1>4. ASSUME NEW j \in Index PROVE At(WithoutEntry(f, i), j) = At(f, Before(i, j))
  BY <1>3 DEF At, WithoutEntry, ClosedUp
<1> QED BY <1>3, <1>4

\* Where an entry was is not where it is taken away, and no two were the same.
LEMMA BeforeIs ==
    ASSUME AutosaveAssumption, NEW i \in Index, NEW j \in Index
    PROVE  /\ Before(i, j) \in Nat /\ Before(i, j) # i
           /\ j < i => Before(i, j) = j
           /\ \A k \in Index : Before(i, j) = Before(i, k) => j = k
           /\ Before(i, j) \in Index \/ Before(i, j) = MaxEntries + 1
           /\ i < MaxEntries /\ Before(i, j) \in Below => j \in Below
BY DEF Before, Index, Below, AutosaveAssumption

\* A set of numbers up to N has a greatest one.
LEMMA MaxIs ==
    ASSUME NEW N \in Nat, NEW S \in SUBSET (0 .. N), S # {}
    PROVE  Max(S) \in S /\ \A x \in S : x =< Max(S)
<1> DEFINE T == {n \in Nat : \A y \in S : y =< n}
<1>1. T # {} /\ T \subseteq Nat
  <2>1. N \in T
    OBVIOUS
  <2> QED BY <2>1
<1>2. PICK x \in T : \A y \in T : ~(<<y, x>> \in OpToRel(<, Nat))
  BY <1>1, NatLessThanWellFounded, WFMin
<1>3. \A y \in T : ~(y < x)
  BY <1>2 DEF OpToRel
<1>4. x \in S
  <2>1. SUFFICES ASSUME x \notin S PROVE FALSE
    OBVIOUS
  <2>2. PICK z \in S : TRUE
    OBVIOUS
  <2>3. \A y \in S : y =< x /\ y # x /\ y \in Nat
    BY <2>1
  <2>4. x - 1 \in T
    BY <2>2, <2>3
  <2> QED BY <2>4, <1>3
<1> QED BY <1>4 DEF Max

-----------------------------------------------------------------------------
(* Types.                                                                  *)

\* The types of one group of variables each, and what the counters bound: the
\* indexes of cards and rows, the timers submit() has still to flush, and the
\* requests it awaits.
ClientType ==
    /\ staged \in Entries /\ runner \in Entries /\ known \subseteq Below
    /\ DOMAIN staged \subseteq Cards /\ DOMAIN runner \subseteq Cards
    /\ due \in Nat /\ edits \in 0 .. MaxEdits

OneTimer(ts) ==
    \A t, u \in ts : (t.tracked /\ u.tracked /\ t.index = u.index) \/ t.at = u.at => t = u
LeftFits(ps, ts) ==
    /\ ps \subseteq [index : Index, at : 1 .. MaxEdits]
    /\ \A p \in ps : \A t \in ts : t.at = p.at => t.index = p.index
TimerType ==
    /\ timers \subseteq Timers /\ OneTimer(timers)
    /\ LeftFits(left, timers)
    /\ \A p \in left : p.at =< edits
    /\ \A t \in timers : t.at =< edits

WireType ==
    /\ wire \subseteq Requests
    /\ phase \in {"editing", "flushing", "posting", "done"}
    /\ phase = "posting" => left = {}
    /\ phase # "flushing" => \A m \in wire : m.kind # "flush"
    /\ removals \in 0 .. MaxRemovals /\ mishaps \in Nat

RowType ==
    /\ server \in Entries /\ DOMAIN server \subseteq Below
    /\ pressed \in Entries
    /\ filed \subseteq [holds : Entries, typed : Entries, excused : SUBSET Index]
    /\ Cardinality(filed) =< 1
    /\ suspect \subseteq Index /\ removed \in Answers

TypeInv == ClientType /\ TimerType /\ WireType /\ RowType

LEMMA TypeInvTypeOK == TypeInv => TypeOK
<1>1. Below \subseteq Index
  BY DEF Below
<1> QED BY <1>1 DEF TypeInv, TypeOK, ClientType, TimerType, WireType, RowType, OneTimer

\* What the cards show starts from drafts and runners.
LEMMA ShownIs ==
    ASSUME AutosaveAssumption, NEW have \in SUBSET Below, NEW drafts \in Entries, DOMAIN drafts \subseteq Cards
    PROVE  Shown(have, drafts) \subseteq Cards /\ Shown(have, drafts) \subseteq Index
<1>1. 0 \in Index
  BY DEF Index, AutosaveAssumption
<1> QED BY <1>1 DEF Shown, Cards, Below, AutosaveAssumption

LEMMA RenderedIs ==
    ASSUME AutosaveAssumption, runner \in Entries, NEW have \in SUBSET Below,
           NEW drafts \in Entries, DOMAIN drafts \subseteq Cards
    PROVE  Rendered(have, drafts) \in Entries /\ DOMAIN Rendered(have, drafts) \subseteq Cards
<1>1. Shown(have, drafts) \in SUBSET Index /\ Shown(have, drafts) \subseteq Cards
  BY ShownIs
<1>2. Rendered(have, drafts) \in [Shown(have, drafts) -> Answers]
  BY EntriesAre, AtIs DEF Rendered
<1> QED BY <1>1, <1>2, AreEntries

\* The entry that addEntry asks for fits and has no draft yet.
LEMMA NextIndexIs ==
    ASSUME AutosaveAssumption, TypeInv, Cardinality(Shown(known, staged)) < MaxEntries
    PROVE  NextIndex \in Index /\ NextIndex \notin DOMAIN staged
<1> DEFINE S == {Cardinality(known)} \cup {i + 1 : i \in DOMAIN staged}
<1>1. MaxEntries \in Nat /\ Index = 0 .. MaxEntries /\ IsFiniteSet(Index)
  BY FS_Interval DEF Index, AutosaveAssumption
<1>2. /\ IsFiniteSet(known) /\ Cardinality(known) \in Nat
      /\ Cardinality(known) =< Cardinality(Shown(known, staged))
      /\ Cardinality(Shown(known, staged)) \in Nat
  <2>1. Shown(known, staged) \subseteq Index /\ known \subseteq Shown(known, staged)
    BY ShownIs DEF TypeInv, ClientType, Shown
  <2> QED BY <1>1, <2>1, FS_Subset, FS_CardinalityType
<1>3. \A i \in DOMAIN staged : i \in Nat /\ i + 1 =< MaxEntries
  BY <1>1, <1>2 DEF TypeInv, ClientType, Cards, Below
<1>4. S \in SUBSET (0 .. MaxEntries) /\ S # {}
  BY <1>1, <1>2, <1>3
<1>5. Max(S) \in S /\ \A x \in S : x =< Max(S)
  BY <1>1, <1>4, MaxIs
<1>6. NextIndex = Max(S)
  BY DEF NextIndex
<1> HIDE DEF S
<1>7. NextIndex \in Index
  BY <1>1, <1>4, <1>5, <1>6
<1>8. ASSUME NEW i \in DOMAIN staged PROVE NextIndex # i
  <2>1. i + 1 \in S
    BY DEF S
  <2> QED BY <2>1, <1>3, <1>4, <1>5, <1>6
<1> QED BY <1>7, <1>8

\* Forgetting which timer is an entry's changes nothing else about the timers.
LEMMA UntrackedIs ==
    ASSUME NEW ts \in SUBSET Timers, OneTimer(ts), NEW i
    PROVE  /\ Untracked(ts, i) \subseteq Timers /\ OneTimer(Untracked(ts, i))
           /\ \A t \in Untracked(ts, i) : \E u \in ts :
                 /\ t.index = u.index /\ t.at = u.at /\ t.answers = u.answers
                 /\ t.tracked => u = t /\ t.index # i
           /\ \A u \in ts : \E t \in Untracked(ts, i) : t.index = u.index
           /\ \A u \in ts : u.index # i => u \in Untracked(ts, i)
           /\ \A t \in Untracked(ts, i) : t.index # i => t \in ts
<1> DEFINE F(u) == IF u.index = i THEN [u EXCEPT !.tracked = FALSE] ELSE u
<1>1. Untracked(ts, i) = {F(u) : u \in ts}
  BY DEF Untracked
<1>2. ASSUME NEW u \in ts
      PROVE  /\ F(u) \in Timers /\ F(u).index = u.index /\ F(u).at = u.at /\ F(u).answers = u.answers
             /\ F(u).tracked => F(u) = u /\ u.index # i
             /\ u.index # i => F(u) = u
  BY DEF Timers
<1>3. OneTimer(Untracked(ts, i))
  <2> HIDE DEF F
  <2> SUFFICES ASSUME NEW t \in Untracked(ts, i), NEW w \in Untracked(ts, i),
                      (t.tracked /\ w.tracked /\ t.index = w.index) \/ t.at = w.at
               PROVE  t = w
    BY DEF OneTimer
  <2>1. PICK u \in ts, v \in ts : t = F(u) /\ w = F(v)
    BY <1>1
  <2>2. (u.tracked /\ v.tracked /\ u.index = v.index) \/ u.at = v.at
    BY <1>2, <2>1
  <2> QED BY <2>1, <2>2 DEF OneTimer
<1> QED BY <1>1, <1>2, <1>3

LEMMA FewerTimers ==
    ASSUME NEW ts, NEW us \in SUBSET ts
    PROVE  OneTimer(ts) => OneTimer(us)
BY DEF OneTimer

\* What the requests are made of.
LEMMA MessagesAre ==
    ASSUME AutosaveAssumption, NEW i \in Index, NEW a \in Answers
    PROVE  /\ \A kind \in SaveKinds :
                 /\ Save(kind, i, a) \in Requests /\ Save(kind, i, a).kind = kind
                 /\ Save(kind, i, a).index = i /\ Save(kind, i, a).answers = a
           /\ removals \in 0 .. MaxRemovals => \A kind \in RemovalKinds :
                 /\ Message(kind, i, a) \in Requests /\ Message(kind, i, a).kind = kind
                 /\ Message(kind, i, a).index = i /\ Message(kind, i, a).answers = a
BY DEF Save, Message, Requests, SaveKinds, RemovalKinds, AutosaveAssumption

LEMMA KindOf ==
    ASSUME NEW m \in Requests, NEW kind \in SaveKinds \cup RemovalKinds
    PROVE  /\ [m EXCEPT !.kind = kind] \in Requests /\ [m EXCEPT !.kind = kind].kind = kind
           /\ [m EXCEPT !.kind = kind].index = m.index /\ [m EXCEPT !.kind = kind].answers = m.answers
           /\ m.index \in Index /\ m.answers \in Answers
           /\ m.kind \in SaveKinds \/ m.kind \in RemovalKinds
BY DEF Requests, SaveKinds, RemovalKinds

LEMMA CardsAre ==
    ASSUME AutosaveAssumption
    PROVE  Below \subseteq Cards /\ Cards \subseteq Index /\ 0 \in Index /\ Index \subseteq Nat
BY DEF Cards, Below, Index, AutosaveAssumption

LEMMA RangeIs ==
    ASSUME NEW f \in Entries
    PROVE  /\ UNION Range(f) \in Answers
           /\ \A x : x \in UNION Range(f) <=> \E i \in Index : x \in At(f, i)
<1>1. DOMAIN f \subseteq Index /\ \A i \in DOMAIN f : f[i] \in Answers
  BY EntriesAre
<1>2. Range(f) = {f[i] : i \in DOMAIN f}
  BY DEF Range
<1> QED BY <1>1, <1>2, AtIs DEF Answers

-----------------------------------------------------------------------------
(* Every step keeps the types.                                             *)

LEMMA TypeInit == AutosaveAssumption /\ Init => TypeInv
<1> SUFFICES ASSUME AutosaveAssumption, Init PROVE TypeInv
  OBVIOUS
<1>1. server \in Entries /\ DOMAIN server = 0 .. Resumed - 1 /\ DOMAIN server \subseteq Below
  <2>1. 0 .. Resumed - 1 \in SUBSET Index /\ 0 .. Resumed - 1 \subseteq Below
    BY DEF Index, Below, AutosaveAssumption
  <2>2. server \in [0 .. Resumed - 1 -> Answers]
    BY DEF Init, Answers, AutosaveAssumption
  <2> QED BY <2>1, <2>2, AreEntries
<1>2. staged \in Entries /\ DOMAIN staged \subseteq Below /\ known = DOMAIN server
  BY <1>1 DEF Init
<1>3. runner \in Entries /\ DOMAIN runner \subseteq Cards
  <2>1. Shown(known, staged) \in SUBSET Index /\ Shown(known, staged) \subseteq Cards
    BY <1>1, <1>2, ShownIs, CardsAre
  <2>2. runner \in [Shown(known, staged) -> Answers]
    BY <1>2, AtIs DEF Init
  <2> QED BY <2>1, <2>2, AreEntries
<1>4. ClientType
  BY <1>1, <1>2, <1>3, CardsAre DEF ClientType, Init, AutosaveAssumption
<1>5. TimerType /\ WireType
  BY DEF TimerType, WireType, OneTimer, LeftFits, Init, AutosaveAssumption
<1>6. RowType
  <2>1. Nothing \in Entries
    BY NothingIs
  <2>2. Cardinality({}) = 0
    BY FS_EmptySet
  <2> QED BY <1>1, <2>1, <2>2 DEF RowType, Init, Answers
<1> QED BY <1>4, <1>5, <1>6 DEF TypeInv

LEMMA ClientStep == AutosaveAssumption /\ TypeInv /\ [Next]_vars => ClientType'
<1> SUFFICES ASSUME AutosaveAssumption, TypeInv, [Next]_vars PROVE ClientType'
  OBVIOUS
<1>1. ClientType /\ RowType
  BY DEF TypeInv
<1>2. /\ server \in Entries /\ DOMAIN server \subseteq Cards /\ DOMAIN server \subseteq Below
      /\ staged \in Entries /\ DOMAIN staged \subseteq Cards /\ runner \in Entries /\ DOMAIN runner \subseteq Cards
      /\ known \in SUBSET Below /\ due \in Nat /\ edits \in 0 .. MaxEdits
  BY <1>1, CardsAre DEF ClientType, RowType
<1>3. ASSUME NEW i \in Index, Type(i) PROVE ClientType'
  <2> DEFINE answers == runner[i] \cup {edits + 1}
  <2>1. i \in DOMAIN runner /\ answers \in Answers /\ edits' \in 0 .. MaxEdits
    BY <1>2, <1>3, EntriesAre DEF Type, Answers, AutosaveAssumption
  <2>2. runner' = [runner EXCEPT ![i] = answers] /\ staged' = Put(staged, i, answers)
        /\ UNCHANGED <<known, due>>
    BY <1>3 DEF Type
  <2>3. runner' \in Entries /\ DOMAIN runner' = DOMAIN runner
    BY <1>2, <2>1, <2>2, EntriesAre, AreEntries
  <2>4. staged' \in Entries /\ DOMAIN staged' = DOMAIN staged \cup {i}
    BY <1>2, <2>1, <2>2, PutIs
  <2> QED BY <1>2, <2>1, <2>2, <2>3, <2>4 DEF ClientType
<1>4. ASSUME NEW i \in Index, Refold(i) PROVE ClientType'
  <2>1. runner' = [runner EXCEPT ![i] = At(staged, i)] /\ UNCHANGED <<staged, known, due, edits>>
    BY <1>4 DEF Refold, bounds
  <2>2. runner' \in Entries /\ DOMAIN runner' = DOMAIN runner
    BY <1>2, <2>1, AtIs, EntriesAre, AreEntries
  <2> QED BY <1>2, <2>1, <2>2 DEF ClientType
<1>5. ASSUME NEW m \in wire, RemovalReturns(m) PROVE ClientType'
  <2>1. m \in Requests /\ m.index \in Index
    BY KindOf DEF TypeInv, WireType, SaveKinds
  <2>2. staged' \in Entries /\ DOMAIN staged' \subseteq Cards
    <3>1. CASE ClosesUp(m)
      <4>1. staged' \in Entries /\ DOMAIN staged' = ClosedUp(DOMAIN staged, m.index)
        BY <1>2, <2>1, <3>1, WithoutIs DEF ClosesUp
      <4>2. ClosedUp(DOMAIN staged, m.index) \subseteq Cards
        <5> SUFFICES ASSUME NEW j \in Index, Before(m.index, j) \in Cards PROVE j \in Cards
          BY <1>2 DEF ClosedUp
        <5> QED BY <2>1 DEF Before, Cards, Below, Index, AutosaveAssumption
      <4> QED BY <4>1, <4>2
    <3>2. CASE EmptiesDrafts(m)
      BY <3>2, NothingIs DEF EmptiesDrafts
    <3> QED BY <1>5, <3>1, <3>2 DEF RemovalReturns
  <2>3. runner' = Rendered(known, staged') /\ due' = due + 1 /\ known' = known /\ edits' = edits
    BY <1>5 DEF RemovalReturns, bounds
  <2>4. Rendered(known, staged') \in Entries /\ DOMAIN Rendered(known, staged') \subseteq Cards
    BY <1>2, <2>2, RenderedIs
  <2> QED BY <1>2, <2>2, <2>3, <2>4 DEF ClientType
<1>6. CASE Refresh
  <2>1. known' = DOMAIN server /\ runner' = Rendered(known', staged) /\ due' = due - 1 /\ due > 0
        /\ staged' = staged /\ edits' = edits
    BY <1>6 DEF Refresh, bounds
  <2>2. Rendered(known', staged) \in Entries /\ DOMAIN Rendered(known', staged) \subseteq Cards
    BY <1>2, <2>1, RenderedIs
  <2> QED BY <1>2, <2>1, <2>2 DEF ClientType
<1>7. CASE Reload
  <2>1. staged' = server /\ known' = DOMAIN server /\ due' = 0 /\ edits' = edits
        /\ runner' = [i \in Shown(known', staged') |-> At(staged', i)]
    BY <1>7 DEF Reload
  <2>2. Shown(known', staged') \in SUBSET Index /\ Shown(known', staged') \subseteq Cards
    BY <1>2, <2>1, ShownIs
  <2>3. runner' \in [Shown(known', staged') -> Answers]
    BY <1>2, <2>1, AtIs
  <2>4. runner' \in Entries /\ DOMAIN runner' \subseteq Cards
    BY <2>2, <2>3, AreEntries
  <2> QED BY <1>2, <2>1, <2>4 DEF ClientType
<1>8. ASSUME NEW m \in wire, SaveArrives(m) \/ SaveRefused(m) \/ SaveLost(m) PROVE ClientType'
  BY <1>2, <1>8 DEF ClientType, SaveArrives, SaveRefused, SaveLost, Returns, Mishap, bounds
<1>9. CASE RefreshFails
  BY <1>2, <1>9 DEF ClientType, RefreshFails, Mishap
<1>10. ASSUME UNCHANGED <<client, edits>> \/ UNCHANGED <<staged, runner, known, due, edits>> PROVE ClientType'
  BY <1>2, <1>10 DEF ClientType, client
<1>11. CASE Add \/ Reset \/ PressSubmit \/ PostSubmit \/ SubmitCommits \/ SubmitRejected \/ SubmitReplyLost
  BY <1>10, <1>11 DEF Add, Reset, PressSubmit, PostSubmit, SubmitCommits, SubmitRejected, SubmitReplyLost, bounds
<1>12. ASSUME NEW t \in timers, TimerFires(t) PROVE ClientType'
  BY <1>10, <1>12 DEF TimerFires, bounds
<1>13. ASSUME NEW p \in left, FlushNext(p) PROVE ClientType'
  BY <1>10, <1>13 DEF FlushNext, bounds
<1>14. ASSUME NEW i \in Index, Remove(i) PROVE ClientType'
  BY <1>10, <1>14 DEF Remove
<1>15. ASSUME NEW m \in wire, DeleteArrives(m) \/ ResetArrives(m) \/ RemovalRefused(m) \/ RemovalLost(m) PROVE ClientType'
  BY <1>10, <1>15 DEF DeleteArrives, ResetArrives, RemovalRefused, RemovalLost, bounds
<1>16. CASE UNCHANGED vars
  BY <1>10, <1>16 DEF vars, bounds
<1> QED BY <1>3, <1>4, <1>5, <1>6, <1>7, <1>8, <1>9, <1>11, <1>12, <1>13, <1>14, <1>15, <1>16
        DEF Next, Respondent, Browser, Endpoints, Trouble

LEMMA TimerStep == AutosaveAssumption /\ TypeInv /\ [Next]_vars => TimerType'
<1> SUFFICES ASSUME AutosaveAssumption, TypeInv, [Next]_vars PROVE TimerType'
  OBVIOUS
<1>1. TimerType /\ edits \in Nat /\ edits =< MaxEdits /\ MaxEdits \in Nat /\ runner \in Entries
  BY DEF TypeInv, ClientType, AutosaveAssumption
<1>2. ASSUME NEW ts \in SUBSET timers, timers' = ts, left' \subseteq left, edits' = edits PROVE TimerType'
  BY <1>1, <1>2 DEF TimerType, OneTimer, LeftFits
<1>3. ASSUME NEW i \in Index, Type(i) PROVE TimerType'
  <2> DEFINE new == [index |-> i, answers |-> runner[i] \cup {edits + 1}, at |-> edits + 1, tracked |-> TRUE]
             kept == {t \in timers : ~(t.tracked /\ t.index = i)}
  <2>1. timers' = kept \cup {new} /\ edits' = edits + 1 /\ edits < MaxEdits /\ left' = left /\ i \in DOMAIN runner
    BY <1>3 DEF Type, submit
  <2>2. new \in Timers
    BY <1>1, <2>1, EntriesAre DEF Timers, Answers
  <2>3. \A t \in timers : t.at =< edits /\ t.at \in Nat
    BY <1>1 DEF TimerType, Timers
  <2>4. OneTimer(timers')
    <3> SUFFICES ASSUME NEW t \in timers', NEW u \in timers',
                        (t.tracked /\ u.tracked /\ t.index = u.index) \/ t.at = u.at
                 PROVE  t = u
      BY DEF OneTimer
    <3>1. CASE t \in kept /\ u \in kept
      BY <3>1, <1>1 DEF TimerType, OneTimer
    <3>2. CASE t = new /\ u \in kept
      BY <3>2, <2>3, <1>1
    <3>3. CASE u = new /\ t \in kept
      BY <3>3, <2>3, <1>1
    <3> QED BY <2>1, <3>1, <3>2, <3>3
  <2>5. \A p \in left : p.at =< edits /\ p.at \in Nat
    BY <1>1 DEF TimerType, LeftFits
  <2>6. LeftFits(left', timers')
    BY <1>1, <2>1, <2>5 DEF LeftFits, TimerType
  <2>7. timers' \subseteq Timers
    BY <1>1, <2>1, <2>2 DEF TimerType
  <2>9. ASSUME NEW t \in timers' PROVE t.at =< edits'
    <3>1. CASE t \in kept
      BY <3>1, <1>1, <2>1, <2>3
    <3>2. CASE t = new
      BY <3>2, <1>1, <2>1
    <3> QED BY <2>1, <3>1, <3>2
  <2>8. \A p \in left' : p.at =< edits'
    BY <1>1, <2>1, <2>5
  <2> QED BY <2>4, <2>6, <2>7, <2>8, <2>9 DEF TimerType
<1>4. ASSUME NEW ts \in SUBSET timers, NEW i, timers' = Untracked(ts, i), left' \subseteq left, edits' = edits
      PROVE  TimerType'
  <2>1. ts \subseteq Timers /\ OneTimer(ts)
    BY <1>1, FewerTimers DEF TimerType
  <2>2. /\ timers' \subseteq Timers /\ OneTimer(timers')
        /\ \A t \in timers' : \E u \in timers : t.index = u.index /\ t.at = u.at
    BY <2>1, <1>4, UntrackedIs
  <2> QED BY <1>1, <1>4, <2>2 DEF TimerType, LeftFits
<1>5. ASSUME NEW t \in timers, TimerFires(t) PROVE TimerType'
  BY <1>4, <1>5 DEF TimerFires, submit, bounds
<1>6. ASSUME NEW p \in left, FlushNext(p) PROVE TimerType'
  BY <1>4, <1>6 DEF FlushNext, bounds
<1>7. CASE PressSubmit
  <2>1. timers' = timers /\ edits' = edits
        /\ left' = {[index |-> t.index, at |-> t.at] : t \in {u \in timers : u.tracked}}
    BY <1>7 DEF PressSubmit, client, bounds
  <2>2. \A t \in timers : t.index \in Index /\ t.at \in 1 .. MaxEdits /\ t.at =< edits
    BY <1>1 DEF TimerType, Timers
  <2>3. left' \subseteq [index : Index, at : 1 .. MaxEdits] /\ \A p \in left' : p.at =< edits
    BY <2>1, <2>2
  <2>4. \A p \in left' : \A t \in timers : t.at = p.at => t.index = p.index
    BY <2>1, <1>1 DEF TimerType, OneTimer
  <2> QED BY <1>1, <2>1, <2>3, <2>4 DEF TimerType, LeftFits
<1>8. ASSUME NEW i \in Index, Remove(i) PROVE TimerType'
  <2>1. timers' \subseteq timers /\ left' = left /\ edits' = edits
    BY <1>8 DEF Remove, submit
  <2> QED BY <1>2, <2>1
<1>9. CASE Reload
  BY <1>2, <1>9 DEF Reload, submit
<1>10. ASSUME UNCHANGED <<timers, left, edits>> PROVE TimerType'
  BY <1>2, <1>10
<1>11. ASSUME NEW i \in Index, Refold(i) PROVE TimerType'
  BY <1>10, <1>11 DEF Refold, submit, bounds
<1>12. CASE Add \/ Reset \/ Refresh \/ PostSubmit \/ SubmitCommits \/ SubmitRejected
  BY <1>10, <1>12 DEF Add, Reset, Refresh, PostSubmit, SubmitCommits, SubmitRejected, submit, bounds, client
<1>13. CASE RefreshFails \/ SubmitReplyLost
  BY <1>10, <1>13 DEF RefreshFails, SubmitReplyLost, submit, bounds, client
<1>14. ASSUME NEW m \in wire, SaveArrives(m) \/ SaveRefused(m) \/ SaveLost(m) \/ RemovalReturns(m) PROVE TimerType'
  BY <1>10, <1>14 DEF SaveArrives, SaveRefused, SaveLost, RemovalReturns, submit, bounds
<1>15. ASSUME NEW m \in wire, DeleteArrives(m) \/ ResetArrives(m) \/ RemovalRefused(m) \/ RemovalLost(m) PROVE TimerType'
  BY <1>10, <1>15 DEF DeleteArrives, ResetArrives, RemovalRefused, RemovalLost, bounds, client, submit
<1>16. CASE UNCHANGED vars
  BY <1>10, <1>16 DEF vars, bounds, client, submit
<1> QED BY <1>3, <1>5, <1>6, <1>7, <1>8, <1>9, <1>11, <1>12, <1>13, <1>14, <1>15, <1>16
        DEF Next, Respondent, Browser, Endpoints, Trouble

LEMMA WireStep == AutosaveAssumption /\ TypeInv /\ [Next]_vars => WireType'
<1> SUFFICES ASSUME AutosaveAssumption, TypeInv, [Next]_vars PROVE WireType'
  OBVIOUS
<1>1. /\ wire \subseteq Requests /\ removals \in 0 .. MaxRemovals /\ mishaps \in Nat
      /\ phase \in {"editing", "flushing", "posting", "done"}
      /\ phase = "posting" => left = {}
      /\ phase # "flushing" => \A m \in wire : m.kind # "flush"
      /\ MaxRemovals \in Nat /\ staged \in Entries /\ pressed \in Entries
  BY DEF TypeInv, WireType, ClientType, RowType, AutosaveAssumption
<1>2. \A m \in wire : /\ m.index \in Index /\ m.answers \in Answers
                      /\ \A kind \in SaveKinds \cup RemovalKinds :
                            [m EXCEPT !.kind = kind] \in Requests /\ [m EXCEPT !.kind = kind].kind = kind
  BY <1>1, KindOf DEF SaveKinds
<1>3. ASSUME wire' \subseteq Requests, \A m \in wire' : m.kind = "flush" => m \in wire,
             phase' = phase, left' \subseteq left, removals' \in 0 .. MaxRemovals, mishaps' \in Nat
      PROVE  WireType'
  BY <1>1, <1>3 DEF WireType
<1>4. ASSUME NEW i \in Index, Type(i) \/ Refold(i) PROVE WireType'
  BY <1>1, <1>3, <1>4 DEF Type, Refold, submit, bounds
<1>5. ASSUME NEW t \in timers, TimerFires(t) PROVE WireType'
  <2>1. Save("save", t.index, t.answers) \in Requests /\ Save("save", t.index, t.answers).kind = "save"
    BY MessagesAre DEF TypeInv, TimerType, Timers, SaveKinds
  <2> QED BY <1>1, <1>3, <1>5, <2>1 DEF TimerFires, submit, bounds
<1>6. CASE Add
  <2>1. NextIndex \in Index
    BY <1>6, NextIndexIs DEF Add
  <2>2. Save("add", NextIndex, Blank) \in Requests /\ Save("add", NextIndex, Blank).kind = "add"
    BY <2>1, MessagesAre DEF SaveKinds, Blank, Answers
  <2> QED BY <1>1, <1>3, <1>6, <2>2 DEF Add, submit, bounds
<1>7. ASSUME NEW i \in Index, Remove(i) PROVE WireType'
  <2>1. Message("delete", i, At(staged, i)) \in Requests /\ Message("delete", i, At(staged, i)).kind = "delete"
    BY <1>1, AtIs, MessagesAre DEF RemovalKinds
  <2> QED BY <1>1, <1>3, <1>7, <2>1 DEF Remove, submit
<1>8. CASE Reset
  <2>1. PICK m \in Requests : m = Message("reset", 0, UNION Range(staged)) /\ m.kind = "reset"
    BY <1>1, CardsAre, RangeIs, MessagesAre DEF RemovalKinds
  <2>2. wire' = wire \cup {m} /\ UNCHANGED <<submit, mishaps>> /\ removals' = removals + 1 /\ removals < MaxRemovals
    BY <1>8, <2>1 DEF Reset
  <2>3. removals' \in 0 .. MaxRemovals
    BY <1>1, <2>2
  <2>4. wire' \subseteq Requests /\ \A n \in wire' : n.kind = "flush" => n \in wire
    BY <1>1, <2>1, <2>2
  <2>5. phase' = phase /\ left' = left /\ mishaps' = mishaps
    BY <2>2 DEF submit
  <2> QED BY <1>1, <1>3, <2>3, <2>4, <2>5
<1>9. ASSUME NEW p \in left, FlushNext(p) PROVE WireType'
  <2>1. p.index \in Index
    BY DEF TypeInv, TimerType, LeftFits
  <2>2. Save("flush", p.index, At(pressed, p.index)) \in Requests
    BY <1>1, <2>1, AtIs, MessagesAre DEF SaveKinds
  <2> QED BY <1>1, <1>9, <2>2 DEF FlushNext, bounds, WireType
<1>10. ASSUME wire' \subseteq wire, left' = left, UNCHANGED removals, mishaps' \in Nat,
              \/ phase' = phase
              \/ phase' \in {"editing", "done"} /\ phase = "posting"
              \/ phase' = "posting" /\ phase = "flushing" /\ ~Flushing /\ left = {}
       PROVE  WireType'
  BY <1>1, <1>10 DEF WireType, Flushing
<1>11. ASSUME NEW m \in wire, RemovalReturns(m) \/ SaveArrives(m) \/ SaveRefused(m) \/ SaveLost(m) PROVE WireType'
  BY <1>1, <1>10, <1>11 DEF RemovalReturns, SaveArrives, SaveRefused, SaveLost, Returns, Mishap, submit, bounds
<1>12. ASSUME NEW m \in wire, RemovalRefused(m) \/ RemovalLost(m) PROVE WireType'
  BY <1>1, <1>10, <1>12 DEF RemovalRefused, RemovalLost, Mishap, submit, bounds
<1>13. ASSUME NEW m \in wire, DeleteArrives(m) \/ ResetArrives(m) PROVE WireType'
  <2>1. PICK kind \in {"deleted", "emptied"} : wire' = (wire \ {m}) \cup {[m EXCEPT !.kind = kind]}
    BY <1>13 DEF DeleteArrives, ResetArrives
  <2>2. [m EXCEPT !.kind = kind] \in Requests /\ [m EXCEPT !.kind = kind].kind = kind
    BY <1>2 DEF RemovalKinds
  <2>3. UNCHANGED <<submit, bounds>>
    BY <1>13 DEF DeleteArrives, ResetArrives
  <2> QED BY <1>1, <1>3, <2>1, <2>2, <2>3 DEF submit, bounds
<1>14. CASE PressSubmit
  BY <1>1, <1>14 DEF PressSubmit, WireType, bounds
<1>15. CASE Refresh \/ PostSubmit \/ SubmitCommits \/ SubmitRejected
  BY <1>1, <1>10, <1>15 DEF Refresh, PostSubmit, SubmitCommits, SubmitRejected, submit, bounds
<1>16. CASE RefreshFails \/ SubmitReplyLost
  BY <1>1, <1>10, <1>16 DEF RefreshFails, SubmitReplyLost, Mishap, submit, bounds
<1>17. CASE Reload
  <2> DEFINE F(m) == IF m.kind \in SaveKinds THEN [m EXCEPT !.kind = "save"] ELSE m
  <2>1. wire' = {F(m) : m \in {n \in wire : n.kind \notin {"deleted", "emptied"}}}
    BY <1>17 DEF Reload
  <2>2. ASSUME NEW m \in wire PROVE F(m) \in Requests /\ F(m).kind # "flush"
    BY <1>1, <1>2 DEF SaveKinds
  <2> HIDE DEF F
  <2>3. wire' \subseteq Requests /\ \A m \in wire' : m.kind # "flush"
    BY <2>1, <2>2
  <2> QED BY <1>1, <1>3, <1>17, <2>3 DEF Reload, Mishap, submit
<1>18. CASE UNCHANGED vars
  BY <1>1, <1>10, <1>18 DEF vars, submit, bounds
<1> QED BY <1>4, <1>5, <1>6, <1>7, <1>8, <1>9, <1>11, <1>12, <1>13, <1>14, <1>15, <1>16, <1>17, <1>18
        DEF Next, Respondent, Browser, Endpoints, Trouble

\* What submit files is of the right type, and only one report ever is.
LEMMA ReportIs ==
    ASSUME AutosaveAssumption, TypeInv
    PROVE  /\ Report \in [holds : Entries, typed : Entries, excused : SUBSET Index]
           /\ {Report} \subseteq [holds : Entries, typed : Entries, excused : SUBSET Index]
           /\ Cardinality({Report}) =< 1
<1>1. NotAwaited \subseteq Index
  BY KindOf DEF TypeInv, WireType, TimerType, Timers, NotAwaited, SaveKinds
<1>2. Cardinality({Report}) = 1
  BY FS_Singleton
<1> QED BY <1>1, <1>2 DEF TypeInv, RowType, Report

LEMMA RowStep == AutosaveAssumption /\ TypeInv /\ [Next]_vars => RowType'
<1> SUFFICES ASSUME AutosaveAssumption, TypeInv, [Next]_vars PROVE RowType'
  OBVIOUS
<1>1. RowType /\ staged \in Entries
  BY DEF TypeInv, ClientType
<1>2. \A m \in wire : m.index \in Index /\ m.answers \in Answers
  BY KindOf DEF TypeInv, WireType, SaveKinds
<1>3. ASSUME server' = server, pressed' \in Entries, filed' = filed \/ filed' = {Report},
             suspect' \subseteq Index, removed' \in Answers
      PROVE  RowType'
  BY <1>1, <1>3, ReportIs DEF RowType
<1>4. ASSUME NEW i, NEW a, i \in Index, Sent(i, a) PROVE suspect' \subseteq Index
  BY <1>1, <1>4 DEF Sent, RowType
<1>5. ASSUME NEW i \in Index, Type(i) \/ Refold(i) \/ Remove(i) PROVE RowType'
  BY <1>1, <1>3, <1>5 DEF RowType, Type, Refold, Remove, submit, history
<1>6. ASSUME NEW t \in timers, TimerFires(t) PROVE RowType'
  <2>1. t.index \in Index
    BY DEF TypeInv, TimerType, Timers
  <2>2. suspect' \subseteq Index
    BY <1>4, <1>6, <2>1 DEF TimerFires
  <2> QED BY <1>1, <1>3, <1>6, <2>2 DEF RowType, TimerFires, submit
<1>7. CASE Add
  <2>1. NextIndex \in Index
    BY <1>7, NextIndexIs DEF Add
  <2>2. suspect' \subseteq Index
    BY <1>4, <1>7, <2>1 DEF Add
  <2> QED BY <1>1, <1>3, <1>7, <2>2 DEF RowType, Add, submit
<1>8. ASSUME NEW p \in left, FlushNext(p) PROVE RowType'
  <2>1. p.index \in Index
    BY DEF TypeInv, TimerType, LeftFits
  <2>2. suspect' \subseteq Index
    BY <1>4, <1>8, <2>1 DEF FlushNext
  <2> QED BY <1>1, <1>3, <1>8, <2>2 DEF RowType, FlushNext
<1>9. ASSUME NEW m \in wire, RemovalReturns(m) PROVE RowType'
  <2>1. suspect' \subseteq Index
    BY <1>9 DEF RemovalReturns, ClosesUp, EmptiesDrafts, ClosedUp
  <2>2. removed' \in Answers
    BY <1>1, <1>2, <1>9 DEF RemovalReturns, RowType, Answers
  <2> QED BY <1>1, <1>3, <1>9, <2>1, <2>2 DEF RowType, RemovalReturns, submit
<1>10. ASSUME NEW m \in wire, SaveArrives(m) PROVE RowType'
  <2>1. server' = Put(server, m.index, m.answers) /\ m.index \in Below
        /\ UNCHANGED <<filed, pressed, suspect, removed>>
    BY <1>2, <1>10 DEF SaveArrives, submit, history, Below
  <2>2. server' \in Entries /\ DOMAIN server' = DOMAIN server \cup {m.index}
    <3>1. server \in Entries /\ m.index \in Index /\ m.answers \in Answers
      BY <1>1, <1>2 DEF RowType
    <3> QED BY <3>1, <2>1, PutIs
  <2> QED BY <1>1, <2>1, <2>2 DEF RowType
<1>11. ASSUME NEW m \in wire, DeleteArrives(m) PROVE RowType'
  <2>1. server' = WithoutEntry(server, m.index) /\ UNCHANGED <<filed, pressed, suspect, removed>>
    BY <1>11 DEF DeleteArrives, submit, history
  <2>2. server' \in Entries /\ DOMAIN server' = ClosedUp(DOMAIN server, m.index)
    BY <1>1, <1>2, <2>1, WithoutIs DEF RowType
  <2>3. \A j \in Index : Before(m.index, j) \in Below => j \in Below
    BY <1>2 DEF Before, Below, Index, AutosaveAssumption
  <2>4. DOMAIN server' \subseteq Below
    BY <1>1, <2>2, <2>3 DEF ClosedUp, RowType
  <2> QED BY <1>1, <2>1, <2>2, <2>4 DEF RowType
<1>12. ASSUME NEW m \in wire, ResetArrives(m) PROVE RowType'
  BY <1>1, <1>12, NothingIs DEF RowType, ResetArrives, submit, history
<1>13. ASSUME NEW m \in wire, SaveRefused(m) \/ SaveLost(m) PROVE RowType'
  BY <1>1, <1>2, <1>3, <1>13 DEF RowType, SaveRefused, SaveLost, submit
<1>14. ASSUME NEW m \in wire, RemovalRefused(m) \/ RemovalLost(m) PROVE RowType'
  BY <1>1, <1>2, <1>3, <1>14 DEF RowType, RemovalRefused, RemovalLost, submit, history
<1>15. CASE Reset \/ PressSubmit \/ Refresh \/ PostSubmit \/ RefreshFails
  BY <1>1, <1>3, <1>15 DEF RowType, Reset, PressSubmit, Refresh, PostSubmit, RefreshFails, submit, history
<1>16. CASE SubmitCommits \/ SubmitReplyLost
  BY <1>1, <1>3, <1>16 DEF RowType, SubmitCommits, SubmitReplyLost, history
<1>17. CASE SubmitRejected
  BY <1>1, <1>3, <1>17, NothingIs DEF RowType, SubmitRejected, history
<1>18. CASE Reload
  BY <1>1, <1>3, <1>18 DEF RowType, Reload, submit
<1>19. CASE UNCHANGED vars
  BY <1>1, <1>3, <1>19 DEF RowType, vars, submit, history
<1> QED BY <1>5, <1>6, <1>7, <1>8, <1>9, <1>10, <1>11, <1>12, <1>13, <1>14, <1>15, <1>16, <1>17, <1>18, <1>19
        DEF Next, Respondent, Browser, Endpoints, Trouble

LEMMA TypeStep == AutosaveAssumption /\ TypeInv /\ [Next]_vars => TypeInv'
BY ClientStep, TimerStep, WireStep, RowStep DEF TypeInv

LEMMA TypeInvHolds == Spec => []TypeInv
<1>1. Init => TypeInv
  BY TypeInit, AutosaveAssumption
<1>2. TypeInv /\ [Next]_vars => TypeInv'
  BY TypeStep, AutosaveAssumption
<1> QED BY <1>1, <1>2, PTL DEF Spec

\* The state of the hook, of its timers and requests, and of the server has the
\* types TypeOK says: an entry has at most one timer it knows of, no two timers
\* were set by the same edit, and at most one report is filed.
THEOREM TypeCorrect == Spec => []TypeOK
BY TypeInvHolds, TypeInvTypeOK, PTL

-----------------------------------------------------------------------------
(* Removals.                                                               *)

\* Unless something else was pending around it, a removal is alone: nothing else
\* is under way, the respondent is still editing, no timer ticks for its entry
\* or for one after it, and the drafts are those it was sent with.
RemovalAlone ==
    ~overlapped => \A m \in wire : m.kind \in RemovalKinds =>
        /\ wire = {m} /\ phase = "editing"
        /\ m.kind \in {"delete", "deleted"} =>
              m.answers = At(staged, m.index) /\ \A t \in timers : t.index < m.index
        /\ m.kind \in {"reset", "emptied"} => timers = {} /\ m.answers = UNION Range(staged)

LEMMA RemovalInit == Init => RemovalAlone
BY DEF Init, RemovalAlone

LEMMA RemovalStep ==
    AutosaveAssumption /\ TypeInv /\ RemovalAlone /\ [Next]_vars => RemovalAlone'
<1> SUFFICES ASSUME AutosaveAssumption, TypeInv, RemovalAlone, [Next]_vars, ~overlapped' PROVE RemovalAlone'
  BY DEF RemovalAlone
<1>1. /\ wire \subseteq Requests
      /\ \A m \in wire : m.index \in Index /\ (m.kind \in SaveKinds \/ m.kind \in RemovalKinds)
      /\ \A kind \in SaveKinds : kind \notin RemovalKinds
  BY KindOf DEF TypeInv, WireType, SaveKinds, RemovalKinds
<1>2. ASSUME \A m \in wire' : m.kind \notin RemovalKinds PROVE RemovalAlone'
  BY <1>2 DEF RemovalAlone
<1>3. ASSUME ~overlapped, wire' \subseteq wire, UNCHANGED <<timers, staged>>,
             phase' = phase \/ phase # "editing"
      PROVE  RemovalAlone'
  BY <1>3 DEF RemovalAlone
<1>4. ASSUME ~Renumbering, \A m \in wire' : m \in wire \/ m.kind \in SaveKinds PROVE RemovalAlone'
  BY <1>1, <1>2, <1>4 DEF Renumbering, RemovalKinds
<1>5. ASSUME NEW i \in Index, Type(i) PROVE RemovalAlone'
  BY <1>4, <1>5 DEF Type
<1>6. ASSUME NEW t \in timers, TimerFires(t) PROVE RemovalAlone'
  <2>1. Save("save", t.index, t.answers).kind \in SaveKinds
    BY DEF Save, SaveKinds
  <2> QED BY <1>4, <1>6, <2>1 DEF TimerFires
<1>7. CASE Add
  <2>1. Save("add", NextIndex, Blank).kind \in SaveKinds
    BY DEF Save, SaveKinds
  <2> QED BY <1>4, <1>7, <2>1 DEF Add
<1>8. ASSUME NEW p \in left, FlushNext(p) PROVE RemovalAlone'
  <2>1. phase = "flushing" /\ ~overlapped /\ wire' = wire \cup {Save("flush", p.index, At(pressed, p.index))}
    BY <1>8 DEF FlushNext
  <2>2. Save("flush", p.index, At(pressed, p.index)).kind \in SaveKinds
    BY DEF Save, SaveKinds
  <2> QED BY <1>1, <1>2, <2>1, <2>2 DEF RemovalAlone
<1>9. ASSUME NEW i \in Index, Remove(i) PROVE RemovalAlone'
  <2> DEFINE m == Message("delete", i, At(staged, i))
  <2>1. /\ wire = {} /\ wire' = {m} /\ phase = "editing" /\ phase' = phase /\ staged' = staged
        /\ \A t \in timers : ~(t.index > i) /\ t.tracked
        /\ timers' = {t \in timers : ~(t.tracked /\ t.index = i)}
    BY <1>9 DEF Remove, submit
  <2>2. m.kind = "delete" /\ m.index = i /\ m.answers = At(staged, i)
    BY DEF Message
  <2>3. \A t \in timers : t.index \in Nat
    BY DEF TypeInv, TimerType, Timers, Index
  <2>4. \A t \in timers' : t.index < i
    BY <2>1, <2>3 DEF Index
  <2> HIDE DEF m
  <2> QED BY <2>1, <2>2, <2>4 DEF RemovalAlone
<1>10. CASE Reset
  <2> DEFINE m == Message("reset", 0, UNION Range(staged))
  <2>1. wire = {} /\ timers = {} /\ wire' = {m} /\ phase = "editing" /\ UNCHANGED <<phase, staged, timers>>
    BY <1>10 DEF Reset, submit, client
  <2>2. m.kind = "reset" /\ m.answers = UNION Range(staged)
    BY DEF Message
  <2> HIDE DEF m
  <2> QED BY <2>1, <2>2 DEF RemovalAlone
<1>11. ASSUME NEW m \in wire, RemovalReturns(m) PROVE RemovalAlone'
  <2>1. m.kind \in RemovalKinds /\ wire' = wire \ {m} /\ ~overlapped
    BY <1>11 DEF RemovalReturns, ClosesUp, EmptiesDrafts, RemovalKinds
  <2> QED BY <1>2, <2>1 DEF RemovalAlone
<1>12. ASSUME NEW m \in wire, DeleteArrives(m) PROVE RemovalAlone'
  <2> DEFINE n == [m EXCEPT !.kind = "deleted"]
  <2>1. /\ m.kind = "delete" /\ ~overlapped /\ wire' = (wire \ {m}) \cup {n}
        /\ UNCHANGED <<staged, timers, phase>>
    BY <1>12 DEF DeleteArrives, client, submit, history
  <2>2. n.kind = "deleted" /\ n.index = m.index /\ n.answers = m.answers
    BY <1>1 DEF Requests
  <2>3. /\ wire = {m} /\ phase = "editing" /\ m.answers = At(staged, m.index)
        /\ \A t \in timers : t.index < m.index
    BY <2>1 DEF RemovalAlone, RemovalKinds
  <2>4. wire' = {n}
    BY <2>1, <2>3
  <2> HIDE DEF n
  <2> QED BY <2>1, <2>2, <2>3, <2>4 DEF RemovalAlone
<1>13. ASSUME NEW m \in wire, ResetArrives(m) PROVE RemovalAlone'
  <2> DEFINE n == [m EXCEPT !.kind = "emptied"]
  <2>1. /\ m.kind = "reset" /\ ~overlapped /\ wire' = (wire \ {m}) \cup {n}
        /\ UNCHANGED <<staged, timers, phase>>
    BY <1>13 DEF ResetArrives, client, submit, history
  <2>2. n.kind = "emptied" /\ n.answers = m.answers
    BY <1>1 DEF Requests
  <2>3. wire = {m} /\ phase = "editing" /\ timers = {} /\ m.answers = UNION Range(staged)
    BY <2>1 DEF RemovalAlone, RemovalKinds
  <2>4. wire' = {n}
    BY <2>1, <2>3
  <2> HIDE DEF n
  <2> QED BY <2>1, <2>2, <2>3, <2>4 DEF RemovalAlone
<1>14. ASSUME NEW m \in wire, SaveArrives(m) \/ SaveRefused(m) \/ SaveLost(m) PROVE RemovalAlone'
  BY <1>3, <1>14 DEF SaveArrives, SaveRefused, SaveLost, Returns, submit, history
<1>15. ASSUME NEW m \in wire, RemovalRefused(m) \/ RemovalLost(m) PROVE RemovalAlone'
  BY <1>3, <1>15 DEF RemovalRefused, RemovalLost, client, submit, history
<1>16. CASE PressSubmit
  BY <1>4, <1>16 DEF PressSubmit
<1>17. CASE Reload
  <2> DEFINE F(m) == IF m.kind \in SaveKinds THEN [m EXCEPT !.kind = "save"] ELSE m
  <2>1. wire' = {F(m) : m \in {n \in wire : n.kind \notin {"deleted", "emptied"}}} /\ ~Renumbering
    BY <1>17 DEF Reload
  <2>2. ASSUME NEW m \in wire PROVE m.kind \in SaveKinds => F(m).kind \in SaveKinds
    BY <1>1 DEF Requests, SaveKinds
  <2>3. \A m \in wire : m.kind \in SaveKinds
    BY <1>1, <2>1 DEF Renumbering, RemovalKinds
  <2> HIDE DEF F
  <2> QED BY <1>4, <2>1, <2>2, <2>3
<1>18. CASE Refresh \/ PostSubmit \/ SubmitCommits \/ SubmitRejected \/ RefreshFails \/ SubmitReplyLost
  BY <1>3, <1>18 DEF Refresh, PostSubmit, SubmitCommits, SubmitRejected, RefreshFails, SubmitReplyLost,
                     client, submit, history
<1>19. ASSUME NEW i \in Index, Refold(i) PROVE RemovalAlone'
  BY <1>3, <1>19 DEF Refold, submit, history
<1>20. CASE UNCHANGED vars
  BY <1>3, <1>20 DEF vars, client, submit, history
<1> QED BY <1>5, <1>6, <1>7, <1>8, <1>9, <1>10, <1>11, <1>12, <1>13, <1>14, <1>15, <1>16, <1>17, <1>18, <1>19, <1>20
        DEF Next, Respondent, Browser, Endpoints, Trouble

-----------------------------------------------------------------------------
(* What a step may be, as far as drafts, rows and saves are concerned.     *)

\* Rows, drafts, timers and requests stay as they are.
Calm == UNCHANGED <<server, staged, timers, wire, edits, suspect, overlapped, removed, inherited>>

\* Submit is worked through: flushed, then answered or filed.
Proceeds ==
    \/ UNCHANGED <<phase, left, pressed, filed>>
    \/ phase = "flushing" /\ phase' = "posting" /\ left = {} /\ UNCHANGED <<left, pressed, filed>>
    \/ phase = "posting" /\ phase' = "editing" /\ UNCHANGED filed
    \/ phase = "posting" /\ phase' \in {"editing", "done"} /\ filed = {} /\ filed' = {Report}

\* A save is sent: by a timer, by addEntry, or by submit's flush.
Sends(kind, i, answers) ==
    /\ kind \in SaveKinds /\ i \in Index /\ answers \in Answers
    /\ wire' = wire \cup {Save(kind, i, answers)} /\ Sent(i, answers)
    /\ UNCHANGED <<server, staged, edits, removed, inherited, phase, pressed, filed>>
    /\ ~overlapped' => ~overlapped /\ ~Renumbering
    /\ \A t \in timers' : \E u \in timers : t.index = u.index /\ t.answers = u.answers
    /\ \A t : t.index # i => (t \in timers <=> t \in timers')
    /\ left' \subseteq left /\ \A p \in left : p.index # i => p \in left'
    /\ \/ \E t \in timers : t.index = i /\ t.answers = answers
       \/ answers = {}
       \/ phase = "flushing" /\ answers = At(pressed, i)

\* A save is lost or refused.
SaveFails(m) ==
    /\ m.kind \in SaveKinds
    /\ wire' = wire \ {m} /\ suspect' = suspect \cup {m.index}
    /\ UNCHANGED <<server, filed, staged, timers, submit, edits, overlapped, removed, inherited>>

LEMMA StepIs ==
    ASSUME AutosaveAssumption, TypeInv, RemovalAlone, [Next]_vars
    PROVE  \/ Calm /\ Proceeds
           \/ \E kind \in SaveKinds, i \in Index, answers \in Answers : Sends(kind, i, answers)
           \/ \E i \in Index : Type(i) \/ Remove(i)
           \/ Reset \/ PressSubmit \/ Reload
           \/ \E m \in wire : \/ RemovalReturns(m) \/ SaveArrives(m) \/ SaveFails(m) \/ DeleteArrives(m)
                              \/ ResetArrives(m) \/ RemovalRefused(m) \/ RemovalLost(m)
<1> DEFINE Sending == \E kind \in SaveKinds, i \in Index, answers \in Answers : Sends(kind, i, answers)
<1>1. /\ timers \subseteq Timers /\ OneTimer(timers) /\ LeftFits(left, timers)
      /\ "save" \in SaveKinds /\ "add" \in SaveKinds /\ "flush" \in SaveKinds
  BY DEF TypeInv, TimerType, SaveKinds
<1>2. ASSUME NEW t \in timers, TimerFires(t) PROVE Sending
  <2>1. t.index \in Index /\ t.answers \in Answers
    BY <1>1 DEF Timers
  <2>2. timers' = Untracked(timers \ {t}, t.index) /\ OneTimer(timers \ {t}) /\ timers \ {t} \in SUBSET Timers
    BY <1>1, <1>2, FewerTimers DEF TimerFires
  <2>3. /\ \A v \in timers' : \E u \in timers : v.index = u.index /\ v.answers = u.answers
        /\ \A v \in timers' : v.index # t.index => v \in timers
        /\ \A u \in timers : u.index # t.index => u \in timers'
    <3>1. \A u \in timers \ {t} : u.index # t.index => u \in timers'
      BY <2>2, UntrackedIs
    <3>2. \A v \in timers' : \E u \in timers \ {t} : v.index = u.index /\ v.answers = u.answers
      BY <2>2, UntrackedIs
    <3>3. \A v \in timers' : v.index # t.index => v \in timers
      BY <2>2, UntrackedIs
    <3> QED BY <3>1, <3>2, <3>3
  <2>4. \A v : v.index # t.index => (v \in timers <=> v \in timers')
    BY <2>3
  <2>5. Sends("save", t.index, t.answers)
    BY <1>1, <1>2, <2>1, <2>3, <2>4 DEF Sends, TimerFires, submit, bounds
  <2> QED BY <1>1, <2>1, <2>5
<1>3. CASE Add
  <2>1. NextIndex \in Index /\ Blank \in Answers /\ Blank = {}
    BY <1>3, NextIndexIs DEF Add, Blank, Answers
  <2>2. Sends("add", NextIndex, Blank)
    BY <1>1, <1>3, <2>1 DEF Sends, Add, client, submit, bounds
  <2> QED BY <1>1, <2>1, <2>2
<1>4. ASSUME NEW p \in left, FlushNext(p) PROVE Sending
  <2> DEFINE ts == {t \in timers : t.at # p.at}
  <2>1. p.index \in Index /\ At(pressed, p.index) \in Answers
    BY <1>1, AtIs DEF LeftFits, TypeInv, RowType
  <2>2. timers' = Untracked(ts, p.index) /\ OneTimer(ts) /\ ts \in SUBSET Timers
    BY <1>1, <1>4, FewerTimers DEF FlushNext
  <2>3. \A t \in timers : t.index # p.index => t \in ts
    BY <1>1 DEF LeftFits
  <2>4. /\ \A v \in timers' : \E u \in timers : v.index = u.index /\ v.answers = u.answers
        /\ \A v \in timers' : v.index # p.index => v \in timers
        /\ \A u \in timers : u.index # p.index => u \in timers'
    <3>1. \A v \in timers' : \E u \in ts : v.index = u.index /\ v.answers = u.answers
      BY <2>2, UntrackedIs
    <3>2. \A u \in ts : u.index # p.index => u \in timers'
      BY <2>2, UntrackedIs
    <3>3. \A v \in timers' : v.index # p.index => v \in timers
      BY <2>2, UntrackedIs
    <3> QED BY <2>3, <3>1, <3>2, <3>3
  <2>5. \A v : v.index # p.index => (v \in timers <=> v \in timers')
    BY <2>4
  <2>6. ~overlapped => ~Renumbering
    BY <1>4 DEF RemovalAlone, RemovalKinds, Renumbering, FlushNext
  <2>7. /\ phase = "flushing" /\ left' = left \ {p} /\ overlapped' = overlapped
        /\ wire' = wire \cup {Save("flush", p.index, At(pressed, p.index))}
        /\ Sent(p.index, At(pressed, p.index))
        /\ UNCHANGED <<server, staged, edits, removed, inherited, phase, pressed, filed>>
    BY <1>4 DEF FlushNext, bounds
  <2>8. Sends("flush", p.index, At(pressed, p.index))
    BY <1>1, <2>1, <2>4, <2>5, <2>6, <2>7 DEF Sends
  <2> QED BY <1>1, <2>1, <2>8
<1>5. ASSUME NEW m \in wire, SaveRefused(m) \/ SaveLost(m) PROVE SaveFails(m)
  BY <1>5 DEF SaveRefused, SaveLost, SaveFails, Returns, bounds
<1>6. CASE Refresh \/ PostSubmit \/ RefreshFails
  BY <1>6 DEF Refresh, PostSubmit, RefreshFails, Calm, Proceeds, client, submit, bounds, history
<1>7. CASE SubmitCommits \/ SubmitRejected \/ SubmitReplyLost
  BY <1>7 DEF SubmitCommits, SubmitRejected, SubmitReplyLost, Calm, Proceeds, client, submit, bounds, history
<1>8. ASSUME NEW i \in Index, Refold(i) PROVE Calm /\ Proceeds
  BY <1>8 DEF Refold, Calm, Proceeds, submit, bounds, history
<1>9. CASE UNCHANGED vars
  BY <1>9 DEF vars, Calm, Proceeds, client, submit, bounds, history
<1>10. CASE Respondent
  BY <1>10, <1>3, <1>8 DEF Respondent
<1>11. CASE Browser
  BY <1>11, <1>2, <1>4, <1>6 DEF Browser
<1>12. CASE Endpoints
  BY <1>12, <1>5, <1>7 DEF Endpoints
<1>13. CASE Trouble
  BY <1>13, <1>5, <1>6, <1>7 DEF Trouble
<1> QED BY <1>9, <1>10, <1>11, <1>12, <1>13 DEF Next

-----------------------------------------------------------------------------
(* Where the edits of an entry are.                                        *)

\* Edit x is at index i: staged on the server, in these drafts, or on its way.
Holds(drafts, x, i) ==
    \/ x \in At(server, i) \/ x \in At(drafts, i)
    \/ \E t \in timers : t.index = i /\ x \in t.answers
    \/ \E m \in wire : m.kind \in SaveKinds /\ m.index = i /\ x \in m.answers

\* No edit is at two indexes, and those that are gone are at none.
Apart(drafts, gone) ==
    /\ \A x : \A i, j \in Nat : Holds(drafts, x, i) /\ Holds(drafts, x, j) => i = j
    /\ \A x \in gone : \A i \in Nat : ~Holds(drafts, x, i)

\* An edit belongs to one entry, with the drafts that the hook has or, once the
\* server has closed up its indexes, that it will have when the reply comes.
ApartInv ==
    ~overlapped /\ ~inherited =>
        /\ \A x : (\E i \in Nat : Holds(staged, x, i)) \/ x \in removed => x \in 1 .. edits
        /\ (\A m \in wire : m.kind \notin {"deleted", "emptied"}) => Apart(staged, removed)
        /\ \A m \in wire : m.kind = "deleted" =>
              Apart(WithoutEntry(staged, m.index), removed \cup m.answers)
        /\ \A m \in wire : m.kind = "emptied" => Apart(Nothing, removed \cup m.answers)
        /\ phase \in {"flushing", "posting"} => \A i \in Nat : At(pressed, i) \subseteq At(staged, i)

LEMMA ApartInit == AutosaveAssumption /\ Init => ApartInv
<1> SUFFICES ASSUME AutosaveAssumption, Init PROVE ApartInv
  OBVIOUS
<1>1. \A x : \A i \in Nat : Holds(staged, x, i) => x = i + 1 /\ i \in 0 .. Resumed - 1
  BY DEF Init, Holds, At, Blank
<1>2. \A x : \A i \in Nat : Holds(staged, x, i) => x \in 1 .. edits
  BY <1>1 DEF Init, AutosaveAssumption
<1>3. Apart(staged, removed)
  BY <1>1 DEF Apart, Init
<1> QED BY <1>2, <1>3 DEF ApartInv, Init

\* Nothing is held at an index that there is not.
LEMMA HoldsIs ==
    ASSUME AutosaveAssumption, TypeInv, NEW drafts \in Entries, NEW x, NEW i, Holds(drafts, x, i)
    PROVE  i \in Index
<1>1. /\ server \in Entries /\ \A t \in timers : t.index \in Index
      /\ \A m \in wire : m.index \in Index
  BY KindOf DEF TypeInv, RowType, TimerType, WireType, Timers, Requests, SaveKinds
<1>2. \A f \in Entries : x \in At(f, i) => i \in Index
  BY EntriesAre, AtIs
<1> QED BY <1>1, <1>2 DEF Holds

LEMMA ApartStep ==
    AutosaveAssumption /\ TypeInv /\ TypeInv' /\ RemovalAlone /\ ApartInv /\ [Next]_vars => ApartInv'
<1> SUFFICES ASSUME AutosaveAssumption, TypeInv, TypeInv', RemovalAlone, ApartInv, [Next]_vars,
                    ~overlapped', ~inherited'
             PROVE  ApartInv'
  BY DEF ApartInv
<1>1. /\ wire \subseteq Requests /\ staged \in Entries /\ edits \in Nat
      /\ server \in Entries /\ pressed \in Entries
      /\ \A kind \in SaveKinds : kind \notin RemovalKinds
      /\ \A m \in wire : m.index \in Index /\ m.answers \in Answers /\ (m.kind \in SaveKinds \/ m.kind \in RemovalKinds)
      /\ Index \subseteq Nat
  <2>1. wire \subseteq Requests /\ staged \in Entries /\ edits \in Nat /\ server \in Entries /\ pressed \in Entries
    BY DEF TypeInv, WireType, ClientType, RowType
  <2>2. \A kind \in SaveKinds : kind \notin RemovalKinds
    BY DEF SaveKinds, RemovalKinds
  <2>3. \A m \in wire : m.index \in Index /\ m.answers \in Answers /\ (m.kind \in SaveKinds \/ m.kind \in RemovalKinds)
    BY <2>1 DEF Requests, SaveKinds, RemovalKinds
  <2> QED BY <2>1, <2>2, <2>3, CardsAre
<1>2. ASSUME ~overlapped, ~inherited,
             \A m \in wire : m.kind \notin {"deleted", "emptied"},
             \A m \in wire' : m.kind \notin {"deleted", "emptied"},
             \A x : \A i \in Nat : Holds(staged, x, i)' => Holds(staged, x, i),
             UNCHANGED <<edits, removed>>,
             phase' \in {"flushing", "posting"} => \A i \in Nat : At(pressed, i)' \subseteq At(staged, i)'
      PROVE  ApartInv'
  <2>1. Apart(staged, removed)
    BY <1>2 DEF ApartInv
  <2>2. Apart(staged, removed)'
    BY <2>1, <1>2 DEF Apart
  <2>3. \A x : (\E i \in Nat : Holds(staged, x, i)') \/ x \in removed' => x \in 1 .. edits'
    BY <1>2 DEF ApartInv
  <2> QED BY <2>2, <2>3, <1>2 DEF ApartInv
<1>3. CASE Calm /\ Proceeds
  <2>1. \A x : \A i \in Nat : Holds(staged, x, i)' <=> Holds(staged, x, i)
    BY <1>3 DEF Calm, Holds, At
  <2>2. /\ Apart(staged, removed)' <=> Apart(staged, removed)
        /\ \A m \in wire : Apart(WithoutEntry(staged, m.index), removed \cup m.answers)'
                              <=> Apart(WithoutEntry(staged, m.index), removed \cup m.answers)
        /\ \A m \in wire : Apart(Nothing, removed \cup m.answers)' <=> Apart(Nothing, removed \cup m.answers)
    BY <1>3 DEF Calm, Apart, Holds, At, WithoutEntry
  <2>3. phase' \in {"flushing", "posting"} => phase \in {"flushing", "posting"} /\ pressed' = pressed
    BY <1>3 DEF Proceeds
  <2> QED BY <1>3, <2>1, <2>2, <2>3 DEF Calm, ApartInv, At
<1>4. ASSUME NEW kind \in SaveKinds, NEW k \in Index, NEW answers \in Answers, Sends(kind, k, answers)
      PROVE  ApartInv'
  <2> DEFINE new == Save(kind, k, answers)
  <2>1. new.kind \in SaveKinds /\ new.index = k /\ new.answers = answers
    BY MessagesAre
  <2>2. /\ wire' = wire \cup {new} /\ ~overlapped /\ ~inherited /\ ~Renumbering
        /\ UNCHANGED <<server, staged, edits, removed, phase, pressed>>
        /\ \A t \in timers' : \E u \in timers : t.index = u.index /\ t.answers = u.answers
        /\ \/ \E t \in timers : t.index = k /\ t.answers = answers
           \/ answers = {}
           \/ phase = "flushing" /\ answers = At(pressed, k)
    BY <1>4 DEF Sends
  <2>3. \A x : x \in answers => Holds(staged, x, k)
    <3>1. phase = "flushing" => At(pressed, k) \subseteq At(staged, k)
      BY <1>1, <2>2 DEF ApartInv
    <3> QED BY <2>2, <3>1 DEF Holds
  <2> HIDE DEF new
  <2>4. \A x : \A i \in Nat : Holds(staged, x, i)' => Holds(staged, x, i)
    BY <2>1, <2>2, <2>3 DEF Holds, At
  <2>5. \A m \in wire' : m.kind \notin {"deleted", "emptied"}
    BY <1>1, <2>1, <2>2 DEF Renumbering, RemovalKinds
  <2>6. phase' \in {"flushing", "posting"} => \A i \in Nat : At(pressed, i)' \subseteq At(staged, i)'
    BY <2>2 DEF ApartInv, At
  <2> QED BY <1>2, <2>2, <2>4, <2>5, <2>6
<1>5. ASSUME NEW k \in Index, Type(k) PROVE ApartInv'
  <2> DEFINE answers == runner[k] \cup {edits + 1}
             new == [index |-> k, answers |-> answers, at |-> edits + 1, tracked |-> TRUE]
  <2>1. /\ staged' = Put(staged, k, answers) /\ edits' = edits + 1 /\ ~overlapped /\ ~Renumbering /\ ~inherited
        /\ runner[k] = At(staged, k) /\ k \in DOMAIN runner
        /\ timers' = {t \in timers : ~(t.tracked /\ t.index = k)} \cup {new}
        /\ UNCHANGED <<server, wire, removed, phase, pressed>>
    BY <1>5 DEF Type, submit
  <2>2. answers \in Answers
    BY <1>5, EntriesAre DEF Type, TypeInv, ClientType, Answers, AutosaveAssumption
  <2>11. new.index = k /\ new.answers = answers /\ answers = At(staged, k) \cup {edits + 1}
    BY <2>1
  <2> HIDE DEF new, answers
  <2>3. At(staged', k) = answers /\ \A i : i # k => At(staged', i) = At(staged, i)
    <3>1. staged \in Entries /\ k \in Index /\ answers \in Answers
      BY <1>1, <2>2
    <3>2. At(Put(staged, k, answers), k) = answers /\ \A i : i # k => At(Put(staged, k, answers), i) = At(staged, i)
      BY <3>1, PutIs
    <3> QED BY <2>1, <3>2
  <2>4. ASSUME NEW x, NEW i \in Nat, Holds(staged, x, i)' PROVE Holds(staged, x, i) \/ (i = k /\ x = edits + 1)
    <3>1. CASE x \in At(staged', i)
      BY <2>3, <2>11, <3>1 DEF Holds
    <3>2. ASSUME NEW t \in timers', t.index = i, x \in t.answers PROVE Holds(staged, x, i) \/ (i = k /\ x = edits + 1)
      BY <2>1, <2>11, <3>2 DEF Holds
    <3> QED BY <2>1, <2>4, <3>1, <3>2 DEF Holds
  <2>5. \A m \in wire : m.kind \notin {"deleted", "emptied"}
    BY <2>1 DEF Renumbering
  <2>6. Apart(staged, removed) /\ \A x : (\E i \in Nat : Holds(staged, x, i)) \/ x \in removed => x \in 1 .. edits
    BY <2>1, <2>5 DEF ApartInv
  <2>7. \A i \in Nat : ~Holds(staged, edits + 1, i) /\ edits + 1 \notin removed
    <3>1. edits + 1 \notin 1 .. edits
      BY <1>1
    <3> QED BY <3>1, <2>6
  <2>8. Apart(staged, removed)'
    <3>1. ASSUME NEW x, NEW i \in Nat, NEW j \in Nat, Holds(staged, x, i)', Holds(staged, x, j)' PROVE i = j
      BY <2>4, <2>6, <2>7, <3>1 DEF Apart
    <3>2. ASSUME NEW x \in removed, NEW i \in Nat, Holds(staged, x, i)' PROVE FALSE
      BY <2>4, <2>6, <2>7, <3>2 DEF Apart
    <3> QED BY <2>1, <3>1, <3>2 DEF Apart
  <2>9. \A x : (\E i \in Nat : Holds(staged, x, i)') \/ x \in removed' => x \in 1 .. edits'
    <3>1. \A x : x \in 1 .. edits => x \in 1 .. edits'
      BY <1>1, <2>1
    <3>2. edits + 1 \in 1 .. edits'
      BY <1>1, <2>1
    <3> QED BY <2>1, <2>4, <2>6, <3>1, <3>2
  <2>10. phase' \in {"flushing", "posting"} => \A i \in Nat : At(pressed, i)' \subseteq At(staged, i)'
    <3>1. \A i \in Nat : At(staged, i) \subseteq At(staged', i)
      BY <2>3, <2>11
    <3> QED BY <2>1, <3>1 DEF ApartInv, At
  <2> QED BY <2>1, <2>5, <2>8, <2>9, <2>10 DEF ApartInv
<1>6. ASSUME NEW k \in Index, Remove(k) PROVE ApartInv'
  <2>1. /\ wire = {} /\ ~overlapped /\ ~inherited /\ phase' = "editing" /\ timers' \subseteq timers
        /\ wire' = {Message("delete", k, At(staged, k))}
        /\ UNCHANGED <<server, staged, edits, removed>>
    BY <1>6 DEF Remove, submit
  <2>2. Message("delete", k, At(staged, k)).kind = "delete"
    BY DEF Message
  <2>3. \A x : \A i \in Nat : Holds(staged, x, i)' => Holds(staged, x, i)
    BY <2>1, <2>2 DEF Holds, At, SaveKinds
  <2> QED BY <1>2, <2>1, <2>2, <2>3
<1>7. CASE Reset
  <2>1. PICK m : m.kind = "reset" /\ wire' = {m} /\ wire = {}
    BY <1>7 DEF Reset, Message
  <2>2. /\ ~overlapped /\ ~inherited /\ phase' = "editing"
        /\ UNCHANGED <<server, staged, edits, removed, timers>>
    BY <1>7 DEF Reset, client, submit
  <2>3. \A x : \A i \in Nat : Holds(staged, x, i)' => Holds(staged, x, i)
    BY <2>1, <2>2 DEF Holds, At, SaveKinds
  <2> QED BY <1>2, <2>1, <2>2, <2>3
<1>8. CASE PressSubmit
  <2>1. /\ ~overlapped /\ ~inherited /\ ~Renumbering /\ pressed' = staged
        /\ UNCHANGED <<server, staged, timers, wire, edits, removed>>
    BY <1>8 DEF PressSubmit, client, bounds
  <2>2. \A x : \A i \in Nat : Holds(staged, x, i)' => Holds(staged, x, i)
    BY <2>1 DEF Holds, At
  <2>3. \A m \in wire : m.kind \notin {"deleted", "emptied"}
    BY <2>1 DEF Renumbering
  <2>4. \A i \in Nat : At(pressed, i)' \subseteq At(staged, i)'
    BY <2>1 DEF At
  <2> QED BY <1>2, <2>1, <2>2, <2>3, <2>4
<1>9. CASE Reload
  <2> DEFINE F(m) == IF m.kind \in SaveKinds THEN [m EXCEPT !.kind = "save"] ELSE m
  <2>1. /\ wire' = {F(m) : m \in {n \in wire : n.kind \notin {"deleted", "emptied"}}}
        /\ staged' = server /\ timers' = {} /\ phase' = "editing"
        /\ ~overlapped /\ ~Renumbering /\ ~inherited
        /\ UNCHANGED <<server, edits, removed>>
    BY <1>9 DEF Reload, submit
  <2>2. \A m \in wire : m.kind \in SaveKinds
    BY <1>1, <2>1 DEF Renumbering, RemovalKinds
  <2>3. \A m \in wire : F(m).kind = "save" /\ F(m).index = m.index /\ F(m).answers = m.answers
    BY <1>1, <2>2 DEF Requests
  <2> HIDE DEF F
  <2>4. \A n \in wire' : n.kind = "save" /\ \E m \in wire : m.kind \in SaveKinds /\ n.index = m.index /\ n.answers = m.answers
    BY <2>1, <2>2, <2>3
  <2>5. \A x : \A i \in Nat : Holds(staged, x, i)' => Holds(staged, x, i)
    BY <2>1, <2>4 DEF Holds, At
  <2>6. \A m \in wire : m.kind \notin {"deleted", "emptied"}
    BY <2>1 DEF Renumbering
  <2> QED BY <1>2, <2>1, <2>4, <2>5, <2>6
<1>10. ASSUME NEW m \in wire, RemovalReturns(m) PROVE ApartInv'
  <2>1. /\ wire' = wire \ {m} /\ removed' = removed \cup m.answers /\ ~overlapped /\ ~inherited
        /\ UNCHANGED <<server, timers, phase, edits>>
    BY <1>10 DEF RemovalReturns, submit, bounds
  <2>2. m.kind \in {"deleted", "emptied"}
    BY <1>10 DEF RemovalReturns, ClosesUp, EmptiesDrafts
  <2>3. /\ wire = {m} /\ phase = "editing"
        /\ m.answers = At(staged, m.index) \/ m.answers = UNION Range(staged)
    BY <2>1, <2>2 DEF RemovalAlone, RemovalKinds
  <2>4. \A x \in m.answers : x \in 1 .. edits
    <3>1. \A x \in m.answers : \E i \in Nat : x \in At(staged, i)
      BY <1>1, <2>3, RangeIs
    <3>2. \A x \in m.answers : \E i \in Nat : Holds(staged, x, i)
      BY <3>1 DEF Holds
    <3> QED BY <2>1, <3>2 DEF ApartInv
  <2>5. PICK drafts : drafts = staged' /\ Apart(drafts, removed \cup m.answers)
                      /\ \A i \in Nat : \E j \in Nat : At(drafts, i) \subseteq At(staged, j)
    <3>1. CASE ClosesUp(m)
      <4>1. staged' = WithoutEntry(staged, m.index) /\ Apart(WithoutEntry(staged, m.index), removed \cup m.answers)
        BY <2>1, <3>1 DEF ClosesUp, ApartInv
      <4>2. \A i \in Nat : \E j \in Nat : At(WithoutEntry(staged, m.index), i) \subseteq At(staged, j)
        <5> TAKE i \in Nat
        <5>1. CASE i \in Index
          <6>1. m.index \in Index
            BY <1>1
          <6>2. At(WithoutEntry(staged, m.index), i) = At(staged, Before(m.index, i))
            BY <1>1, <5>1, <6>1, WithoutIs
          <6>3. Before(m.index, i) \in Nat
            BY <5>1, <6>1, BeforeIs
          <6> QED BY <6>2, <6>3
        <5>2. CASE i \notin Index
          <6>1. At(WithoutEntry(staged, m.index), i) = {}
            BY <5>2 DEF At, WithoutEntry, ClosedUp, Blank
          <6> QED BY <6>1
        <5> QED BY <5>1, <5>2
      <4> QED BY <4>1, <4>2
    <3>2. CASE EmptiesDrafts(m)
      BY <2>1, <3>2, NothingIs DEF EmptiesDrafts, ApartInv
    <3> QED BY <1>10, <3>1, <3>2 DEF RemovalReturns
  <2>6. \A x : \A i \in Nat : Holds(staged, x, i)' => Holds(drafts, x, i)
    BY <2>1, <2>5 DEF Holds, At
  <2>7. \A x : \A i \in Nat : Holds(staged, x, i)' => \E j \in Nat : Holds(staged, x, j)
    BY <2>5, <2>6 DEF Holds
  <2>8. Apart(staged, removed)'
    BY <2>1, <2>5, <2>6 DEF Apart
  <2>9. \A x : (\E i \in Nat : Holds(staged, x, i)') \/ x \in removed' => x \in 1 .. edits'
    BY <2>1, <2>4, <2>7 DEF ApartInv
  <2> QED BY <2>1, <2>3, <2>8, <2>9 DEF ApartInv
<1>11. ASSUME NEW m \in wire, SaveArrives(m) PROVE ApartInv'
  <2>1. /\ m.kind \in SaveKinds /\ server' = Put(server, m.index, m.answers) /\ wire' = wire \ {m}
        /\ UNCHANGED <<staged, timers, edits, removed, overlapped, inherited, phase, pressed>>
    BY <1>11 DEF SaveArrives, Returns, submit, bounds, history
  <2>2. \A n \in wire : n.kind \in SaveKinds
    BY <1>1, <2>1 DEF RemovalAlone
  <2>3. At(server', m.index) = m.answers /\ \A i : i # m.index => At(server', i) = At(server, i)
    <3>1. server \in Entries /\ m.index \in Index /\ m.answers \in Answers
      BY <1>1
    <3>2. /\ At(Put(server, m.index, m.answers), m.index) = m.answers
          /\ \A i : i # m.index => At(Put(server, m.index, m.answers), i) = At(server, i)
      BY <3>1, PutIs
    <3> QED BY <2>1, <3>2
  <2>4. ASSUME NEW x, NEW i \in Nat, Holds(staged, x, i)' PROVE Holds(staged, x, i)
    <3>1. CASE x \in At(server', i)
      BY <2>1, <2>3, <3>1 DEF Holds
    <3>2. CASE x \notin At(server', i)
      BY <2>1, <2>4, <3>2 DEF Holds
    <3> QED BY <3>1, <3>2
  <2>5. \A n \in wire : n.kind \notin {"deleted", "emptied"}
    BY <1>1, <2>2 DEF RemovalKinds
  <2>6. phase' \in {"flushing", "posting"} => \A i \in Nat : At(pressed, i)' \subseteq At(staged, i)'
    BY <2>1 DEF ApartInv, At
  <2> QED BY <1>2, <2>1, <2>4, <2>5, <2>6
<1>12. ASSUME NEW m \in wire, SaveFails(m) PROVE ApartInv'
  <2>1. /\ m.kind \in SaveKinds /\ wire' = wire \ {m}
        /\ UNCHANGED <<server, staged, timers, edits, removed, overlapped, inherited, phase, pressed>>
    BY <1>12 DEF SaveFails, submit
  <2>2. \A n \in wire : n.kind \in SaveKinds
    BY <1>1, <2>1 DEF RemovalAlone
  <2>3. \A x : \A i \in Nat : Holds(staged, x, i)' => Holds(staged, x, i)
    BY <2>1 DEF Holds, At
  <2>4. \A n \in wire : n.kind \notin {"deleted", "emptied"}
    BY <1>1, <2>2 DEF RemovalKinds
  <2>5. phase' \in {"flushing", "posting"} => \A i \in Nat : At(pressed, i)' \subseteq At(staged, i)'
    BY <2>1 DEF ApartInv, At
  <2> QED BY <1>2, <2>1, <2>3, <2>4, <2>5
<1>13. ASSUME NEW m \in wire, DeleteArrives(m) PROVE ApartInv'
  <2> DEFINE n == [m EXCEPT !.kind = "deleted"]
             k == m.index
  <2>1. /\ m.kind = "delete" /\ server' = WithoutEntry(server, k) /\ wire' = (wire \ {m}) \cup {n}
        /\ ~overlapped /\ ~inherited
        /\ UNCHANGED <<staged, timers, edits, removed, phase, pressed>>
    BY <1>13 DEF DeleteArrives, client, submit, bounds, history
  <2>2. n.kind = "deleted" /\ n.index = k /\ n.answers = m.answers
    BY <1>1 DEF Requests
  <2>3. /\ wire = {m} /\ phase = "editing" /\ m.answers = At(staged, k)
        /\ \A t \in timers : t.index < k
    BY <2>1 DEF RemovalAlone, RemovalKinds
  <2>4. wire' = {n}
    BY <2>1, <2>3
  <2> HIDE DEF n
  <2>5. Apart(staged, removed) /\ \A x : (\E i \in Nat : Holds(staged, x, i)) \/ x \in removed => x \in 1 .. edits
    BY <2>1, <2>3 DEF ApartInv
  <2> DEFINE without == WithoutEntry(staged, k)
  <2>6. \A j \in Index : At(WithoutEntry(server, k), j) = At(server, Before(k, j)) /\ At(without, j) = At(staged, Before(k, j))
    BY <1>1, WithoutIs
  <2>7. server' \in Entries /\ without \in Entries /\ without' = without
    BY <1>1, <2>1, WithoutIs DEF TypeInv, RowType, WithoutEntry
  <2> HIDE DEF without
  <2>8. \A x : \A j \in Nat : Holds(without, x, j)' => j \in Index
    <3>1. \A f \in Entries : \A x, j : x \in At(f, j) => j \in Index
      BY EntriesAre, AtIs
    <3>2. \A t \in timers : t.index \in Index
      BY DEF TypeInv, TimerType, Timers
    <3> QED BY <2>1, <2>2, <2>4, <2>7, <3>1, <3>2 DEF Holds, SaveKinds
  <2>9. \A x : \A j \in Index : Holds(without, x, j)' => Holds(staged, x, Before(k, j))
    <3> TAKE x
    <3> TAKE j \in Index
    <3>1. CASE x \in At(server, j)' \/ x \in At(without, j)'
      BY <2>1, <2>6, <2>7, <3>1 DEF Holds, At
    <3>2. ASSUME NEW t \in timers, t.index = j, x \in t.answers PROVE Holds(staged, x, Before(k, j))
      <4>1. Before(k, j) = j
        BY <2>3, <3>2 DEF Before
      <4> QED BY <3>2, <4>1 DEF Holds
    <3> QED BY <2>1, <2>2, <2>4, <3>1, <3>2 DEF Holds, SaveKinds
  <2>10. Apart(without, removed \cup n.answers)'
    <3>1. ASSUME NEW x, NEW i \in Nat, NEW j \in Nat, Holds(without, x, i)', Holds(without, x, j)' PROVE i = j
      <4>1. i \in Index /\ j \in Index
        BY <2>8, <3>1
      <4>2. Holds(staged, x, Before(k, i)) /\ Holds(staged, x, Before(k, j))
        BY <2>9, <3>1, <4>1
      <4>3. Before(k, i) = Before(k, j)
        BY <1>1, <2>5, <4>1, <4>2, BeforeIs DEF Apart
      <4> QED BY <1>1, <4>1, <4>3, BeforeIs
    <3>2. ASSUME NEW x \in removed \cup m.answers, NEW i \in Nat, Holds(without, x, i)' PROVE FALSE
      <4>1. i \in Index
        BY <2>8, <3>2
      <4>2. Holds(staged, x, Before(k, i)) /\ Before(k, i) # k /\ Before(k, i) \in Nat
        BY <1>1, <2>9, <3>2, <4>1, BeforeIs
      <4>3. x \in removed => FALSE
        BY <2>5, <4>2 DEF Apart
      <4>4. x \in At(staged, k) => Holds(staged, x, k)
        BY DEF Holds
      <4>5. x \in At(staged, k) => FALSE
        BY <1>1, <2>5, <4>2, <4>4 DEF Apart
      <4> QED BY <2>3, <3>2, <4>3, <4>5
    <3> QED BY <2>1, <2>2, <3>1, <3>2 DEF Apart
  <2>11. \A x : (\E i \in Nat : Holds(staged, x, i)') => \E i \in Nat : Holds(staged, x, i)
    <3> TAKE x
    <3>1. ASSUME NEW i \in Nat, x \in At(server', i) PROVE \E j \in Nat : Holds(staged, x, j)
      <4>1. i \in Index
        BY <2>7, <3>1, EntriesAre, AtIs
      <4>2. x \in At(server, Before(k, i))
        BY <2>1, <2>6, <3>1, <4>1
      <4>3. Before(k, i) \in Nat
        BY <1>1, <4>1, BeforeIs
      <4> QED BY <4>2, <4>3 DEF Holds
    <3>2. ASSUME NEW i \in Nat, Holds(staged, x, i)', x \notin At(server', i) PROVE Holds(staged, x, i)
      BY <2>1, <2>2, <2>4, <3>2 DEF Holds, SaveKinds
    <3> QED BY <3>1, <3>2
  <2>12. Apart(WithoutEntry(staged, n.index), removed \cup n.answers)'
    BY <2>2, <2>10 DEF without
  <2> QED BY <2>1, <2>2, <2>3, <2>4, <2>5, <2>11, <2>12 DEF ApartInv
<1>14. ASSUME NEW m \in wire, ResetArrives(m) PROVE ApartInv'
  <2> DEFINE n == [m EXCEPT !.kind = "emptied"]
  <2>1. /\ m.kind = "reset" /\ server' = Nothing /\ wire' = (wire \ {m}) \cup {n}
        /\ ~overlapped /\ ~inherited
        /\ UNCHANGED <<staged, timers, edits, removed, phase, pressed>>
    BY <1>14 DEF ResetArrives, client, submit, bounds, history
  <2>2. n.kind = "emptied" /\ n.answers = m.answers
    BY <1>1 DEF Requests
  <2>3. wire = {m} /\ phase = "editing" /\ timers = {}
    BY <2>1 DEF RemovalAlone, RemovalKinds
  <2>4. wire' = {n}
    BY <2>1, <2>3
  <2> HIDE DEF n
  <2>5. \A i : At(server, i)' = {} /\ At(Nothing, i)' = {}
    BY <2>1, NothingIs DEF At, Nothing
  <2>6. \A x : \A i \in Nat : ~Holds(Nothing, x, i)'
    BY <2>1, <2>2, <2>3, <2>4, <2>5 DEF Holds, SaveKinds
  <2>7. Apart(Nothing, removed \cup n.answers)'
    BY <2>6 DEF Apart
  <2>8. \A x : \A i \in Nat : Holds(staged, x, i)' => Holds(staged, x, i)
    BY <2>1, <2>2, <2>3, <2>4, <2>5 DEF Holds, At, SaveKinds
  <2>9. \A x : (\E i \in Nat : Holds(staged, x, i)') \/ x \in removed' => x \in 1 .. edits'
    BY <2>1, <2>8 DEF ApartInv
  <2> QED BY <2>1, <2>2, <2>3, <2>4, <2>7, <2>9 DEF ApartInv
<1>15. ASSUME NEW m \in wire, RemovalRefused(m) \/ RemovalLost(m) PROVE ApartInv'
  <2>1. /\ m.kind \in {"delete", "reset"} /\ wire' = wire \ {m} /\ ~overlapped /\ ~inherited
        /\ UNCHANGED <<server, staged, timers, edits, removed, phase, pressed>>
    <3>1. CASE RemovalRefused(m)
      BY <3>1 DEF RemovalRefused, client, submit, bounds, history
    <3>2. CASE RemovalLost(m)
      BY <3>2 DEF RemovalLost, client, submit
    <3> QED BY <1>15, <3>1, <3>2
  <2>2. wire = {m} /\ phase = "editing"
    BY <2>1 DEF RemovalAlone, RemovalKinds
  <2>3. \A x : \A i \in Nat : Holds(staged, x, i)' => Holds(staged, x, i)
    BY <2>1 DEF Holds, At
  <2> QED BY <1>2, <2>1, <2>2, <2>3
<1>16. \/ Calm /\ Proceeds
       \/ \E kind \in SaveKinds, i \in Index, answers \in Answers : Sends(kind, i, answers)
       \/ \E i \in Index : Type(i) \/ Remove(i)
       \/ Reset \/ PressSubmit \/ Reload
       \/ \E m \in wire : \/ RemovalReturns(m) \/ SaveArrives(m) \/ SaveFails(m) \/ DeleteArrives(m)
                          \/ ResetArrives(m) \/ RemovalRefused(m) \/ RemovalLost(m)
  BY StepIs
<1> QED BY <1>3, <1>4, <1>5, <1>6, <1>7, <1>8, <1>9, <1>10, <1>11, <1>12, <1>13, <1>14, <1>15, <1>16

LEMMA ApartHolds == Spec => [](TypeInv /\ RemovalAlone /\ ApartInv)
<1>1. Init => TypeInv /\ RemovalAlone /\ ApartInv
  BY TypeInit, RemovalInit, ApartInit, AutosaveAssumption
<1>2. TypeInv /\ RemovalAlone /\ ApartInv /\ [Next]_vars => (TypeInv /\ RemovalAlone /\ ApartInv)'
  BY TypeStep, RemovalStep, ApartStep, AutosaveAssumption
<1> QED BY <1>1, <1>2, PTL DEF Spec

LEMMA RemovedIsGone == TypeInv /\ ApartInv => RemovedStaysRemoved
<1> SUFFICES ASSUME TypeInv, ApartInv, ~overlapped, ~inherited,
                    NEW x \in removed, x \in UNION Range(server)
             PROVE  FALSE
  BY DEF RemovedStaysRemoved
<1>1. PICK i \in Nat : x \in At(server, i)
  <2>1. server \in Entries
    BY DEF TypeInv, RowType
  <2>2. \E i \in Index : x \in At(server, i)
    BY <2>1, RangeIs
  <2> QED BY <2>2 DEF Index
<1>2. \A drafts : Holds(drafts, x, i)
  BY <1>1 DEF Holds
<1>3. \E drafts, gone : Apart(drafts, gone) /\ x \in gone
  BY DEF ApartInv
<1> QED BY <1>2, <1>3 DEF Apart

\* Answers of a removed entry do not come back to the server, by the timer that
\* was pending for it or by a save that was late, unless the removal overlapped
\* with other pending work or a card was edited that did not show its own draft.
THEOREM RemovedStaysRemovedAlways == Spec => []RemovedStaysRemoved
BY ApartHolds, RemovedIsGone, PTL

-----------------------------------------------------------------------------
(* What the server has staged.                                             *)

NoTimer(i) == \A t \in timers : t.index # i
NotRemoving(i) == \A m \in wire : ~(m.kind = "delete" /\ m.index = i)
NotInFlight(i) == \A m \in wire : ~(m.kind \in SaveKinds /\ m.index = i)
SaveOf(m, i) == m.kind \in SaveKinds /\ m.index = i

\* An entry whose last save counts has at most one save under way; when no timer
\* ticks for it and it is not being removed, that save carries its draft or, if
\* there is none, the server has its draft.
EntrySaved(i) ==
    /\ \A m, n \in wire : SaveOf(m, i) /\ SaveOf(n, i) => m = n
    /\ (\A m \in wire : m.kind \notin {"deleted", "emptied"}) /\ NoTimer(i) /\ NotRemoving(i) =>
          /\ NotInFlight(i) => At(server, i) = At(staged, i)
          /\ \A m \in wire : SaveOf(m, i) => m.answers = At(staged, i)

\* While the reply of a removal is awaited the server has what the drafts will be.
StagedInv ==
    ~overlapped /\ filed = {} =>
        /\ \A i \in Index \ suspect : EntrySaved(i)
        /\ \A m \in wire : m.kind = "deleted" =>
              \A j \in Index : Before(m.index, j) \notin suspect /\ NoTimer(j) =>
                  At(server, j) = At(WithoutEntry(staged, m.index), j)
        /\ \A m \in wire : m.kind = "emptied" => server = Nothing

LEMMA StagedInit == AutosaveAssumption /\ Init => StagedInv
BY DEF Init, StagedInv, EntrySaved

LEMMA StagedStep ==
    AutosaveAssumption /\ TypeInv /\ RemovalAlone /\ StagedInv /\ [Next]_vars => StagedInv'
<1> SUFFICES ASSUME AutosaveAssumption, TypeInv, RemovalAlone, StagedInv, [Next]_vars,
                    ~overlapped', filed' = {}
             PROVE  StagedInv'
  BY DEF StagedInv
<1>1. /\ wire \subseteq Requests /\ staged \in Entries /\ server \in Entries /\ suspect \subseteq Index
      /\ \A kind \in SaveKinds : kind \notin RemovalKinds
      /\ \A m \in wire : m.index \in Index /\ m.answers \in Answers /\ (m.kind \in SaveKinds \/ m.kind \in RemovalKinds)
      /\ Index \subseteq Nat
  <2>1. wire \subseteq Requests /\ staged \in Entries /\ server \in Entries /\ suspect \subseteq Index
    BY DEF TypeInv, WireType, ClientType, RowType
  <2>2. \A kind \in SaveKinds : kind \notin RemovalKinds
    BY DEF SaveKinds, RemovalKinds
  <2>3. \A m \in wire : m.index \in Index /\ m.answers \in Answers /\ (m.kind \in SaveKinds \/ m.kind \in RemovalKinds)
    BY <2>1 DEF Requests, SaveKinds, RemovalKinds
  <2> QED BY <2>1, <2>2, <2>3, CardsAre
<1>2. ASSUME \A i \in Index \ suspect' : EntrySaved(i)', \A m \in wire' : m.kind \notin {"deleted", "emptied"}
      PROVE  StagedInv'
  BY <1>2 DEF StagedInv
<1>3. CASE Calm /\ Proceeds
  <2>1. ~overlapped /\ filed = {} /\ UNCHANGED <<server, staged, timers, wire, suspect>>
    BY <1>3 DEF Calm, Proceeds
  <2> QED BY <2>1 DEF StagedInv, EntrySaved, NoTimer, NotRemoving, NotInFlight, At, WithoutEntry
<1>4. ASSUME NEW kind \in SaveKinds, NEW k \in Index, NEW answers \in Answers, Sends(kind, k, answers)
      PROVE  StagedInv'
  <2> DEFINE new == Save(kind, k, answers)
  <2>1. new.kind \in SaveKinds /\ new.index = k /\ new.answers = answers
    BY MessagesAre
  <2>2. /\ wire' = wire \cup {new} /\ ~overlapped /\ ~Renumbering /\ filed = {}
        /\ UNCHANGED <<server, staged>> /\ Sent(k, answers)
        /\ \A t : t.index # k => (t \in timers <=> t \in timers')
    BY <1>4 DEF Sends
  <2> HIDE DEF new
  <2>3. \A m \in wire' : m.kind \in SaveKinds
    BY <1>1, <2>1, <2>2 DEF Renumbering, RemovalKinds
  <2>4. ASSUME NEW i \in Index \ suspect' PROVE EntrySaved(i)'
    <3>1. CASE i = k
      <4>1. ~InFlight(k) /\ answers = At(staged, k)
        BY <2>2, <3>1 DEF Sent
      <4>2. \A m \in wire' : SaveOf(m, i) => m = new
        BY <2>2, <3>1, <4>1 DEF InFlight, SaveOf
      <4>3. ~NotInFlight(i)'
        BY <2>1, <2>2, <3>1 DEF NotInFlight
      <4> QED BY <2>1, <2>2, <3>1, <4>1, <4>2, <4>3 DEF EntrySaved, SaveOf, At
    <3>2. CASE i # k
      <4>1. i \in Index \ suspect
        BY <2>2, <3>2 DEF Sent
      <4>2. EntrySaved(i)
        BY <2>2, <4>1 DEF StagedInv
      <4>3. NoTimer(i)' => NoTimer(i)
        BY <2>2, <3>2 DEF NoTimer
      <4>4. \A m : SaveOf(m, i) => (m \in wire <=> m \in wire')
        BY <2>1, <2>2, <3>2 DEF SaveOf
      <4>5. NotRemoving(i) /\ \A m \in wire : m.kind \notin {"deleted", "emptied"}
        BY <2>2 DEF Renumbering, NotRemoving
      <4>6. NotInFlight(i)' => NotInFlight(i)
        BY <4>4 DEF NotInFlight, SaveOf
      <4> QED BY <2>2, <4>2, <4>3, <4>4, <4>5, <4>6 DEF EntrySaved, At
    <3> QED BY <3>1, <3>2
  <2> QED BY <1>1, <1>2, <2>3, <2>4 DEF RemovalKinds
<1>5. ASSUME NEW k \in Index, Type(k) PROVE StagedInv'
  <2> DEFINE answers == runner[k] \cup {edits + 1}
             new == [index |-> k, answers |-> answers, at |-> edits + 1, tracked |-> TRUE]
  <2>1. answers \in Answers /\ new.index = k
    BY <1>5, EntriesAre DEF Type, TypeInv, ClientType, Answers, AutosaveAssumption
  <2>2. /\ staged' = Put(staged, k, answers) /\ ~overlapped /\ ~Renumbering /\ filed = {}
        /\ timers' = {t \in timers : ~(t.tracked /\ t.index = k)} \cup {new}
        /\ UNCHANGED <<server, wire, suspect>>
    BY <1>5 DEF Type
  <2> HIDE DEF new, answers
  <2>3. \A i : i # k => At(staged', i) = At(staged, i)
    <3>1. \A i : i # k => At(Put(staged, k, answers), i) = At(staged, i)
      BY <1>1, <2>1, PutIs
    <3> QED BY <2>2, <3>1
  <2>4. \A m \in wire : m.kind \notin {"deleted", "emptied"}
    BY <2>2 DEF Renumbering
  <2>5. ASSUME NEW i \in Index \ suspect' PROVE EntrySaved(i)'
    <3>1. EntrySaved(i)
      BY <2>2 DEF StagedInv
    <3>2. NotRemoving(i)
      BY <2>2 DEF Renumbering, NotRemoving
    <3>3. NoTimer(i)' => i # k /\ NoTimer(i)
      BY <2>1, <2>2 DEF NoTimer
    <3> QED BY <2>2, <2>3, <2>4, <3>1, <3>2, <3>3 DEF EntrySaved, NotInFlight
  <2> QED BY <1>2, <2>2, <2>4, <2>5
<1>6. ASSUME NEW k \in Index, Remove(k) PROVE StagedInv'
  <2> DEFINE m == Message("delete", k, At(staged, k))
  <2>1. /\ wire = {} /\ ~overlapped /\ filed = {} /\ wire' = {m}
        /\ timers' = {t \in timers : ~(t.tracked /\ t.index = k)}
        /\ UNCHANGED <<server, staged, suspect>>
    BY <1>6 DEF Remove
  <2>2. m.kind = "delete" /\ m.index = k
    BY DEF Message
  <2> HIDE DEF m
  <2>3. ASSUME NEW i \in Index \ suspect' PROVE EntrySaved(i)'
    <3>1. EntrySaved(i)
      BY <2>1 DEF StagedInv
    <3>2. NotRemoving(i)' => i # k
      BY <2>1, <2>2 DEF NotRemoving
    <3>3. i # k /\ NoTimer(i)' => NoTimer(i)
      BY <2>1 DEF NoTimer
    <3>4. NotRemoving(i) /\ NotInFlight(i) /\ \A n : ~(n \in wire' /\ SaveOf(n, i))
      BY <2>1, <2>2 DEF NotRemoving, NotInFlight, SaveOf, SaveKinds
    <3> QED BY <2>1, <3>1, <3>2, <3>3, <3>4 DEF EntrySaved, At
  <2> QED BY <1>2, <2>1, <2>2, <2>3
<1>7. CASE Reset
  <2>1. PICK m : m.kind = "reset" /\ wire' = {m} /\ wire = {} /\ timers = {}
    BY <1>7 DEF Reset, Message
  <2>2. ~overlapped /\ filed = {} /\ UNCHANGED <<server, staged, suspect, timers>>
    BY <1>7 DEF Reset, client
  <2>3. ASSUME NEW i \in Index \ suspect' PROVE EntrySaved(i)'
    <3>1. EntrySaved(i) /\ NoTimer(i) /\ NotRemoving(i) /\ NotInFlight(i)
      BY <2>1, <2>2 DEF StagedInv, NoTimer, NotRemoving, NotInFlight
    <3>2. \A n : ~(n \in wire' /\ SaveOf(n, i))
      BY <2>1 DEF SaveOf, SaveKinds
    <3> QED BY <2>1, <2>2, <3>1, <3>2 DEF EntrySaved, At
  <2> QED BY <1>2, <2>1, <2>3
<1>8. CASE PressSubmit
  <2>1. ~overlapped /\ filed = {} /\ UNCHANGED <<server, staged, timers, wire, suspect>>
    BY <1>8 DEF PressSubmit, client
  <2> QED BY <2>1 DEF StagedInv, EntrySaved, NoTimer, NotRemoving, NotInFlight, At, WithoutEntry
<1>9. CASE Reload
  <2> DEFINE F(m) == IF m.kind \in SaveKinds THEN [m EXCEPT !.kind = "save"] ELSE m
  <2>1. /\ wire' = {F(m) : m \in {n \in wire : n.kind \notin {"deleted", "emptied"}}}
        /\ staged' = server /\ ~Renumbering /\ suspect' = {i \in Index : InFlight(i)}
        /\ server' = server
    BY <1>9 DEF Reload
  <2>2. \A m \in wire : m.kind \in SaveKinds
    BY <1>1, <2>1 DEF Renumbering, RemovalKinds
  <2>3. \A m \in wire : F(m).kind = "save" /\ F(m).index = m.index
    BY <1>1, <2>2 DEF Requests
  <2> HIDE DEF F
  <2>4. \A n \in wire' : n.kind = "save" /\ \E m \in wire : m.kind \in SaveKinds /\ n.index = m.index
    BY <2>1, <2>2, <2>3
  <2>5. ASSUME NEW i \in Index \ suspect' PROVE EntrySaved(i)'
    <3>1. \A n \in wire' : ~SaveOf(n, i)
      BY <2>1, <2>4 DEF InFlight, SaveOf
    <3> QED BY <2>1, <3>1 DEF EntrySaved, At
  <2> QED BY <1>2, <2>4, <2>5
<1>10. ASSUME NEW m \in wire, RemovalReturns(m) PROVE StagedInv'
  <2>1. wire' = wire \ {m} /\ ~overlapped /\ filed = {} /\ UNCHANGED <<server, timers>>
    BY <1>10 DEF RemovalReturns
  <2>2. m.kind \in {"deleted", "emptied"}
    BY <1>10 DEF RemovalReturns, ClosesUp, EmptiesDrafts
  <2>3. wire = {m} /\ wire' = {}
    BY <2>1, <2>2 DEF RemovalAlone, RemovalKinds
  <2>4. ASSUME NEW i \in Index \ suspect', NoTimer(i) PROVE At(server, i) = At(staged', i)
    <3>1. CASE ClosesUp(m)
      <4>1. m.kind = "deleted" /\ staged' = WithoutEntry(staged, m.index) /\ suspect' = ClosedUp(suspect, m.index)
        BY <3>1 DEF ClosesUp
      <4>2. Before(m.index, i) \notin suspect
        BY <4>1 DEF ClosedUp
      <4> QED BY <2>1, <2>4, <4>1, <4>2 DEF StagedInv
    <3>2. CASE EmptiesDrafts(m)
      BY <2>1, <3>2 DEF EmptiesDrafts, StagedInv
    <3> QED BY <1>10, <3>1, <3>2 DEF RemovalReturns
  <2>5. ASSUME NEW i \in Index \ suspect' PROVE EntrySaved(i)'
    BY <2>1, <2>3, <2>4 DEF EntrySaved, NoTimer, At
  <2> QED BY <1>2, <2>3, <2>5
<1>11. ASSUME NEW m \in wire, SaveArrives(m) PROVE StagedInv'
  <2>1. /\ m.kind \in SaveKinds /\ server' = Put(server, m.index, m.answers) /\ wire' = wire \ {m}
        /\ filed = {} /\ ~overlapped /\ UNCHANGED <<staged, timers, suspect>>
    BY <1>11 DEF SaveArrives, Returns, history
  <2>2. \A n \in wire : n.kind \in SaveKinds
    BY <1>1, <2>1 DEF RemovalAlone
  <2>3. At(server', m.index) = m.answers /\ \A i : i # m.index => At(server', i) = At(server, i)
    <3>1. server \in Entries /\ m.index \in Index /\ m.answers \in Answers
      BY <1>1
    <3>2. /\ At(Put(server, m.index, m.answers), m.index) = m.answers
          /\ \A i : i # m.index => At(Put(server, m.index, m.answers), i) = At(server, i)
      BY <3>1, PutIs
    <3> QED BY <2>1, <3>2
  <2>4. \A n \in wire : n.kind \notin {"deleted", "emptied", "delete"}
    BY <1>1, <2>2 DEF RemovalKinds
  <2>5. ASSUME NEW i \in Index \ suspect' PROVE EntrySaved(i)'
    <3>1. EntrySaved(i) /\ NotRemoving(i)
      BY <2>1, <2>4 DEF StagedInv, NotRemoving
    <3>2. NoTimer(i)' => NoTimer(i)
      BY <2>1 DEF NoTimer
    <3>3. i # m.index => (NotInFlight(i)' => NotInFlight(i))
      BY <2>1 DEF NotInFlight
    <3>4. i = m.index => NotInFlight(i)' /\ SaveOf(m, i)
      BY <2>1, <3>1 DEF EntrySaved, SaveOf, NotInFlight
    <3>5. CASE i = m.index
      <4>1. NoTimer(i) => m.answers = At(staged, i)
        BY <2>4, <3>1, <3>4, <3>5 DEF EntrySaved
      <4> QED BY <2>1, <2>3, <3>2, <3>4, <3>5, <4>1 DEF EntrySaved, SaveOf, NotInFlight
    <3>6. CASE i # m.index
      BY <2>1, <2>3, <2>4, <3>1, <3>2, <3>3, <3>6 DEF EntrySaved
    <3> QED BY <3>5, <3>6
  <2> QED BY <1>2, <2>1, <2>4, <2>5
<1>12. ASSUME NEW m \in wire, SaveFails(m) PROVE StagedInv'
  <2>1. /\ m.kind \in SaveKinds /\ wire' = wire \ {m} /\ suspect' = suspect \cup {m.index}
        /\ filed = {} /\ ~overlapped /\ UNCHANGED <<server, staged, timers>>
    BY <1>12 DEF SaveFails
  <2>2. \A n \in wire : n.kind \in SaveKinds
    BY <1>1, <2>1 DEF RemovalAlone
  <2>3. \A n \in wire : n.kind \notin {"deleted", "emptied", "delete"}
    BY <1>1, <2>2 DEF RemovalKinds
  <2>4. ASSUME NEW i \in Index \ suspect' PROVE EntrySaved(i)'
    <3>1. EntrySaved(i) /\ NotRemoving(i) /\ i # m.index
      BY <2>1, <2>3, <2>4 DEF StagedInv, NotRemoving
    <3>2. (NoTimer(i)' => NoTimer(i)) /\ (NotInFlight(i)' => NotInFlight(i))
      BY <2>1, <3>1 DEF NoTimer, NotInFlight
    <3> QED BY <2>1, <2>3, <3>1, <3>2 DEF EntrySaved, At
  <2> QED BY <1>2, <2>1, <2>3, <2>4
<1>13. ASSUME NEW m \in wire, DeleteArrives(m) PROVE StagedInv'
  <2> DEFINE n == [m EXCEPT !.kind = "deleted"]
             k == m.index
  <2>1. /\ m.kind = "delete" /\ server' = WithoutEntry(server, k) /\ wire' = (wire \ {m}) \cup {n}
        /\ ~overlapped /\ filed = {} /\ UNCHANGED <<staged, timers, suspect>>
    BY <1>13 DEF DeleteArrives, client, history
  <2>2. n.kind = "deleted" /\ n.index = k
    BY <1>1 DEF Requests
  <2>3. wire = {m} /\ \A t \in timers : t.index < k
    BY <2>1 DEF RemovalAlone, RemovalKinds
  <2>4. wire' = {n}
    BY <2>1, <2>3
  <2> HIDE DEF n
  <2>5. ASSUME NEW j \in Index, Before(k, j) \notin suspect, NoTimer(j)
        PROVE  At(server', j) = At(WithoutEntry(staged, k), j)
    <3>1. At(server', j) = At(server, Before(k, j)) /\ At(WithoutEntry(staged, k), j) = At(staged, Before(k, j))
      BY <1>1, <2>1, WithoutIs
    <3>2. CASE Before(k, j) \notin Index
      BY <1>1, <3>1, <3>2, EntriesAre, AtIs
    <3>3. CASE Before(k, j) \in Index
      <4>1. NoTimer(Before(k, j))
        <5>1. CASE j < k
          BY <2>5, <5>1 DEF Before
        <5>2. CASE ~(j < k)
          <6>1. k \in Nat /\ j \in Nat /\ Before(k, j) = j + 1
            BY <1>1, <5>2 DEF Before
          <6>2. \A t \in timers : t.index \in Nat
            BY <1>1 DEF TypeInv, TimerType, Timers
          <6> QED BY <2>3, <5>2, <6>1, <6>2 DEF NoTimer
        <5> QED BY <5>1, <5>2
      <4>2. Before(k, j) # k
        BY <1>1, BeforeIs
      <4>3. NotRemoving(Before(k, j)) /\ NotInFlight(Before(k, j)) /\ \A o \in wire : o.kind \notin {"deleted", "emptied"}
        BY <2>1, <2>3, <4>2 DEF NotRemoving, NotInFlight, SaveKinds
      <4>4. EntrySaved(Before(k, j))
        BY <2>1, <2>5, <3>3 DEF StagedInv
      <4> QED BY <3>1, <4>1, <4>3, <4>4 DEF EntrySaved
    <3> QED BY <3>2, <3>3
  <2>6. \A i \in Index \ suspect' : EntrySaved(i)'
    BY <2>2, <2>4 DEF EntrySaved, SaveOf, SaveKinds
  <2>7. \A j \in Index : Before(k, j) \notin suspect' /\ NoTimer(j)' => At(server, j)' = At(WithoutEntry(staged, k), j)'
    BY <2>1, <2>5 DEF NoTimer, At, WithoutEntry
  <2> QED BY <2>2, <2>4, <2>6, <2>7 DEF StagedInv
<1>14. ASSUME NEW m \in wire, ResetArrives(m) PROVE StagedInv'
  <2> DEFINE n == [m EXCEPT !.kind = "emptied"]
  <2>1. m.kind = "reset" /\ server' = Nothing /\ wire' = (wire \ {m}) \cup {n} /\ ~overlapped
    BY <1>14 DEF ResetArrives, history
  <2>2. n.kind = "emptied"
    BY <1>1 DEF Requests
  <2>3. wire' = {n}
    BY <2>1 DEF RemovalAlone, RemovalKinds
  <2> HIDE DEF n
  <2>4. \A i \in Index \ suspect' : EntrySaved(i)'
    BY <2>2, <2>3 DEF EntrySaved, SaveOf, SaveKinds
  <2> QED BY <2>1, <2>2, <2>3, <2>4 DEF StagedInv, Nothing
<1>15. ASSUME NEW m \in wire, RemovalRefused(m) \/ RemovalLost(m) PROVE StagedInv'
  <2>1. CASE RemovalRefused(m)
    BY <2>1 DEF RemovalRefused
  <2>2. CASE RemovalLost(m)
    <3>1. /\ m.kind \in {"delete", "reset"} /\ wire' = wire \ {m} /\ ~overlapped /\ filed = {}
          /\ suspect' = IF m.kind = "delete" THEN suspect \cup {m.index} ELSE suspect
          /\ UNCHANGED <<server, staged, timers>>
      BY <2>2 DEF RemovalLost, client
    <3>2. wire = {m} /\ wire' = {}
      BY <3>1 DEF RemovalAlone, RemovalKinds
    <3>3. ASSUME NEW i \in Index \ suspect' PROVE EntrySaved(i)'
      <4>1. EntrySaved(i)
        BY <3>1 DEF StagedInv
      <4>2. NotRemoving(i) /\ NotInFlight(i) /\ (NoTimer(i)' => NoTimer(i)) /\ \A n \in wire : n.kind \notin {"deleted", "emptied"}
        BY <3>1, <3>2, <3>3 DEF NotRemoving, NotInFlight, NoTimer, SaveKinds
      <4> QED BY <3>1, <3>2, <4>1, <4>2 DEF EntrySaved, At
    <3> QED BY <1>2, <3>2, <3>3
  <2> QED BY <1>15, <2>1, <2>2
<1>16. \/ Calm /\ Proceeds
       \/ \E kind \in SaveKinds, i \in Index, answers \in Answers : Sends(kind, i, answers)
       \/ \E i \in Index : Type(i) \/ Remove(i)
       \/ Reset \/ PressSubmit \/ Reload
       \/ \E m \in wire : \/ RemovalReturns(m) \/ SaveArrives(m) \/ SaveFails(m) \/ DeleteArrives(m)
                          \/ ResetArrives(m) \/ RemovalRefused(m) \/ RemovalLost(m)
  BY StepIs
<1> QED BY <1>3, <1>4, <1>5, <1>6, <1>7, <1>8, <1>9, <1>10, <1>11, <1>12, <1>13, <1>14, <1>15, <1>16

LEMMA StagedHolds == Spec => [](TypeInv /\ RemovalAlone /\ StagedInv)
<1>1. Init => TypeInv /\ RemovalAlone /\ StagedInv
  BY TypeInit, RemovalInit, StagedInit, AutosaveAssumption
<1>2. TypeInv /\ RemovalAlone /\ StagedInv /\ [Next]_vars => (TypeInv /\ RemovalAlone /\ StagedInv)'
  BY TypeStep, RemovalStep, StagedStep, AutosaveAssumption
<1> QED BY <1>1, <1>2, PTL DEF Spec

\* When nothing is pending or under way the server has staged exactly what the
\* drafts hold, unless the last save of the entry was lost, refused, overtaken
\* or carried older answers, or a removal overlapped with pending work.
THEOREM ServerHasDraftsAlways == Spec => []ServerHasDrafts
<1>1. StagedInv => ServerHasDrafts
  BY DEF StagedInv, EntrySaved, ServerHasDrafts, Quiet, NoTimer, NotRemoving, NotInFlight
<1> QED BY <1>1, StagedHolds, PTL

-----------------------------------------------------------------------------
(* What submit files.                                                      *)

\* While a submit is worked through, an entry that it has nothing left to flush
\* for, and no timer of which was forgotten, is on the server as it was when
\* Submit was pressed, or newer; or the save under way will put it there.
PressedInv ==
    ~overlapped /\ ~inherited /\ filed = {} /\ phase \in {"flushing", "posting"} =>
        \A i \in Index \ suspect :
            (\A p \in left : p.index # i) /\ (\A t \in timers : t.index = i => t.tracked) =>
                /\ NotInFlight(i) => At(pressed, i) \subseteq At(server, i)
                /\ \A m \in wire : SaveOf(m, i) => At(pressed, i) \subseteq m.answers

LEMMA PressedStep ==
    /\ AutosaveAssumption /\ TypeInv /\ RemovalAlone
    /\ ApartInv /\ ApartInv' /\ StagedInv /\ PressedInv /\ [Next]_vars
    => PressedInv'
<1> SUFFICES ASSUME AutosaveAssumption, TypeInv, RemovalAlone, ApartInv, ApartInv', StagedInv, PressedInv, [Next]_vars,
                    ~overlapped', ~inherited', filed' = {}, phase' \in {"flushing", "posting"}
             PROVE  PressedInv'
  BY DEF PressedInv
<1>1. /\ wire \subseteq Requests /\ staged \in Entries /\ server \in Entries /\ pressed \in Entries
      /\ \A kind \in SaveKinds : kind \notin RemovalKinds
      /\ \A m \in wire : m.index \in Index /\ m.answers \in Answers /\ (m.kind \in SaveKinds \/ m.kind \in RemovalKinds)
      /\ Index \subseteq Nat
  <2>1. wire \subseteq Requests /\ staged \in Entries /\ server \in Entries /\ pressed \in Entries
    BY DEF TypeInv, WireType, ClientType, RowType
  <2>2. \A kind \in SaveKinds : kind \notin RemovalKinds
    BY DEF SaveKinds, RemovalKinds
  <2>3. \A m \in wire : m.index \in Index /\ m.answers \in Answers /\ (m.kind \in SaveKinds \/ m.kind \in RemovalKinds)
    BY <2>1 DEF Requests, SaveKinds, RemovalKinds
  <2> QED BY <2>1, <2>2, <2>3, CardsAre
<1>2. \/ phase \in {"flushing", "posting"}
      \/ PressSubmit
  <2>1. CASE Calm /\ Proceeds
    BY <2>1 DEF Proceeds
  <2>2. CASE \E kind \in SaveKinds, i \in Index, answers \in Answers : Sends(kind, i, answers)
    BY <2>2 DEF Sends
  <2>3. ASSUME NEW i \in Index, Type(i) \/ Remove(i) PROVE phase \in {"flushing", "posting"}
    BY <2>3 DEF Type, Remove, submit
  <2>4. CASE Reset \/ Reload
    BY <2>4 DEF Reset, Reload, submit
  <2>5. ASSUME NEW m \in wire, RemovalReturns(m) \/ SaveArrives(m) \/ SaveFails(m) \/ DeleteArrives(m)
        PROVE  phase \in {"flushing", "posting"}
    BY <2>5 DEF RemovalReturns, SaveArrives, SaveFails, DeleteArrives, submit
  <2>6. ASSUME NEW m \in wire, ResetArrives(m) \/ RemovalRefused(m) \/ RemovalLost(m)
        PROVE  phase \in {"flushing", "posting"}
    BY <2>6 DEF ResetArrives, RemovalRefused, RemovalLost, submit
  <2> QED BY <2>1, <2>2, <2>3, <2>4, <2>5, <2>6, StepIs
<1>3. ASSUME phase \in {"flushing", "posting"}, ~overlapped, ~inherited
      PROVE  /\ \A m \in wire : m.kind \in SaveKinds
             /\ \A i \in Nat : At(pressed, i) \subseteq At(staged, i)
  BY <1>1, <1>3 DEF RemovalAlone, ApartInv
<1>4. CASE PressSubmit
  <2>1. /\ ~overlapped /\ ~Renumbering /\ filed = {} /\ pressed' = staged
        /\ left' = {[index |-> t.index, at |-> t.at] : t \in {u \in timers : u.tracked}}
        /\ UNCHANGED <<server, staged, timers, wire, suspect>>
    BY <1>4 DEF PressSubmit, client
  <2>2. ASSUME NEW i \in Index \ suspect, \A p \in left' : p.index # i, \A t \in timers : t.index = i => t.tracked
        PROVE  /\ NotInFlight(i) => At(staged, i) = At(server, i)
               /\ \A m \in wire : SaveOf(m, i) => At(staged, i) = m.answers
    <3>1. NoTimer(i)
      <4>1. ASSUME NEW t \in timers, t.index = i PROVE FALSE
        <5>1. t.tracked
          BY <2>2, <4>1
        <5>2. [index |-> t.index, at |-> t.at] \in left'
          BY <2>1, <5>1
        <5> QED BY <2>2, <4>1, <5>2
      <4> QED BY <4>1 DEF NoTimer
    <3>2. NotRemoving(i) /\ \A m \in wire : m.kind \notin {"deleted", "emptied"}
      BY <2>1 DEF Renumbering, NotRemoving
    <3>3. EntrySaved(i)
      BY <2>1 DEF StagedInv
    <3> QED BY <3>1, <3>2, <3>3 DEF EntrySaved
  <2> QED BY <2>1, <2>2 DEF PressedInv, NotInFlight, At
<1>5. CASE Calm /\ Proceeds
  <2>1. /\ ~overlapped /\ ~inherited /\ UNCHANGED <<server, timers, wire, suspect>>
        /\ filed = {} /\ left' = left /\ pressed' = pressed /\ phase \in {"flushing", "posting"}
    BY <1>5 DEF Calm, Proceeds
  <2> QED BY <2>1 DEF PressedInv, NotInFlight, At
<1>6. ASSUME NEW kind \in SaveKinds, NEW k \in Index, NEW answers \in Answers, Sends(kind, k, answers)
      PROVE  PressedInv'
  <2> DEFINE new == Save(kind, k, answers)
  <2>1. new.kind \in SaveKinds /\ new.index = k /\ new.answers = answers
    BY MessagesAre
  <2>2. /\ wire' = wire \cup {new} /\ ~overlapped /\ ~inherited /\ filed = {}
        /\ UNCHANGED <<server, staged, phase, pressed>> /\ Sent(k, answers)
        /\ \A t : t.index # k => (t \in timers <=> t \in timers')
        /\ \A p \in left : p.index # k => p \in left'
    BY <1>6 DEF Sends
  <2> HIDE DEF new
  <2>3. ASSUME NEW i \in Index \ suspect', \A p \in left' : p.index # i, \A t \in timers' : t.index = i => t.tracked
        PROVE  /\ NotInFlight(i)' => At(pressed, i) \subseteq At(server, i)
               /\ \A m \in wire' : SaveOf(m, i) => At(pressed, i) \subseteq m.answers
    <3>1. CASE i = k
      <4>1. ~InFlight(k) /\ answers = At(staged, k)
        BY <2>2, <2>3, <3>1 DEF Sent
      <4>2. \A m \in wire' : SaveOf(m, i) => m = new
        BY <2>2, <3>1, <4>1 DEF InFlight, SaveOf
      <4>3. ~NotInFlight(i)'
        BY <2>1, <2>2, <3>1 DEF NotInFlight
      <4>4. At(pressed, i) \subseteq answers
        BY <1>1, <1>3, <2>2, <3>1, <4>1
      <4> QED BY <2>1, <4>2, <4>3, <4>4
    <3>2. CASE i # k
      <4>1. i \in Index \ suspect
        BY <2>2, <2>3, <3>2 DEF Sent
      <4>2. (\A p \in left : p.index # i) /\ (\A t \in timers : t.index = i => t.tracked)
        BY <2>2, <2>3, <3>2
      <4>3. \A m : SaveOf(m, i) => (m \in wire <=> m \in wire')
        BY <2>1, <2>2, <3>2 DEF SaveOf
      <4>4. NotInFlight(i)' => NotInFlight(i)
        BY <4>3 DEF NotInFlight, SaveOf
      <4> QED BY <2>2, <4>1, <4>2, <4>3, <4>4 DEF PressedInv
    <3> QED BY <3>1, <3>2
  <2> QED BY <2>2, <2>3 DEF PressedInv, At
<1>7. ASSUME NEW k \in Index, Type(k), phase \in {"flushing", "posting"} PROVE PressedInv'
  <2>1. /\ ~overlapped /\ ~inherited /\ filed = {}
        /\ UNCHANGED <<server, wire, suspect, left, phase, pressed>>
        /\ \A t \in timers : (t.tracked /\ t.index = k) \/ t \in timers'
    BY <1>7 DEF Type, submit
  <2> QED BY <2>1, <1>7 DEF PressedInv, NotInFlight, At
<1>8. ASSUME NEW m \in wire, SaveArrives(m), phase \in {"flushing", "posting"} PROVE PressedInv'
  <2>1. /\ m.kind \in SaveKinds /\ server' = Put(server, m.index, m.answers) /\ wire' = wire \ {m}
        /\ filed = {} /\ ~overlapped /\ ~inherited
        /\ UNCHANGED <<staged, timers, suspect, left, phase, pressed>>
    BY <1>8 DEF SaveArrives, Returns, submit, history
  <2>2. At(server', m.index) = m.answers /\ \A i : i # m.index => At(server', i) = At(server, i)
    <3>1. server \in Entries /\ m.index \in Index /\ m.answers \in Answers
      BY <1>1
    <3>2. /\ At(Put(server, m.index, m.answers), m.index) = m.answers
          /\ \A i : i # m.index => At(Put(server, m.index, m.answers), i) = At(server, i)
      BY <3>1, PutIs
    <3> QED BY <2>1, <3>2
  <2>3. ASSUME NEW i \in Index \ suspect, \A p \in left : p.index # i, \A t \in timers : t.index = i => t.tracked
        PROVE  /\ NotInFlight(i)' => At(pressed, i) \subseteq At(server', i)
               /\ \A n \in wire' : SaveOf(n, i) => At(pressed, i) \subseteq n.answers
    <3>1. /\ NotInFlight(i) => At(pressed, i) \subseteq At(server, i)
          /\ \A n \in wire : SaveOf(n, i) => At(pressed, i) \subseteq n.answers
      BY <1>8, <2>1, <2>3 DEF PressedInv
    <3>2. CASE i = m.index
      BY <2>1, <2>2, <3>1, <3>2 DEF SaveOf
    <3>3. CASE i # m.index
      <4>1. NotInFlight(i)' => NotInFlight(i)
        BY <2>1, <3>3 DEF NotInFlight
      <4> QED BY <2>1, <2>2, <3>1, <3>3, <4>1
    <3> QED BY <3>2, <3>3
  <2> QED BY <2>1, <2>3 DEF PressedInv, At
<1>9. ASSUME NEW m \in wire, SaveFails(m), phase \in {"flushing", "posting"} PROVE PressedInv'
  <2>1. /\ m.kind \in SaveKinds /\ wire' = wire \ {m} /\ suspect' = suspect \cup {m.index}
        /\ filed = {} /\ ~overlapped /\ ~inherited
        /\ UNCHANGED <<server, timers, left, phase, pressed>>
    BY <1>9 DEF SaveFails, submit
  <2>2. \A i \in Index \ suspect' : i \in Index \ suspect /\ (NotInFlight(i)' => NotInFlight(i))
    BY <2>1 DEF NotInFlight
  <2> QED BY <1>9, <2>1, <2>2 DEF PressedInv, At
<1>10. ASSUME NEW i \in Index, Remove(i) PROVE FALSE
  BY <1>10 DEF Remove, submit
<1>11. CASE Reset \/ Reload
  BY <1>11 DEF Reset, Reload, submit
<1>12. ASSUME NEW m \in wire, RemovalReturns(m), phase \in {"flushing", "posting"} PROVE FALSE
  <2>1. m.kind \in RemovalKinds /\ ~overlapped
    BY <1>12 DEF RemovalReturns, ClosesUp, EmptiesDrafts, RemovalKinds
  <2> QED BY <1>12, <2>1 DEF RemovalAlone
<1>13. ASSUME NEW m \in wire, DeleteArrives(m) \/ ResetArrives(m), phase \in {"flushing", "posting"} PROVE FALSE
  <2>1. m.kind \in RemovalKinds /\ ~overlapped
    BY <1>13 DEF DeleteArrives, ResetArrives, RemovalKinds, history
  <2> QED BY <1>13, <2>1 DEF RemovalAlone
<1>14. ASSUME NEW m \in wire, RemovalRefused(m) \/ RemovalLost(m), phase \in {"flushing", "posting"} PROVE FALSE
  <2>1. m.kind \in RemovalKinds /\ ~overlapped
    BY <1>14 DEF RemovalRefused, RemovalLost, RemovalKinds, history
  <2> QED BY <1>14, <2>1 DEF RemovalAlone
<1> QED BY <1>2, <1>4, <1>5, <1>6, <1>7, <1>8, <1>9, <1>10, <1>11, <1>12, <1>13, <1>14, StepIs

LEMMA FiledStep ==
    /\ AutosaveAssumption /\ TypeInv /\ RemovalAlone /\ PressedInv
    /\ FiledHoldsWhatWasTyped /\ [Next]_vars
    => FiledHoldsWhatWasTyped'
<1> SUFFICES ASSUME AutosaveAssumption, TypeInv, RemovalAlone, PressedInv, FiledHoldsWhatWasTyped, [Next]_vars
             PROVE  FiledHoldsWhatWasTyped'
  OBVIOUS
<1>1. ASSUME filed' = filed PROVE FiledHoldsWhatWasTyped'
  BY <1>1 DEF FiledHoldsWhatWasTyped
<1>2. ASSUME phase = "posting", filed = {}, filed' = {Report} PROVE FiledHoldsWhatWasTyped'
  <2>1. ASSUME NEW i \in DOMAIN pressed, i \notin Report.excused PROVE pressed[i] \subseteq At(server, i)
    <3>1. i \in Index /\ At(pressed, i) = pressed[i]
      BY EntriesAre, AtIs DEF TypeInv, RowType
    <3>2. ~overlapped /\ ~inherited /\ i \notin suspect /\ i \notin NotAwaited
      BY <2>1, <3>1 DEF Report
    <3>3. \A t \in timers : t.index = i => t.tracked
      BY <3>2 DEF NotAwaited, TypeInv, TimerType, Timers
    <3>4. NotInFlight(i)
      BY <1>2, <3>2 DEF NotAwaited, NotInFlight, SaveKinds, TypeInv, WireType
    <3>5. left = {}
      BY <1>2 DEF TypeInv, WireType
    <3> QED BY <1>2, <3>1, <3>2, <3>3, <3>4, <3>5 DEF PressedInv
  <2>2. Report.typed = pressed /\ Report.holds = server
    BY DEF Report
  <2>3. \A report \in filed' : report = Report
    BY <1>2
  <2>4. ASSUME NEW report \in filed', NEW i \in DOMAIN report.typed \ report.excused
        PROVE  report.typed[i] \subseteq At(report.holds, i)
    BY <2>1, <2>2, <2>3
  <2> QED BY <2>4 DEF FiledHoldsWhatWasTyped, At
<1>3. CASE Calm /\ Proceeds
  BY <1>1, <1>2, <1>3 DEF Proceeds
<1>4. CASE \E kind \in SaveKinds, i \in Index, answers \in Answers : Sends(kind, i, answers)
  BY <1>1, <1>4 DEF Sends
<1>5. ASSUME NEW i \in Index, Type(i) \/ Remove(i) PROVE FiledHoldsWhatWasTyped'
  BY <1>1, <1>5 DEF Type, Remove
<1>6. CASE Reset \/ PressSubmit \/ Reload
  BY <1>1, <1>6 DEF Reset, PressSubmit, Reload
<1>7. ASSUME NEW m \in wire, RemovalReturns(m) \/ SaveArrives(m) \/ SaveFails(m) \/ DeleteArrives(m)
      PROVE  FiledHoldsWhatWasTyped'
  BY <1>1, <1>7 DEF RemovalReturns, SaveArrives, SaveFails, DeleteArrives
<1>8. ASSUME NEW m \in wire, ResetArrives(m) \/ RemovalRefused(m) \/ RemovalLost(m)
      PROVE  FiledHoldsWhatWasTyped'
  BY <1>1, <1>8 DEF ResetArrives, RemovalRefused, RemovalLost
<1> QED BY <1>3, <1>4, <1>5, <1>6, <1>7, <1>8, StepIs

\* What submit files contains everything typed before Submit was pressed, unless
\* the last save of the entry was lost, refused, overtaken or carried older
\* answers, a save of it that submit does not await was under way, a removal
\* overlapped with pending work, or a card was edited that did not show its own draft.
THEOREM FiledHoldsAlways == Spec => []FiledHoldsWhatWasTyped
<1> DEFINE Inv == TypeInv /\ RemovalAlone /\ ApartInv /\ StagedInv /\ PressedInv /\ FiledHoldsWhatWasTyped
<1>1. Init => Inv
  <2>1. Init => PressedInv /\ FiledHoldsWhatWasTyped
    BY DEF Init, PressedInv, FiledHoldsWhatWasTyped
  <2> QED BY <2>1, TypeInit, RemovalInit, ApartInit, StagedInit, AutosaveAssumption
<1>2. Inv /\ [Next]_vars => Inv'
  BY TypeStep, RemovalStep, ApartStep, StagedStep, PressedStep, FiledStep, AutosaveAssumption
<1>3. Spec => []Inv
  BY <1>1, <1>2, PTL DEF Spec
<1> QED BY <1>3, PTL
=============================================================================
