-------------------------- MODULE NotificationStream --------------------------
(***************************************************************************)
(* The live half of notifications, for one user: connections of the         *)
(* browser's tabs to the pods, the cap on streams kept in a Redis sorted    *)
(* set, and each pod's subscription to the user's channel.                  *)
(*                                                                          *)
(* A connection is used once: a tab that reconnects is another one.  Time   *)
(* is abstracted to whether an entry of the sorted set is stale, that is,   *)
(* not refreshed for STREAM_STALE_MS.                                       *)
(***************************************************************************)
EXTENDS Naturals, FiniteSets, Sequences

CONSTANTS
    MaxConns,   \* bound: connections ever made
    Pods,
    Home,       \* the pod each connection is routed to
    Cap,        \* MAX_STREAMS_PER_USER
    MaxFaults,  \* bound: how many events of Events happen
    Events

EventKinds == {"redis_error", "subscribe_error", "unsubscribe_error",
               "slow_pod", "pod_killed"}

Conns == 1 .. MaxConns

ASSUME StreamAssumption ==
    /\ MaxConns \in Nat /\ Cap \in Nat /\ MaxFaults \in Nat
    /\ Home \in [Conns -> Pods]
    /\ Events \subseteq EventKinds

VARIABLES
    at,          \* where connect()'s asynchronous body is
    disposed,    \* connections whose teardown has run
    disposers,   \* what teardown has to undo: "slot", "channel"
    beating,     \* connections whose heartbeat interval runs
    slots,       \* members of sse:streams:<user>
    stale,       \* those with an old score
    releasing,   \* ZREM commands under way
    listeners,   \* per pod: listeners.get(userId)
    ops,         \* per pod: the chain of channel operations (channelOps)
    flight,      \* per pod: the first operation waits for Redis
    subscribed,  \* pods subscribed to the user's channel
    faults,
    exempt,      \* history: admitted without the cap, or taken for dead
    leaked       \* history: pods that kept a listener whose SUBSCRIBE failed

body    == <<at, disposed, disposers, beating>>
cap     == <<slots, stale, releasing>>
channel == <<listeners, ops, flight, subscribed, leaked>>
vars == <<body, cap, channel, faults, exempt>>

Places == {"new", "admitting", "admitted", "refused", "retaining", "open", "over"}

TypeOK ==
    /\ at \in [Conns -> Places]
    /\ disposed \subseteq Conns
    /\ disposers \in [Conns -> SUBSET {"slot", "channel"}]
    /\ beating \subseteq Conns
    /\ slots \subseteq Conns /\ stale \subseteq slots
    /\ releasing \subseteq Conns
    /\ listeners \in [Pods -> SUBSET Conns]
    /\ ops \in [Pods -> Seq([op : {"retain", "release"}, conn : Conns])]
    /\ flight \in [Pods -> BOOLEAN]
    /\ subscribed \subseteq Pods /\ leaked \subseteq Pods
    /\ faults \in 0 .. MaxFaults
    /\ exempt \subseteq Conns

Init ==
    /\ at = [c \in Conns |-> "new"]
    /\ disposed = {} /\ beating = {}
    /\ disposers = [c \in Conns |-> {}]
    /\ slots = {} /\ stale = {} /\ releasing = {}
    /\ listeners = [p \in Pods |-> {}]
    /\ ops = [p \in Pods |-> <<>>]
    /\ flight = [p \in Pods |-> FALSE]
    /\ subscribed = {} /\ leaked = {}
    /\ faults = 0 /\ exempt = {}

Fault(event) ==
    /\ event \in Events /\ faults < MaxFaults
    /\ faults' = faults + 1

\* A stream that occupies memory of a pod: admitted and not torn down.
Live == {c \in Conns : at[c] \in {"admitted", "retaining", "open"} /\ c \notin disposed}

Queued(kind, c) == Append(ops[Home[c]], [op |-> kind, conn |-> c])

(***************************************************************************)
(* Admission                                                                *)
(***************************************************************************)
Connect(c) ==
    /\ at[c] = "new"
    /\ at' = [at EXCEPT ![c] = "admitting"]
    /\ UNCHANGED <<disposed, disposers, beating, cap, channel, faults, exempt>>

\* Mutant of AdmitScript: refuses only above the cap.
AdmitScriptLoose(c, admitted) ==
    LET counted == slots \ stale IN
       /\ stale' = {}
       /\ admitted = (Cardinality(counted) =< Cap)
       /\ slots' = IF admitted THEN counted \cup {c} ELSE counted

\* ADMIT_SCRIPT: prune, count and add in one step.
AdmitScript(c, admitted) ==
    LET counted == slots \ stale IN
       /\ stale' = {}
       /\ admitted = (Cardinality(counted) < Cap)
       /\ slots' = IF admitted THEN counted \cup {c} ELSE counted

Admit(c) ==
    /\ at[c] = "admitting"
    /\ \E admitted \in BOOLEAN :
          /\ AdmitScript(c, admitted)
          /\ at' = [at EXCEPT ![c] = IF admitted THEN "admitted" ELSE "refused"]
    /\ UNCHANGED <<disposed, disposers, beating, releasing, channel, faults, exempt>>

\* admit() fails open: the script may have run or not.
AdmitUnanswered(c) ==
    /\ at[c] = "admitting"
    /\ Fault("redis_error")
    /\ at' = [at EXCEPT ![c] = "admitted"]
    /\ \/ UNCHANGED <<slots, stale>>
       \/ \E admitted \in BOOLEAN : AdmitScript(c, admitted)
    /\ exempt' = exempt \cup {c}
    /\ UNCHANGED <<disposed, disposers, beating, releasing, channel>>

Refuse(c) ==
    /\ at[c] = "refused"
    /\ at' = [at EXCEPT ![c] = "over"]
    /\ disposed' = disposed \cup {c}
    /\ UNCHANGED <<disposers, beating, cap, channel, faults, exempt>>

\* The slot is registered for release; a connection that is already gone
\* releases it at once and goes no further.
AdmitReturns(c) ==
    /\ at[c] = "admitted"
    /\ IF c \in disposed
       THEN /\ releasing' = releasing \cup {c}
            /\ at' = [at EXCEPT ![c] = "over"]
            /\ UNCHANGED <<disposers, ops>>
       ELSE /\ disposers' = [disposers EXCEPT ![c] = @ \cup {"slot"}]
            /\ at' = [at EXCEPT ![c] = "retaining"]
            /\ ops' = [ops EXCEPT ![Home[c]] = Queued("retain", c)]
            /\ UNCHANGED releasing
    /\ UNCHANGED <<disposed, beating, slots, stale, listeners, flight, subscribed, leaked,
                   faults, exempt>>

(***************************************************************************)
(* Channel operations: one at a time per user and pod                       *)
(***************************************************************************)
\* Mutant of Retained: the cleanup of a connection already gone is dropped.
RetainedUnregistered(c, rest) ==
    IF c \in disposed
    THEN /\ at' = [at EXCEPT ![c] = "over"]
         /\ ops' = [ops EXCEPT ![Home[c]] = rest]
         /\ UNCHANGED <<disposers, beating>>
    ELSE /\ at' = [at EXCEPT ![c] = "open"]
         /\ ops' = [ops EXCEPT ![Home[c]] = rest]
         /\ disposers' = [disposers EXCEPT ![c] = @ \cup {"channel"}]
         /\ beating' = beating \cup {c}

\* retainChannel has returned in connect(): the channel is registered for
\* release, or released at once when the connection is gone.  rest is the
\* chain without the operation that ended.
Retained(c, rest) ==
    IF c \in disposed
    THEN /\ at' = [at EXCEPT ![c] = "over"]
         /\ ops' = [ops EXCEPT ![Home[c]] = Append(rest, [op |-> "release", conn |-> c])]
         /\ UNCHANGED <<disposers, beating>>
    ELSE /\ at' = [at EXCEPT ![c] = "open"]
         /\ ops' = [ops EXCEPT ![Home[c]] = rest]
         /\ disposers' = [disposers EXCEPT ![c] = @ \cup {"channel"}]
         /\ beating' = beating \cup {c}

Next1(p, kind) ==
    /\ ops[p] # <<>> /\ ~flight[p]
    /\ Head(ops[p]).op = kind

\* Only the first listener costs a SUBSCRIBE.
Retain(p) ==
    /\ Next1(p, "retain")
    /\ LET c == Head(ops[p]).conn IN
          /\ listeners' = [listeners EXCEPT ![p] = @ \cup {c}]
          /\ IF listeners[p] \subseteq {c}
             THEN /\ flight' = [flight EXCEPT ![p] = TRUE]
                  /\ UNCHANGED <<at, ops, disposers, beating>>
             ELSE Retained(c, Tail(ops[p])) /\ UNCHANGED flight
    /\ UNCHANGED <<disposed, cap, subscribed, leaked, faults, exempt>>

\* Mutant of Release: unsubscribes while one listener is left.
ReleaseEarly(p) ==
    /\ Next1(p, "release")
    /\ LET left == listeners[p] \ {Head(ops[p]).conn} IN
          /\ listeners' = [listeners EXCEPT ![p] = left]
          /\ IF listeners[p] # {} /\ Cardinality(left) =< 1
             THEN flight' = [flight EXCEPT ![p] = TRUE] /\ UNCHANGED ops
             ELSE ops' = [ops EXCEPT ![p] = Tail(@)] /\ UNCHANGED flight
    /\ UNCHANGED <<body, cap, subscribed, leaked, faults, exempt>>

\* Only the last listener that leaves costs an UNSUBSCRIBE.
Release(p) ==
    /\ Next1(p, "release")
    /\ LET left == listeners[p] \ {Head(ops[p]).conn} IN
          /\ listeners' = [listeners EXCEPT ![p] = left]
          /\ IF listeners[p] # {} /\ left = {}
             THEN flight' = [flight EXCEPT ![p] = TRUE] /\ UNCHANGED ops
             ELSE ops' = [ops EXCEPT ![p] = Tail(@)] /\ UNCHANGED flight
    /\ UNCHANGED <<body, cap, subscribed, leaked, faults, exempt>>

InFlight(p, kind) ==
    /\ flight[p] /\ ops[p] # <<>>
    /\ Head(ops[p]).op = kind
    /\ flight' = [flight EXCEPT ![p] = FALSE]

Subscribe(p) ==
    /\ InFlight(p, "retain")
    /\ subscribed' = subscribed \cup {p}
    /\ Retained(Head(ops[p]).conn, Tail(ops[p]))
    /\ UNCHANGED <<disposed, cap, listeners, leaked, faults, exempt>>

\* connect() reports the error and the observable tears the connection down;
\* the listener that retainChannel has added is nobody's to remove.
SubscribeFails(p) ==
    /\ InFlight(p, "retain")
    /\ Fault("subscribe_error")
    /\ LET c == Head(ops[p]).conn IN
          /\ at' = [at EXCEPT ![c] = "over"]
          /\ releasing' = IF c \in disposed THEN releasing ELSE releasing \cup {c}
          /\ disposed' = disposed \cup {c}
          /\ disposers' = [disposers EXCEPT ![c] = {}]
    /\ ops' = [ops EXCEPT ![p] = Tail(@)]
    /\ leaked' = leaked \cup {p}
    /\ UNCHANGED <<beating, slots, stale, listeners, subscribed, exempt>>

Unsubscribe(p) ==
    /\ InFlight(p, "release")
    /\ subscribed' = subscribed \ {p}
    /\ ops' = [ops EXCEPT ![p] = Tail(@)]
    /\ UNCHANGED <<body, cap, listeners, leaked, faults, exempt>>

UnsubscribeFails(p) ==
    /\ InFlight(p, "release")
    /\ Fault("unsubscribe_error")
    /\ ops' = [ops EXCEPT ![p] = Tail(@)]
    /\ UNCHANGED <<body, cap, listeners, subscribed, leaked, exempt>>

(***************************************************************************)
(* The end of a connection                                                  *)
(***************************************************************************)
\* Mutant of Teardown: the heartbeat interval is not cleared.
TeardownBeating(c) ==
    /\ at[c] \notin {"new", "over"} /\ c \notin disposed
    /\ disposed' = disposed \cup {c}
    /\ UNCHANGED beating
    /\ releasing' = IF "slot" \in disposers[c] THEN releasing \cup {c} ELSE releasing
    /\ ops' = IF "channel" \in disposers[c]
              THEN [ops EXCEPT ![Home[c]] = Queued("release", c)] ELSE ops
    /\ disposers' = [disposers EXCEPT ![c] = {}]
    /\ at' = IF at[c] = "open" THEN [at EXCEPT ![c] = "over"] ELSE at
    /\ UNCHANGED <<slots, stale, listeners, flight, subscribed, leaked, faults, exempt>>

\* The client goes away, or the lifetime is over: teardown undoes what has been
\* registered so far; what is still being acquired is undone when it arrives.
Teardown(c) ==
    /\ at[c] \notin {"new", "over"} /\ c \notin disposed
    /\ disposed' = disposed \cup {c}
    /\ beating' = beating \ {c}
    /\ releasing' = IF "slot" \in disposers[c] THEN releasing \cup {c} ELSE releasing
    /\ ops' = IF "channel" \in disposers[c]
              THEN [ops EXCEPT ![Home[c]] = Queued("release", c)] ELSE ops
    /\ disposers' = [disposers EXCEPT ![c] = {}]
    /\ at' = IF at[c] = "open" THEN [at EXCEPT ![c] = "over"] ELSE at
    /\ UNCHANGED <<slots, stale, listeners, flight, subscribed, leaked, faults, exempt>>

\* release(): a failure is logged and nothing else.
ReleaseSlot(c) ==
    /\ c \in releasing
    /\ releasing' = releasing \ {c}
    /\ \/ slots' = slots \ {c} /\ stale' = stale \ {c} /\ UNCHANGED faults
       \/ Fault("redis_error") /\ UNCHANGED <<slots, stale>>
    /\ UNCHANGED <<body, channel, exempt>>

(***************************************************************************)
(* Heartbeats, staleness and pods that die                                  *)
(***************************************************************************)
\* touch(): ZADD puts the entry back even when it has been pruned.
Touch(c) ==
    /\ c \in beating
    /\ slots' = slots \cup {c}
    /\ stale' = stale \ {c}
    /\ UNCHANGED <<body, releasing, channel, faults, exempt>>

\* Nothing has refreshed the entry for STREAM_STALE_MS.
GoStale(c) ==
    /\ c \in slots \ stale
    /\ c \notin beating
    /\ stale' = stale \cup {c}
    /\ exempt' = exempt \cup ({c} \cap Live)
    /\ UNCHANGED <<body, slots, releasing, channel, faults>>

\* A pod so slow that three heartbeats are missed.
MissHeartbeats(c) ==
    /\ c \in (slots \ stale) \cap beating
    /\ Fault("slow_pod")
    /\ stale' = stale \cup {c}
    /\ exempt' = exempt \cup {c}
    /\ UNCHANGED <<body, slots, releasing, channel>>

\* PEXPIRE: the set outlives its last refresh by twice STREAM_STALE_MS.
SetExpires ==
    /\ slots # {} /\ slots = stale
    /\ slots' = {} /\ stale' = {}
    /\ UNCHANGED <<body, releasing, channel, faults, exempt>>

\* SIGKILL: no cleanup runs; the pod's connections and subscription end.
KillPod(p) ==
    LET gone == {c \in Conns : Home[c] = p} IN
    /\ Fault("pod_killed")
    /\ at' = [c \in Conns |-> IF c \in gone THEN "over" ELSE at[c]]
    /\ disposed' = disposed \cup gone
    /\ beating' = beating \ gone
    /\ releasing' = releasing \ gone
    /\ disposers' = [c \in Conns |-> IF c \in gone THEN {} ELSE disposers[c]]
    /\ listeners' = [listeners EXCEPT ![p] = {}]
    /\ ops' = [ops EXCEPT ![p] = <<>>]
    /\ flight' = [flight EXCEPT ![p] = FALSE]
    /\ subscribed' = subscribed \ {p}
    /\ leaked' = leaked \ {p}
    /\ UNCHANGED <<slots, stale, exempt>>

(***************************************************************************)
(* The specification                                                        *)
(***************************************************************************)
Next ==
    \/ \E c \in Conns :
          \/ Connect(c) \/ Admit(c) \/ AdmitUnanswered(c) \/ Refuse(c) \/ AdmitReturns(c)
          \/ Teardown(c) \/ ReleaseSlot(c)
          \/ Touch(c) \/ GoStale(c) \/ MissHeartbeats(c)
    \/ \E p \in Pods :
          \/ Retain(p) \/ Release(p)
          \/ Subscribe(p) \/ SubscribeFails(p)
          \/ Unsubscribe(p) \/ UnsubscribeFails(p)
          \/ KillPod(p)
    \/ SetExpires

Spec == Init /\ [][Next]_vars

\* Redis answers, the event loop runs what is queued, and time passes.
Fairness ==
    /\ \A c \in Conns :
          /\ WF_vars(Admit(c)) /\ WF_vars(Refuse(c)) /\ WF_vars(AdmitReturns(c))
          /\ WF_vars(ReleaseSlot(c)) /\ WF_vars(GoStale(c))
    /\ \A p \in Pods :
          /\ WF_vars(Retain(p)) /\ WF_vars(Release(p))
          /\ WF_vars(Subscribe(p)) /\ WF_vars(Unsubscribe(p))

FairSpec == Spec /\ Fairness

(***************************************************************************)
(* Properties                                                               *)
(***************************************************************************)
\* A tab that sees an open stream is on a pod that receives the user's
\* channel, however connections open and close around it ("the pod is now
\* holding a connection for a channel it no longer receives",
\* notification-stream.service.ts:161-164).  The exception is the code's: a
\* listener whose SUBSCRIBE failed stays in the set, so that later connections
\* of the user ride a subscription that does not exist.
OpenIsSubscribed ==
    \A c \in Conns :
        at[c] = "open" => Home[c] \in subscribed \cup leaked

\* Simultaneous admissions do not exceed the cap; streams admitted while Redis
\* failed, or taken for dead because they missed their heartbeats, are not
\* counted (ADMIT_SCRIPT, "N simultaneous connections all read the same count").
CapRespected == Cardinality(Live \ exempt) =< Cap

\* Whatever the moment a connection ends, its listener is removed for good,
\* unless its SUBSCRIBE failed ("Register cleanup for a resource").
ListenersGo ==
    \A c \in Conns :
        <>[](c \in disposed => \A p \in Pods : p \in leaked \/ c \notin listeners[p])

\* A connection that ended, even with its pod, does not occupy the user's
\* allowance for good ("one crash permanently costs those users part of their
\* allowance" is what pruning by score prevents).
SlotsComeBack ==
    \A c \in Conns : <>[](c \in disposed => c \notin slots \ stale)
===============================================================================
