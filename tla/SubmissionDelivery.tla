------------------------- MODULE SubmissionDelivery -------------------------
(***************************************************************************)
(* What the pipeline behind an accepted submission promises, whatever      *)
(* queues, workers and retries it is built from: a submission is stored    *)
(* once and stays stored, the outside world hears of it only after that,   *)
(* and an accepted submission is not left in between for ever.             *)
(* SubmissionWorker implements this specification.                         *)
(***************************************************************************)
CONSTANTS
    Submissions,    \* the submissions of the instance
    Channels        \* who is told of a stored submission

VARIABLES
    stage,          \* "new", "accepted", "stored" or "failed"
    announced       \* the pairs <<channel, submission>> that went out

vars == <<stage, announced>>

Init ==
    /\ stage = [s \in Submissions |-> "new"]
    /\ announced = {}

Accept(s) ==
    /\ stage[s] = "new"
    /\ stage' = [stage EXCEPT ![s] = "accepted"]
    /\ UNCHANGED announced

\* Storing also from "new": a report files its rows itself, and from "failed":
\* an attempt that the queue has given up may still be running.
Store(s) ==
    /\ stage[s] # "stored"
    /\ stage' = [stage EXCEPT ![s] = "stored"]
    /\ UNCHANGED announced

GiveUp(s) ==
    /\ stage[s] = "accepted"
    /\ stage' = [stage EXCEPT ![s] = "failed"]
    /\ UNCHANGED announced

Announce(c, s) ==
    /\ stage[s] = "stored"
    /\ announced' = announced \cup {<<c, s>>}
    /\ UNCHANGED stage

Next ==
    \E s \in Submissions :
        \/ Accept(s) \/ Store(s) \/ GiveUp(s)
        \/ \E c \in Channels : Announce(c, s)

Spec == Init /\ [][Next]_vars

FairSpec ==
    /\ Spec
    /\ \A s \in Submissions :
           WF_vars(stage[s] = "accepted" /\ (Store(s) \/ GiveUp(s)))
=============================================================================
