----------------------- MODULE SubmissionWorkerProofs -----------------------
(***************************************************************************)
(* Theorems about SubmissionWorker, for any number of submissions,         *)
(* webhooks and workers, any attempts and any set of events.               *)
(***************************************************************************)
EXTENDS SubmissionWorker, TLAPS

SubmissionPCs == {"existing", "persist", "files", "hooks", "enqueue", "mail"}
DeliveryPCs == {"load", "block", "deactivate", "tellOff", "post", "record",
                "done", "throw", "tell"}

-----------------------------------------------------------------------------
(* Jobs, locks and attempts.                                               *)

\* What a worker runs fits where it is.
WorkFits ==
    \A w \in Workers :
        /\ wpc[w] \in SubmissionPCs => wjob[w] \in Submissions
        /\ wpc[w] \in DeliveryPCs => wjob[w] \in Deliveries

\* A held lock is the lock of an active job, one worker's only, and a job that
\* is not over has an attempt left.
LockInv ==
    /\ \A w \in Workers : holds[w] => wpc[w] # "idle" /\ queue[wjob[w]] = "active"
    /\ \A w, v \in Workers : holds[w] /\ holds[v] /\ wjob[w] = wjob[v] => w = v
    /\ \A j \in Jobs : queue[j] \in {"none", "waiting", "active"} => tries[j] < Attempts

Base == TypeOK /\ WorkFits /\ LockInv

\* The two ends of an attempt differ in what they add to the queue before.
Ended(w, queued, result, tried) ==
    /\ queue' = IF holds[w] THEN [queued EXCEPT ![wjob[w]] = result] ELSE queued
    /\ tries' = IF holds[w] /\ tried THEN [tries EXCEPT ![wjob[w]] = @ + 1] ELSE tries
    /\ wpc' = [wpc EXCEPT ![w] = "idle"]
    /\ wjob' = [wjob EXCEPT ![w] = NoJob]
    /\ holds' = [holds EXCEPT ![w] = FALSE]
    /\ wread' = [wread EXCEPT ![w] = NothingRead]
    /\ UNCHANGED stalls

\* What an attempt that has ended leaves behind.
LEMMA EndsWell ==
    ASSUME Base, WorkerAssumption, NEW w \in Workers, wpc[w] # "idle",
           NEW queued \in [Jobs -> {"none", "waiting", "active", "completed", "failed"}],
           \A j \in Jobs : queued[j] = queue[j] \/ (queue[j] = "none" /\ queued[j] = "waiting"),
           NEW result \in {"completed", "failed", "waiting"}, NEW tried \in BOOLEAN,
           result = "waiting" => tries[wjob[w]] + 1 < Attempts,
           Ended(w, queued, result, tried)
    PROVE  /\ queue' \in [Jobs -> {"none", "waiting", "active", "completed", "failed"}]
           /\ tries' \in [Jobs -> 0..Attempts] /\ stalls' \in [Jobs -> 0..MaxStalls]
           /\ wpc' \in [Workers -> WorkerPCs] /\ wjob' \in [Workers -> Jobs \cup {NoJob}]
           /\ wread' \in [Workers -> [tries : 0..Attempts, hooks : SUBSET Hooks, ok : BOOLEAN]]
           /\ holds' \in [Workers -> BOOLEAN]
           /\ \A v \in Workers : (wjob'[v] = NoJob) <=> (wpc'[v] = "idle")
           /\ WorkFits' /\ LockInv'
<1>0. wjob[w] \in Jobs
  BY DEF Base, TypeOK
<1>1. holds[w] => queue[wjob[w]] = "active" /\ tries[wjob[w]] < Attempts
  BY <1>0 DEF Base, LockInv
<1>2. queue' \in [Jobs -> {"none", "waiting", "active", "completed", "failed"}]
  BY DEF Ended
<1>3. tries' \in [Jobs -> 0..Attempts]
  <2>1. holds[w] => tries[wjob[w]] + 1 \in 0..Attempts
    BY <1>0, <1>1 DEF Base, TypeOK, WorkerAssumption
  <2> QED BY <2>1 DEF Ended, Base, TypeOK
<1>4. NothingRead \in [tries : 0..Attempts, hooks : SUBSET Hooks, ok : BOOLEAN]
  BY DEF NothingRead, WorkerAssumption
<1>5. wread' \in [Workers -> [tries : 0..Attempts, hooks : SUBSET Hooks, ok : BOOLEAN]]
  BY <1>4 DEF Ended, Base, TypeOK
<1>6. /\ wpc' \in [Workers -> WorkerPCs] /\ wjob' \in [Workers -> Jobs \cup {NoJob}]
      /\ holds' \in [Workers -> BOOLEAN] /\ stalls' \in [Jobs -> 0..MaxStalls]
      /\ \A v \in Workers : (wjob'[v] = NoJob) <=> (wpc'[v] = "idle")
  BY DEF Ended, Base, TypeOK, WorkerPCs
<1>7. /\ wpc'[w] = "idle" /\ ~holds'[w]
      /\ \A v \in Workers \ {w} : wpc'[v] = wpc[v] /\ wjob'[v] = wjob[v] /\ holds'[v] = holds[v]
  BY DEF Ended, Base, TypeOK
<1>8. WorkFits'
  BY <1>7 DEF Base, WorkFits, SubmissionPCs, DeliveryPCs
<1>9. LockInv'
  <2>1. ASSUME NEW v \in Workers, holds'[v] PROVE wpc'[v] # "idle" /\ queue'[wjob'[v]] = "active"
    <3>1. v # w /\ holds[v] /\ wjob'[v] = wjob[v] /\ wpc'[v] = wpc[v]
      BY <1>7, <2>1
    <3>2. wpc[v] # "idle" /\ queue[wjob[v]] = "active" /\ wjob[v] \in Jobs
      BY <3>1 DEF Base, LockInv, TypeOK
    <3>3. holds[w] => wjob[w] # wjob[v]
      BY <3>1 DEF Base, LockInv
    <3>4. queued[wjob[v]] = "active"
      BY <3>2
    <3> QED BY <3>1, <3>2, <3>3, <3>4 DEF Ended
  <2>2. \A u, v \in Workers : holds'[u] /\ holds'[v] /\ wjob'[u] = wjob'[v] => u = v
    BY <1>7 DEF Base, LockInv
  <2>3. ASSUME NEW j \in Jobs, queue'[j] \in {"none", "waiting", "active"}
        PROVE  tries'[j] < Attempts
    <3>1. CASE holds[w] /\ j = wjob[w]
      <4>1. queue'[j] = result
        BY <3>1 DEF Ended
      <4>2. tries[j] \in 0..Attempts /\ (tries'[j] = tries[j] \/ tries'[j] = tries[j] + 1)
        BY <3>1 DEF Ended, Base, TypeOK
      <4> QED BY <2>3, <3>1, <4>1, <4>2, <1>1
    <3>2. CASE ~(holds[w] /\ j = wjob[w])
      <4>1. queue'[j] = queued[j] /\ tries'[j] = tries[j]
        BY <3>2 DEF Ended, Base, TypeOK
      <4> QED BY <2>3, <4>1 DEF Base, LockInv
    <3> QED BY <3>1, <3>2
  <2> QED BY <2>1, <2>2, <2>3 DEF LockInv
<1> QED BY <1>2, <1>3, <1>5, <1>6, <1>8, <1>9
\* A worker goes on to another step of its processor.
LEMMA MovesWell ==
    ASSUME Base, NEW w \in Workers, NEW from, NEW to, Goto(w, from, to),
           \/ from \in SubmissionPCs /\ to \in SubmissionPCs
           \/ from \in DeliveryPCs /\ to \in DeliveryPCs,
           UNCHANGED <<tries, stalls, wjob, holds>>,
           \A j \in Jobs : queue'[j] = queue[j] \/ (queue[j] = "none" /\ queue'[j] = "waiting")
    PROVE  /\ wpc' \in [Workers -> WorkerPCs]
           /\ \A v \in Workers : (wjob'[v] = NoJob) <=> (wpc'[v] = "idle")
           /\ WorkFits' /\ LockInv'
<1>1. wpc' = [wpc EXCEPT ![w] = to] /\ wpc[w] = from /\ to \in WorkerPCs \ {"idle"}
  BY DEF Goto, SubmissionPCs, DeliveryPCs, WorkerPCs
<1>2. from # "idle"
  BY DEF SubmissionPCs, DeliveryPCs
<1>3. /\ wpc' \in [Workers -> WorkerPCs]
      /\ \A v \in Workers : (wjob'[v] = NoJob) <=> (wpc'[v] = "idle")
  BY <1>1, <1>2 DEF Base, TypeOK
<1>4. WorkFits'
  BY <1>1 DEF Base, TypeOK, WorkFits, SubmissionPCs, DeliveryPCs
<1>5. LockInv'
  <2>1. ASSUME NEW v \in Workers, holds[v] PROVE wpc'[v] # "idle" /\ queue'[wjob[v]] = "active"
    <3>1. wpc[v] # "idle" /\ queue[wjob[v]] = "active" /\ wjob[v] \in Jobs
      BY <2>1 DEF Base, LockInv, TypeOK
    <3> QED BY <3>1, <1>1 DEF Base, TypeOK
  <2>2. \A j \in Jobs : queue'[j] \in {"none", "waiting", "active"} => tries[j] < Attempts
    BY DEF Base, LockInv
  <2> QED BY <2>1, <2>2 DEF Base, LockInv
<1> QED BY <1>3, <1>4, <1>5

\* EndAttempt is one of the ends of EndsWell.
LEMMA AttemptEnds ==
    ASSUME Base, WorkerAssumption, NEW w \in Workers, NEW from, from # "idle",
           NEW threw \in BOOLEAN, EndAttempt(w, from, threw)
    PROVE  /\ wpc[w] = from /\ wpc[w] # "idle"
           /\ \E result \in {"completed", "failed", "waiting"} :
                 /\ Ended(w, queue, result, threw)
                 /\ result = "waiting" => tries[wjob[w]] + 1 < Attempts
                 /\ ~threw => result = "completed"
                 /\ threw => result # "completed"
<1> DEFINE j == wjob[w]
           result == IF ~threw THEN "completed"
                     ELSE IF tries[j] + 1 >= Attempts THEN "failed" ELSE "waiting"
<1>1. wpc[w] = from /\ wpc' = [wpc EXCEPT ![w] = "idle"]
  BY DEF EndAttempt, Goto
<1>2. Ended(w, queue, result, threw)
  BY <1>1 DEF EndAttempt, Ended
<1>3. j \in Jobs
  BY <1>1 DEF Base, TypeOK
<1>4. result = "waiting" => tries[j] + 1 < Attempts
  BY <1>3 DEF Base, TypeOK, WorkerAssumption
<1>5. result \in {"completed", "failed", "waiting"}
  OBVIOUS
<1>6. (~threw => result = "completed") /\ (threw => result # "completed")
  OBVIOUS
<1> HIDE DEF result
<1> QED BY <1>1, <1>2, <1>4, <1>5, <1>6

LEMMA AttemptEndsWell ==
    ASSUME Base, WorkerAssumption, NEW w \in Workers, NEW from, from # "idle",
           NEW threw \in BOOLEAN, EndAttempt(w, from, threw)
    PROVE  /\ queue' \in [Jobs -> {"none", "waiting", "active", "completed", "failed"}]
           /\ tries' \in [Jobs -> 0..Attempts] /\ stalls' \in [Jobs -> 0..MaxStalls]
           /\ wpc' \in [Workers -> WorkerPCs] /\ wjob' \in [Workers -> Jobs \cup {NoJob}]
           /\ wread' \in [Workers -> [tries : 0..Attempts, hooks : SUBSET Hooks, ok : BOOLEAN]]
           /\ holds' \in [Workers -> BOOLEAN]
           /\ \A v \in Workers : (wjob'[v] = NoJob) <=> (wpc'[v] = "idle")
           /\ WorkFits' /\ LockInv'
<1>1. queue \in [Jobs -> {"none", "waiting", "active", "completed", "failed"}]
  BY DEF Base, TypeOK
<1> QED BY <1>1, AttemptEnds, EndsWell

\* The adds of enqueueWebhooks put waiting jobs where there were none.
LEMMA AddsWait ==
    ASSUME Base, NEW added, NEW s
    PROVE  /\ AddDeliveries(added, s) \in
                  [Jobs -> {"none", "waiting", "active", "completed", "failed"}]
           /\ \A j \in Jobs :
                 \/ AddDeliveries(added, s)[j] = queue[j]
                 \/ /\ queue[j] = "none" /\ AddDeliveries(added, s)[j] = "waiting"
                    /\ j \in added \X {s}
BY DEF Base, TypeOK, AddDeliveries

\* The attempt that ends with some of its adds done.
LEMMA EnqueueFailsEnds ==
    ASSUME Base, WorkerAssumption, NEW w \in Workers, EnqueueHooksFail(w)
    PROVE  /\ wpc[w] = "enqueue"
           /\ \E added \in SUBSET wread[w].hooks, result \in {"failed", "waiting"} :
                 /\ Ended(w, AddDeliveries(added, wjob[w]), result, TRUE)
                 /\ result = "waiting" => tries[wjob[w]] + 1 < Attempts
<1>1. PICK added \in SUBSET wread[w].hooks :
        LET j == wjob[w]
            result == IF tries[j] + 1 >= Attempts THEN "failed" ELSE "waiting"
            queued == AddDeliveries(added, j)
        IN /\ added # wread[w].hooks /\ Occurs("queue_error", j)
           /\ Goto(w, "enqueue", "idle")
           /\ queue' = IF holds[w] THEN [queued EXCEPT ![j] = result]
                       ELSE queued
           /\ tries' = IF holds[w] THEN [tries EXCEPT ![j] = @ + 1] ELSE tries
           /\ wjob' = [wjob EXCEPT ![w] = NoJob]
           /\ holds' = [holds EXCEPT ![w] = FALSE]
           /\ wread' = [wread EXCEPT ![w] = NothingRead]
           /\ UNCHANGED <<stalls, tables, active, outside>>
  BY DEF EnqueueHooksFail
<1> DEFINE result == IF tries[wjob[w]] + 1 >= Attempts THEN "failed" ELSE "waiting"
<1>2. wpc[w] = "enqueue" /\ wpc' = [wpc EXCEPT ![w] = "idle"]
  BY <1>1 DEF Goto
<1>3. Ended(w, AddDeliveries(added, wjob[w]), result, TRUE)
  BY <1>1, <1>2 DEF Ended
<1>4. wjob[w] \in Jobs
  BY <1>2 DEF Base, TypeOK
<1>5. result \in {"failed", "waiting"} /\ (result = "waiting" => tries[wjob[w]] + 1 < Attempts)
  BY <1>4 DEF Base, TypeOK, WorkerAssumption
<1> HIDE DEF result
<1> QED BY <1>2, <1>3, <1>5
-----------------------------------------------------------------------------
(* Base is an invariant.                                                   *)

LEMMA BaseInit ==
    ASSUME WorkerAssumption, Init PROVE Base
<1>1. TypeOK
  BY DEF Init, TypeOK, WorkerAssumption, NothingRead, WorkerPCs, Jobs, Deliveries
<1>2. WorkFits /\ LockInv
  BY DEF Init, WorkFits, LockInv, SubmissionPCs, DeliveryPCs, WorkerAssumption
<1> QED BY <1>1, <1>2 DEF Base

\* The steps of nobody's attempt.
LEMMA BaseCallers ==
    ASSUME Base, WorkerAssumption,
           \/ \E s \in Submissions : FileReport(s) \/ Enqueue(s)
           \/ \E h \in Hooks : DeleteWebhook(h)
           \/ Replicate
    PROVE  Base'
<1>1. ASSUME NEW s \in Submissions, FileReport(s) PROVE Base'
  <2>1. /\ row' \in [Submissions -> BOOLEAN] /\ subjects' \in [Submissions -> Nat]
    BY <1>1 DEF FileReport, Base, TypeOK
  <2>2. UNCHANGED <<counted, replica, files, active, queueVars, workerVars, outside>>
    BY <1>1 DEF FileReport
  <2>3. TypeOK'
    BY <2>1, <2>2 DEF Base, TypeOK, queueVars, workerVars, outside
  <2>4. WorkFits' /\ LockInv'
    BY <2>2 DEF Base, WorkFits, LockInv, queueVars, workerVars
  <2> QED BY <2>3, <2>4 DEF Base
<1>2. ASSUME NEW s \in Submissions, Enqueue(s) PROVE Base'
  <2>0. s \in Jobs
    BY DEF Jobs
  <2>1. /\ queue[s] = "none" /\ queue' = [queue EXCEPT ![s] = "waiting"]
        /\ UNCHANGED <<tables, active, tries, stalls, workerVars, outside>>
    BY <1>2 DEF Enqueue
  <2>2. TypeOK'
    BY <2>0, <2>1 DEF Base, TypeOK, tables, workerVars, outside
  <2>3. WorkFits'
    BY <2>1 DEF Base, WorkFits, workerVars
  <2>4. LockInv'
    <3>1. ASSUME NEW v \in Workers, holds[v] PROVE wpc[v] # "idle" /\ queue'[wjob[v]] = "active"
      BY <3>1, <2>1 DEF Base, LockInv, TypeOK
    <3>2. \A j \in Jobs : queue'[j] \in {"none", "waiting", "active"} => tries[j] < Attempts
      BY <2>0, <2>1 DEF Base, LockInv, TypeOK
    <3> QED BY <2>1, <3>1, <3>2 DEF Base, LockInv, workerVars
  <2> QED BY <2>2, <2>3, <2>4 DEF Base
<1>3. ASSUME NEW h \in Hooks, DeleteWebhook(h) PROVE Base'
  <2>1. /\ active' = [active EXCEPT ![h] = FALSE]
        /\ UNCHANGED <<tables, queueVars, workerVars, outside>>
    BY <1>3 DEF DeleteWebhook
  <2>2. TypeOK'
    BY <2>1 DEF Base, TypeOK, tables, queueVars, workerVars, outside
  <2>3. WorkFits' /\ LockInv'
    BY <2>1 DEF Base, WorkFits, LockInv, queueVars, workerVars
  <2> QED BY <2>2, <2>3 DEF Base
<1>4. ASSUME Replicate PROVE Base'
  <2>1. /\ replica' = [rows |-> Stored, hooks |-> ActiveHooks]
        /\ UNCHANGED <<row, subjects, counted, files, active, queueVars, workerVars, outside>>
    BY <1>4 DEF Replicate
  <2>2. replica' \in [rows : SUBSET Submissions, hooks : SUBSET Hooks]
    BY <2>1 DEF Stored, ActiveHooks
  <2>3. TypeOK'
    BY <2>1, <2>2 DEF Base, TypeOK, queueVars, workerVars, outside
  <2>4. WorkFits' /\ LockInv'
    BY <2>1 DEF Base, WorkFits, LockInv, queueVars, workerVars
  <2> QED BY <2>3, <2>4 DEF Base
<1> QED BY <1>1, <1>2, <1>3, <1>4

\* A job is taken, lost or handed out again.
LEMMA BaseQueue ==
    ASSUME Base, WorkerAssumption,
           \/ \E w \in Workers, j \in Jobs : TakeJob(w, j)
           \/ \E w \in Workers : WorkerCrashes(w) \/ LoseLock(w)
           \/ \E j \in Jobs : Redeliver(j) \/ Evict(j)
    PROVE  Base'
<1>1. ASSUME NEW w \in Workers, NEW j \in Jobs, TakeJob(w, j) PROVE Base'
  <2> DEFINE pc == IF j \in Submissions THEN "existing" ELSE "load"
  <2>1. /\ queue[j] = "waiting" /\ wpc[w] = "idle" /\ wpc' = [wpc EXCEPT ![w] = pc]
        /\ queue' = [queue EXCEPT ![j] = "active"]
        /\ wjob' = [wjob EXCEPT ![w] = j] /\ holds' = [holds EXCEPT ![w] = TRUE]
        /\ wread' = [wread EXCEPT ![w].tries = tries[j]]
        /\ UNCHANGED <<tables, active, tries, stalls, outside>>
    BY <1>1 DEF TakeJob, Goto
  <2>2. pc \in WorkerPCs \ {"idle"} /\ j # NoJob
    BY DEF WorkerPCs, WorkerAssumption
  <2>3. wread' \in [Workers -> [tries : 0..Attempts, hooks : SUBSET Hooks, ok : BOOLEAN]]
    <3>1. wread[w] \in [tries : 0..Attempts, hooks : SUBSET Hooks, ok : BOOLEAN] /\ tries[j] \in 0..Attempts
      BY DEF Base, TypeOK
    <3> QED BY <2>1, <3>1 DEF Base, TypeOK
  <2>4. /\ wpc' \in [Workers -> WorkerPCs] /\ wjob' \in [Workers -> Jobs \cup {NoJob}]
        /\ holds' \in [Workers -> BOOLEAN]
        /\ \A v \in Workers : (wjob'[v] = NoJob) <=> (wpc'[v] = "idle")
    BY <2>1, <2>2 DEF Base, TypeOK
  <2>5. queue' \in [Jobs -> {"none", "waiting", "active", "completed", "failed"}]
    BY <2>1 DEF Base, TypeOK
  <2>6. TypeOK'
    BY <2>1, <2>3, <2>4, <2>5 DEF Base, TypeOK, tables, outside
  <2>7. /\ wpc'[w] = pc /\ wjob'[w] = j
        /\ \A v \in Workers \ {w} : wpc'[v] = wpc[v] /\ wjob'[v] = wjob[v] /\ holds'[v] = holds[v]
    BY <2>1 DEF Base, TypeOK
  <2>8. WorkFits'
    BY <2>7 DEF Base, WorkFits, SubmissionPCs, DeliveryPCs, Jobs
  <2>9. LockInv'
    <3>1. \A v \in Workers : holds[v] => v # w /\ wjob[v] # j /\ wjob[v] \in Jobs
      BY <2>1 DEF Base, LockInv, TypeOK
    <3>2. ASSUME NEW v \in Workers, holds'[v] PROVE wpc'[v] # "idle" /\ queue'[wjob'[v]] = "active"
      <4>1. CASE v = w
        BY <4>1, <2>1, <2>2, <2>7 DEF Base, TypeOK
      <4>2. CASE v # w
        <5>1. wpc[v] # "idle" /\ queue[wjob[v]] = "active" /\ wjob[v] # j /\ wjob[v] \in Jobs
          BY <3>1, <3>2, <4>2, <2>7 DEF Base, LockInv
        <5> QED BY <5>1, <4>2, <2>7, <2>1 DEF Base, TypeOK
      <4> QED BY <4>1, <4>2
    <3>3. \A u, v \in Workers : holds'[u] /\ holds'[v] /\ wjob'[u] = wjob'[v] => u = v
      BY <2>7, <3>1 DEF Base, LockInv
    <3>4. \A k \in Jobs : queue'[k] \in {"none", "waiting", "active"} => tries'[k] < Attempts
      BY <2>1 DEF Base, LockInv, TypeOK
    <3> QED BY <3>2, <3>3, <3>4 DEF LockInv
  <2> QED BY <2>6, <2>8, <2>9 DEF Base
<1>2. ASSUME NEW w \in Workers, WorkerCrashes(w) PROVE Base'
  <2>1. /\ wpc' = [wpc EXCEPT ![w] = "idle"] /\ wjob' = [wjob EXCEPT ![w] = NoJob]
        /\ wread' = [wread EXCEPT ![w] = NothingRead] /\ holds' = [holds EXCEPT ![w] = FALSE]
        /\ UNCHANGED <<tables, active, queueVars, outside>>
    BY <1>2 DEF WorkerCrashes
  <2>2. NothingRead \in [tries : 0..Attempts, hooks : SUBSET Hooks, ok : BOOLEAN]
    BY DEF NothingRead, WorkerAssumption
  <2>3. /\ wpc' \in [Workers -> WorkerPCs] /\ wjob' \in [Workers -> Jobs \cup {NoJob}]
        /\ holds' \in [Workers -> BOOLEAN]
        /\ wread' \in [Workers -> [tries : 0..Attempts, hooks : SUBSET Hooks, ok : BOOLEAN]]
        /\ \A v \in Workers : (wjob'[v] = NoJob) <=> (wpc'[v] = "idle")
    BY <2>1, <2>2 DEF Base, TypeOK, WorkerPCs
  <2>4. TypeOK'
    BY <2>1, <2>3 DEF Base, TypeOK, tables, queueVars, outside
  <2>5. /\ wpc'[w] = "idle" /\ ~holds'[w]
        /\ \A v \in Workers \ {w} : wpc'[v] = wpc[v] /\ wjob'[v] = wjob[v] /\ holds'[v] = holds[v]
    BY <2>1 DEF Base, TypeOK
  <2>6. WorkFits'
    BY <2>5 DEF Base, WorkFits, SubmissionPCs, DeliveryPCs
  <2>7. LockInv'
    BY <2>1, <2>5 DEF Base, LockInv, queueVars
  <2> QED BY <2>4, <2>6, <2>7 DEF Base
<1>3. ASSUME NEW w \in Workers, LoseLock(w) PROVE Base'
  <2>1. /\ holds' = [holds EXCEPT ![w] = FALSE]
        /\ UNCHANGED <<tables, active, queueVars, wpc, wjob, wread, outside>>
    BY <1>3 DEF LoseLock
  <2>2. TypeOK'
    BY <2>1 DEF Base, TypeOK, tables, queueVars, outside
  <2>3. \A v \in Workers : holds'[v] => holds[v]
    BY <2>1 DEF Base, TypeOK
  <2>4. WorkFits' /\ LockInv'
    BY <2>1, <2>3 DEF Base, WorkFits, LockInv, queueVars
  <2> QED BY <2>2, <2>4 DEF Base
<1>4. ASSUME NEW j \in Jobs, Redeliver(j) \/ Evict(j) PROVE Base'
  <2>1. /\ queue' \in [Jobs -> {"none", "waiting", "active", "completed", "failed"}]
        /\ UNCHANGED <<tables, active, workerVars, outside>>
    BY <1>4 DEF Redeliver, Evict, Base, TypeOK
  <2>2. tries' \in [Jobs -> 0..Attempts]
    BY <1>4 DEF Redeliver, Evict, Base, TypeOK, WorkerAssumption
  <2>3. stalls' \in [Jobs -> 0..MaxStalls]
    <3>1. stalls[j] \in 0..MaxStalls /\ MaxStalls \in Nat
      BY DEF Base, TypeOK, WorkerAssumption
    <3>2. stalls[j] < MaxStalls => stalls[j] + 1 \in 0..MaxStalls
      BY <3>1
    <3>3. stalls' = stalls \/ (stalls[j] < MaxStalls /\ stalls' = [stalls EXCEPT ![j] = @ + 1])
             \/ stalls' = [stalls EXCEPT ![j] = 0]
      BY <1>4 DEF Redeliver, Evict
    <3> QED BY <3>1, <3>2, <3>3 DEF Base, TypeOK
  <2>4. TypeOK'
    BY <2>1, <2>2, <2>3 DEF Base, TypeOK, tables, workerVars, outside
  <2>5. \A w \in Workers : holds[w] => wjob[w] # j
    BY <1>4 DEF Redeliver, Evict, Base, LockInv
  <2>6. \A k \in Jobs \ {j} : queue'[k] = queue[k] /\ tries'[k] = tries[k]
    BY <1>4 DEF Redeliver, Evict, Base, TypeOK
  <2>7. queue'[j] \in {"none", "waiting", "active"} => tries'[j] < Attempts
    BY <1>4 DEF Redeliver, Evict, Base, LockInv, TypeOK, WorkerAssumption
  <2>8. LockInv'
    BY <2>1, <2>5, <2>6, <2>7 DEF Base, LockInv, TypeOK, workerVars
  <2>9. WorkFits'
    BY <2>1 DEF Base, WorkFits, workerVars
  <2> QED BY <2>4, <2>8, <2>9 DEF Base
<1> QED BY <1>1, <1>2, <1>3, <1>4
\* What a step of an attempt leaves of the types, once its own tables are known.
LEMMA BaseSubmission ==
    ASSUME Base, WorkerAssumption, NEW w \in Workers, ProcessSubmission(w)
    PROVE  Base'
<1>0. wpc[w] \in SubmissionPCs => wjob[w] \in Submissions /\ wjob[w] \in Jobs
  BY DEF Base, WorkFits, Jobs
<1>1. ASSUME FindExisting(w) PROVE Base'
  <2>1. PICK to \in {"files", "persist"} : Goto(w, "existing", to)
    BY <1>1 DEF FindExisting
  <2>2. UNCHANGED <<tables, active, outside, queueVars, wjob, holds, wread>>
    BY <1>1 DEF FindExisting, KeepJob
  <2>3. /\ wpc' \in [Workers -> WorkerPCs]
        /\ \A v \in Workers : (wjob'[v] = NoJob) <=> (wpc'[v] = "idle")
        /\ WorkFits' /\ LockInv'
    BY <2>1, <2>2, MovesWell DEF SubmissionPCs, queueVars
  <2> QED BY <2>2, <2>3 DEF Base, TypeOK, tables, outside, queueVars
<1>2. ASSUME Persist(w) PROVE Base'
  <2>1. wpc[w] = "persist" /\ wjob[w] \in Submissions
    BY <1>2, <1>0 DEF Persist, SubmissionPCs
  <2>2. UNCHANGED <<replica, files, active, outside>>
    BY <1>2 DEF Persist
  <2>3. CASE EndAttempt(w, "persist", TRUE) /\ UNCHANGED <<row, counted, subjects>>
    BY <2>2, <2>3, AttemptEndsWell DEF Base, TypeOK, outside
  <2>4. CASE ~(EndAttempt(w, "persist", TRUE) /\ UNCHANGED <<row, counted, subjects>>)
    <3>1. /\ Goto(w, "persist", "files") /\ KeepJob
          /\ row' = [row EXCEPT ![wjob[w]] = TRUE]
          /\ counted' = [counted EXCEPT ![wjob[w]] = @ + 1]
          /\ subjects' = [subjects EXCEPT ![wjob[w]] =
                             IF Identity[wjob[w]] = NoIdentity THEN 0 ELSE @ + 1]
      BY <1>2, <2>4 DEF Persist
    <3>2. /\ row' \in [Submissions -> BOOLEAN]
          /\ subjects' \in [Submissions -> Nat] /\ counted' \in [Submissions -> Nat]
      BY <3>1, <2>1 DEF Base, TypeOK
    <3>3. UNCHANGED <<queueVars, wjob, holds, wread>>
      BY <3>1 DEF KeepJob
    <3>4. /\ wpc' \in [Workers -> WorkerPCs]
          /\ \A v \in Workers : (wjob'[v] = NoJob) <=> (wpc'[v] = "idle")
          /\ WorkFits' /\ LockInv'
      BY <3>1, <3>3, MovesWell DEF SubmissionPCs, queueVars
    <3> QED BY <2>2, <3>2, <3>3, <3>4 DEF Base, TypeOK, outside, queueVars
  <2> QED BY <2>3, <2>4
<1>3. ASSUME LinkFiles(w) PROVE Base'
  <2>1. Goto(w, "files", "hooks") /\ wjob[w] \in Submissions
    BY <1>3, <1>0 DEF LinkFiles, Goto, SubmissionPCs
  <2>2. UNCHANGED <<row, subjects, counted, replica, active, outside, queueVars, wjob, holds, wread>>
    BY <1>3 DEF LinkFiles, KeepJob
  <2>3. files' \in [Submissions -> {"loose", "linked", "queued"}]
    BY <1>3, <2>1 DEF LinkFiles, Base, TypeOK
  <2>4. /\ wpc' \in [Workers -> WorkerPCs]
        /\ \A v \in Workers : (wjob'[v] = NoJob) <=> (wpc'[v] = "idle")
        /\ WorkFits' /\ LockInv'
    BY <2>1, <2>2, MovesWell DEF SubmissionPCs, queueVars
  <2> QED BY <2>2, <2>3, <2>4 DEF Base, TypeOK, outside, queueVars
<1>4. ASSUME ReadHooks(w) PROVE Base'
  <2>1. /\ Goto(w, "hooks", "enqueue")
        /\ wread' = [wread EXCEPT ![w].hooks = ReadableHooks]
        /\ UNCHANGED <<queueVars, wjob, holds, tables, active, outside>>
    BY <1>4 DEF ReadHooks
  <2>2. wread' \in [Workers -> [tries : 0..Attempts, hooks : SUBSET Hooks, ok : BOOLEAN]]
    <3>1. wread[w] \in [tries : 0..Attempts, hooks : SUBSET Hooks, ok : BOOLEAN]
      BY DEF Base, TypeOK
    <3>2. ReadableHooks \in SUBSET Hooks
      BY DEF ReadableHooks, ActiveHooks, Base, TypeOK
    <3> HIDE DEF ReadableHooks
    <3> QED BY <2>1, <3>1, <3>2 DEF Base, TypeOK
  <2>3. /\ wpc' \in [Workers -> WorkerPCs]
        /\ \A v \in Workers : (wjob'[v] = NoJob) <=> (wpc'[v] = "idle")
        /\ WorkFits' /\ LockInv'
    BY <2>1, MovesWell DEF SubmissionPCs, queueVars
  <2> QED BY <2>1, <2>2, <2>3 DEF Base, TypeOK, tables, outside, queueVars
<1>5. ASSUME EnqueueHooks(w) PROVE Base'
  <2>1. /\ Goto(w, "enqueue", "mail")
        /\ queue' = AddDeliveries(wread[w].hooks, wjob[w])
        /\ UNCHANGED <<tries, stalls, wjob, holds, wread, tables, active, outside>>
    BY <1>5 DEF EnqueueHooks
  <2>2. /\ queue' \in [Jobs -> {"none", "waiting", "active", "completed", "failed"}]
        /\ \A j \in Jobs : queue'[j] = queue[j] \/ (queue[j] = "none" /\ queue'[j] = "waiting")
    BY <2>1, AddsWait
  <2>3. /\ wpc' \in [Workers -> WorkerPCs]
        /\ \A v \in Workers : (wjob'[v] = NoJob) <=> (wpc'[v] = "idle")
        /\ WorkFits' /\ LockInv'
    BY <2>1, <2>2, MovesWell DEF SubmissionPCs
  <2> QED BY <2>1, <2>2, <2>3 DEF Base, TypeOK, tables, outside
<1>6. ASSUME EnqueueHooksFail(w) PROVE Base'
  <2>1. wpc[w] = "enqueue" /\ UNCHANGED <<tables, active, outside>>
    BY <1>6, EnqueueFailsEnds DEF EnqueueHooksFail
  <2>2. PICK added \in SUBSET wread[w].hooks, result \in {"failed", "waiting"} :
          /\ Ended(w, AddDeliveries(added, wjob[w]), result, TRUE)
          /\ result = "waiting" => tries[wjob[w]] + 1 < Attempts
    BY <1>6, EnqueueFailsEnds
  <2> DEFINE queued == AddDeliveries(added, wjob[w])
  <2>3. /\ queued \in [Jobs -> {"none", "waiting", "active", "completed", "failed"}]
        /\ \A j \in Jobs : queued[j] = queue[j] \/ (queue[j] = "none" /\ queued[j] = "waiting")
    BY AddsWait
  <2> HIDE DEF queued
  <2>4. Ended(w, queued, result, TRUE)
    BY <2>2 DEF queued
  <2>5. wpc[w] # "idle" /\ UNCHANGED <<tables, active, outside>>
    BY <2>1
  <2>6. /\ queue' \in [Jobs -> {"none", "waiting", "active", "completed", "failed"}]
        /\ tries' \in [Jobs -> 0..Attempts] /\ stalls' \in [Jobs -> 0..MaxStalls]
        /\ wpc' \in [Workers -> WorkerPCs] /\ wjob' \in [Workers -> Jobs \cup {NoJob}]
        /\ wread' \in [Workers -> [tries : 0..Attempts, hooks : SUBSET Hooks, ok : BOOLEAN]]
        /\ holds' \in [Workers -> BOOLEAN]
        /\ \A v \in Workers : (wjob'[v] = NoJob) <=> (wpc'[v] = "idle")
        /\ WorkFits' /\ LockInv'
    BY <2>2, <2>3, <2>4, <2>5, EndsWell
  <2>7. TypeOK'
    BY <2>5, <2>6 DEF Base, TypeOK, tables, outside
  <2> QED BY <2>6, <2>7 DEF Base
<1>7. ASSUME SendMail(w) PROVE Base'
  <2>1. /\ EndAttempt(w, "mail", FALSE) /\ mailed' = mailed \cup {wjob[w]}
        /\ UNCHANGED <<tables, active, received, recorded, told>>
    BY <1>7 DEF SendMail
  <2>2. mailed' \subseteq Submissions
    BY <2>1, <1>0 DEF EndAttempt, Goto, SubmissionPCs, Base, TypeOK
  <2> QED BY <2>1, <2>2, AttemptEndsWell DEF Base, TypeOK, tables
<1> QED BY <1>1, <1>2, <1>3, <1>4, <1>5, <1>6, <1>7 DEF ProcessSubmission

LEMMA BaseDelivery ==
    ASSUME Base, WorkerAssumption, NEW w \in Workers, DeliverWebhook(w)
    PROVE  Base'
<1>0. wpc[w] \in DeliveryPCs => wjob[w] \in Deliveries /\ wjob[w] \in Jobs
  BY DEF Base, WorkFits, Jobs
<1>1. ASSUME LoadHook(w) PROVE Base'
  <2>1. UNCHANGED <<tables, active, outside>>
    BY <1>1 DEF LoadHook
  <2>2. CASE EndAttempt(w, "load", FALSE)
    BY <2>1, <2>2, AttemptEndsWell DEF Base, TypeOK, tables, outside
  <2>3. CASE ~EndAttempt(w, "load", FALSE)
    <3>1. PICK to \in {"post", "block"} : Goto(w, "load", to)
      BY <1>1, <2>3 DEF LoadHook
    <3>2. UNCHANGED <<queueVars, wjob, holds, wread>>
      BY <1>1, <2>3 DEF LoadHook, KeepJob
    <3>3. /\ wpc' \in [Workers -> WorkerPCs]
          /\ \A v \in Workers : (wjob'[v] = NoJob) <=> (wpc'[v] = "idle")
          /\ WorkFits' /\ LockInv'
      BY <3>1, <3>2, MovesWell DEF DeliveryPCs, queueVars
    <3> QED BY <2>1, <3>2, <3>3 DEF Base, TypeOK, tables, outside, queueVars
  <2> QED BY <2>2, <2>3
<1>2. ASSUME RecordBlocked(w) \/ Deactivate(w) PROVE Base'
  <2>1. PICK from \in DeliveryPCs, to \in DeliveryPCs : Goto(w, from, to)
    BY <1>2 DEF RecordBlocked, Deactivate, DeliveryPCs
  <2>2. UNCHANGED <<tables, outside, queueVars, wjob, holds, wread>>
    BY <1>2 DEF RecordBlocked, Deactivate, KeepJob
  <2>3. active' \in [Hooks -> BOOLEAN]
    BY <1>2 DEF RecordBlocked, Deactivate, Base, TypeOK
  <2>4. /\ wpc' \in [Workers -> WorkerPCs]
        /\ \A v \in Workers : (wjob'[v] = NoJob) <=> (wpc'[v] = "idle")
        /\ WorkFits' /\ LockInv'
    BY <2>1, <2>2, MovesWell DEF queueVars
  <2> QED BY <2>2, <2>3, <2>4 DEF Base, TypeOK, tables, outside, queueVars
<1>3. ASSUME TellDeactivated(w) \/ TellFailed(w) PROVE Base'
  <2>1. PICK from \in DeliveryPCs, threw \in BOOLEAN : EndAttempt(w, from, threw)
    BY <1>3 DEF TellDeactivated, TellFailed, DeliveryPCs
  <2>2. UNCHANGED <<tables, active, received, recorded, mailed>>
    BY <1>3 DEF TellDeactivated, TellFailed
  <2>3. wjob[w] \in Deliveries
    BY <1>0, <2>1 DEF EndAttempt, Goto
  <2>4. told' \subseteq {"off", "failed"} \X Deliveries
    <3>1. told' = told \/ \E what \in {"off", "failed"} : told' = told \cup {<<what, wjob[w]>>}
      BY <1>3 DEF TellDeactivated, TellFailed, NotifyFailure
    <3>2. told \subseteq {"off", "failed"} \X Deliveries
      BY DEF Base, TypeOK
    <3> QED BY <3>1, <3>2, <2>3
  <2>5. from # "idle"
    BY DEF DeliveryPCs
  <2>6. /\ queue' \in [Jobs -> {"none", "waiting", "active", "completed", "failed"}]
        /\ tries' \in [Jobs -> 0..Attempts] /\ stalls' \in [Jobs -> 0..MaxStalls]
        /\ wpc' \in [Workers -> WorkerPCs] /\ wjob' \in [Workers -> Jobs \cup {NoJob}]
        /\ wread' \in [Workers -> [tries : 0..Attempts, hooks : SUBSET Hooks, ok : BOOLEAN]]
        /\ holds' \in [Workers -> BOOLEAN]
        /\ \A v \in Workers : (wjob'[v] = NoJob) <=> (wpc'[v] = "idle")
        /\ WorkFits' /\ LockInv'
    BY <2>1, <2>5, AttemptEndsWell
  <2>7. TypeOK'
    BY <2>2, <2>4, <2>6 DEF Base, TypeOK, tables
  <2> QED BY <2>6, <2>7 DEF Base
<1>4. ASSUME PostDelivery(w) PROVE Base'
  <2>1. /\ Goto(w, "post", "record") /\ wjob[w] \in Deliveries
        /\ UNCHANGED <<queueVars, wjob, holds, tables, active, recorded, told, mailed>>
    BY <1>4, <1>0 DEF PostDelivery, Goto, DeliveryPCs
  <2>2. received' \subseteq Deliveries
    BY <1>4, <2>1 DEF PostDelivery, Base, TypeOK
  <2>3. wread' \in [Workers -> [tries : 0..Attempts, hooks : SUBSET Hooks, ok : BOOLEAN]]
    <3>1. wread[w] \in [tries : 0..Attempts, hooks : SUBSET Hooks, ok : BOOLEAN]
      BY DEF Base, TypeOK
    <3>2. wread' = wread \/ wread' = [wread EXCEPT ![w].ok = TRUE]
      BY <1>4 DEF PostDelivery
    <3>3. [wread[w] EXCEPT !.ok = TRUE] \in [tries : 0..Attempts, hooks : SUBSET Hooks, ok : BOOLEAN]
      BY <3>1
    <3>4. wread \in [Workers -> [tries : 0..Attempts, hooks : SUBSET Hooks, ok : BOOLEAN]]
      BY DEF Base, TypeOK
    <3> QED BY <3>2, <3>3, <3>4
  <2>4. /\ wpc' \in [Workers -> WorkerPCs]
        /\ \A v \in Workers : (wjob'[v] = NoJob) <=> (wpc'[v] = "idle")
        /\ WorkFits' /\ LockInv'
    BY <2>1, MovesWell DEF DeliveryPCs, queueVars
  <2> QED BY <2>1, <2>2, <2>3, <2>4 DEF Base, TypeOK, tables, queueVars
<1>5. ASSUME RecordDelivery(w) PROVE Base'
  <2>1. PICK to \in {"done", "tell", "throw"} : Goto(w, "record", to)
    BY <1>5 DEF RecordDelivery
  <2>2. UNCHANGED <<tables, active, received, told, mailed, queueVars, wjob, holds, wread>>
    BY <1>5 DEF RecordDelivery, KeepJob
  <2>3. recorded' \subseteq Deliveries
    BY <1>5, <1>0, <2>1 DEF RecordDelivery, Goto, DeliveryPCs, Base, TypeOK
  <2>4. /\ wpc' \in [Workers -> WorkerPCs]
        /\ \A v \in Workers : (wjob'[v] = NoJob) <=> (wpc'[v] = "idle")
        /\ WorkFits' /\ LockInv'
    BY <2>1, <2>2, MovesWell DEF DeliveryPCs, queueVars
  <2> QED BY <2>2, <2>3, <2>4 DEF Base, TypeOK, tables, queueVars
<1>6. ASSUME EndDelivery(w) PROVE Base'
  <2>1. PICK from \in {"done", "throw"}, threw \in BOOLEAN : EndAttempt(w, from, threw)
    BY <1>6 DEF EndDelivery
  <2>2. UNCHANGED <<tables, active, outside>>
    BY <1>6 DEF EndDelivery
  <2>3. from # "idle"
    OBVIOUS
  <2>4. /\ queue' \in [Jobs -> {"none", "waiting", "active", "completed", "failed"}]
        /\ tries' \in [Jobs -> 0..Attempts] /\ stalls' \in [Jobs -> 0..MaxStalls]
        /\ wpc' \in [Workers -> WorkerPCs] /\ wjob' \in [Workers -> Jobs \cup {NoJob}]
        /\ wread' \in [Workers -> [tries : 0..Attempts, hooks : SUBSET Hooks, ok : BOOLEAN]]
        /\ holds' \in [Workers -> BOOLEAN]
        /\ \A v \in Workers : (wjob'[v] = NoJob) <=> (wpc'[v] = "idle")
        /\ WorkFits' /\ LockInv'
    BY <2>1, <2>3, AttemptEndsWell
  <2>5. TypeOK'
    BY <2>2, <2>4 DEF Base, TypeOK, tables, outside
  <2> QED BY <2>4, <2>5 DEF Base
<1> QED BY <1>1, <1>2, <1>3, <1>4, <1>5, <1>6 DEF DeliverWebhook

LEMMA BaseStep ==
    ASSUME Base, WorkerAssumption, [Next]_vars PROVE Base'
<1>1. ASSUME NEW w \in Workers, Throws(w) PROVE Base'
  <2>1. wpc[w] # "idle" /\ EndAttempt(w, wpc[w], TRUE) /\ UNCHANGED <<tables, active, outside>>
    BY <1>1 DEF Throws
  <2> QED BY <2>1, AttemptEndsWell DEF Base, TypeOK, tables, outside
<1>2. ASSUME UNCHANGED vars PROVE Base'
  <2>1. TypeOK'
    BY <1>2 DEF Base, TypeOK, vars, tables, queueVars, workerVars, outside
  <2>2. WorkFits' /\ LockInv'
    BY <1>2 DEF Base, WorkFits, LockInv, vars, queueVars, workerVars
  <2> QED BY <2>1, <2>2 DEF Base
<1> QED BY <1>1, <1>2, BaseCallers, BaseQueue, BaseSubmission, BaseDelivery DEF Next, Work

\* The types, and which worker runs which job, hold in every run.
THEOREM BaseAlways == Spec => []Base
<1>1. Init => Base
  BY WorkerAssumption, BaseInit
<1>2. Base /\ [Next]_vars => Base'
  BY WorkerAssumption, BaseStep
<1> QED BY <1>1, <1>2, PTL DEF Spec

\* The types hold, and a worker has a job exactly while it is not idle.
THEOREM TypeCorrect == Spec => []TypeOK
<1>1. Base => TypeOK
  BY DEF Base
<1> QED BY <1>1, BaseAlways, PTL
-----------------------------------------------------------------------------
(* Rows: what is running or queued, and what must be stored for it.        *)

StoredPCs == {"files", "hooks", "enqueue", "mail"}

\* A report's job and a delivery are only added once the row is stored, an
\* attempt past its transaction has stored it, and a reader shows no row that
\* the primary does not have.
RowInv ==
    /\ \A s \in Filed : queue[s] # "none" => row[s]
    /\ \A j \in Deliveries : queue[j] # "none" => row[j[2]]
    /\ \A w \in Workers : wjob[w] \in Filed => row[wjob[w]]
    /\ \A w \in Workers : wjob[w] \in Deliveries => row[wjob[w][2]]
    /\ \A w \in Workers : wpc[w] \in StoredPCs => row[wjob[w]]
    /\ replica.rows \subseteq Stored

\* What every step keeps of the rows, the queue, the workers and the replica.
RowsKept == \A s \in Submissions : row[s] => row'[s]
QueueJustified ==
    \A j \in Jobs : queue'[j] # "none" =>
        \/ queue[j] # "none"
        \/ j \in Submissions /\ (j \in Filed => row[j])
        \/ j \in Deliveries /\ row[j[2]]
WorkJustified ==
    \A w \in Workers :
        /\ wjob'[w] = wjob[w] \/ wjob'[w] = NoJob
              \/ (wjob'[w] \in Jobs /\ queue[wjob'[w]] # "none")
        /\ wpc'[w] \in StoredPCs =>
              wjob'[w] = wjob[w] /\ (wpc[w] \in StoredPCs \/ row'[wjob[w]])
ReplicaJustified == replica'.rows \subseteq replica.rows \cup Stored
Justified == RowsKept /\ QueueJustified /\ WorkJustified /\ ReplicaJustified

LEMMA JustifiedKeeps ==
    ASSUME Base, Base', WorkerAssumption, RowInv, Justified
    PROVE  RowInv'
<1>0. \A j \in Deliveries : j[2] \in Submissions /\ j \in Jobs /\ j \notin Submissions /\ j \notin Filed
  BY DEF Deliveries, Jobs, WorkerAssumption
<1>1. \A s \in Filed : s \in Submissions /\ s \in Jobs /\ s \notin Deliveries
  BY DEF WorkerAssumption, Jobs
<1>2. \A s \in Filed : queue'[s] # "none" => row'[s]
  BY <1>1 DEF Justified, RowsKept, QueueJustified, RowInv
<1>3. \A j \in Deliveries : queue'[j] # "none" => row'[j[2]]
  BY <1>0 DEF Justified, RowsKept, QueueJustified, RowInv
<1>4. \A w \in Workers : wjob'[w] \in Filed => row'[wjob'[w]]
  BY <1>1 DEF Justified, RowsKept, WorkJustified, RowInv, WorkerAssumption, Jobs
<1>5. \A w \in Workers : wjob'[w] \in Deliveries => row'[wjob'[w][2]]
  BY <1>0 DEF Justified, RowsKept, WorkJustified, RowInv, WorkerAssumption, Jobs
<1>6. ASSUME NEW w \in Workers, wpc'[w] \in StoredPCs PROVE row'[wjob'[w]]
  <2>1. wjob'[w] = wjob[w] /\ (wpc[w] \in StoredPCs \/ row'[wjob[w]])
    BY <1>6 DEF Justified, WorkJustified
  <2>2. wpc[w] \in StoredPCs => row[wjob[w]] /\ wjob[w] \in Submissions
    BY DEF RowInv, Base, WorkFits, StoredPCs, SubmissionPCs
  <2> QED BY <2>1, <2>2 DEF Justified, RowsKept
<1>7. replica'.rows \subseteq Stored'
  BY DEF Justified, RowsKept, ReplicaJustified, RowInv, Stored
<1> QED BY <1>2, <1>3, <1>4, <1>5, <1>6, <1>7 DEF RowInv

\* The steps that touch neither the queue's "none" entries nor a worker's job.
LEMMA EndJustified ==
    ASSUME Base, WorkerAssumption, NEW w \in Workers, wpc[w] # "idle",
           NEW queued, NEW result, NEW tried, Ended(w, queued, result, tried),
           queued \in [Jobs -> {"none", "waiting", "active", "completed", "failed"}],
           \A j \in Jobs : queued[j] = queue[j] \/ (j \in Deliveries /\ row[j[2]]),
           UNCHANGED <<row, replica>>
    PROVE  Justified
<1>1. WorkJustified
  BY DEF Ended, WorkJustified, Base, TypeOK, StoredPCs
<1>2. \A j \in Jobs : queue'[j] = queued[j] \/ (holds[w] /\ j = wjob[w])
  BY DEF Ended
<1>3. holds[w] => queue[wjob[w]] = "active"
  BY DEF Base, LockInv
<1>4. QueueJustified
  BY <1>2, <1>3 DEF QueueJustified
<1> QED BY <1>1, <1>4 DEF Justified, RowsKept, ReplicaJustified

LEMMA AttemptJustified ==
    ASSUME Base, WorkerAssumption, NEW w \in Workers, NEW from, from # "idle",
           NEW threw \in BOOLEAN, EndAttempt(w, from, threw),
           UNCHANGED <<row, replica>>
    PROVE  Justified
<1>1. queue \in [Jobs -> {"none", "waiting", "active", "completed", "failed"}]
  BY DEF Base, TypeOK
<1> QED BY <1>1, AttemptEnds, EndJustified

LEMMA MoveJustified ==
    ASSUME Base, WorkerAssumption, NEW w \in Workers, NEW from, NEW to, Goto(w, from, to),
           to \in StoredPCs => from \in StoredPCs \/ row'[wjob[w]],
           RowsKept, UNCHANGED <<queue, wjob, replica>>
    PROVE  Justified
<1>1. WorkJustified
  BY DEF Goto, WorkJustified, Base, TypeOK
<1> QED BY <1>1 DEF Justified, QueueJustified, ReplicaJustified

LEMMA RowSubmission ==
    ASSUME Base, WorkerAssumption, RowInv, NEW w \in Workers, ProcessSubmission(w)
    PROVE  Justified
<1>0. wpc[w] \in SubmissionPCs => wjob[w] \in Submissions /\ wjob[w] \in Jobs
  BY DEF Base, WorkFits, Jobs
<1>1. ASSUME FindExisting(w) PROVE Justified
  <2>1. PICK to \in {"files", "persist"} :
            Goto(w, "existing", to) /\ (to = "files" => wjob[w] \in ReadableRows)
    BY <1>1 DEF FindExisting
  <2>2. UNCHANGED <<row, replica, queue, wjob>>
    BY <1>1 DEF FindExisting, KeepJob, tables, queueVars
  <2>3. wjob[w] \in ReadableRows => row[wjob[w]]
    BY DEF ReadableRows, RowInv, Stored
  <2>4. RowsKept /\ (to \in StoredPCs => row'[wjob[w]])
    BY <2>1, <2>2, <2>3 DEF RowsKept, StoredPCs
  <2> QED BY <2>1, <2>2, <2>4, MoveJustified
<1>2. ASSUME Persist(w) PROVE Justified
  <2>1. CASE EndAttempt(w, "persist", TRUE) /\ UNCHANGED row
    BY <1>2, <2>1, AttemptJustified DEF Persist
  <2>2. CASE ~(EndAttempt(w, "persist", TRUE) /\ UNCHANGED row)
    <3>1. /\ Goto(w, "persist", "files") /\ KeepJob
          /\ row' = [row EXCEPT ![wjob[w]] = TRUE] /\ UNCHANGED replica
      BY <1>2, <2>2 DEF Persist
    <3>2. RowsKept /\ row'[wjob[w]]
      BY <3>1, <1>0 DEF RowsKept, Base, TypeOK, Goto, SubmissionPCs
    <3>3. UNCHANGED <<queue, wjob>>
      BY <3>1 DEF KeepJob, queueVars
    <3> QED BY <3>1, <3>2, <3>3, MoveJustified
  <2> QED BY <2>1, <2>2
<1>3. ASSUME LinkFiles(w) \/ ReadHooks(w) PROVE Justified
  <2>1. PICK from \in StoredPCs, to \in StoredPCs : Goto(w, from, to)
    BY <1>3 DEF LinkFiles, ReadHooks, StoredPCs
  <2>2. UNCHANGED <<row, replica, queue, wjob>>
    BY <1>3 DEF LinkFiles, ReadHooks, KeepJob, tables, queueVars
  <2>3. RowsKept
    BY <2>2 DEF RowsKept
  <2> QED BY <2>1, <2>2, <2>3, MoveJustified
<1>4. \A added \in SUBSET wread[w].hooks : wpc[w] = "enqueue" =>
         \A j \in Jobs : \/ AddDeliveries(added, wjob[w])[j] = queue[j]
                         \/ j \in Deliveries /\ row[j[2]]
  <2> SUFFICES ASSUME NEW added \in SUBSET wread[w].hooks, wpc[w] = "enqueue", NEW j \in Jobs,
                      AddDeliveries(added, wjob[w])[j] # queue[j]
               PROVE  j \in Deliveries /\ row[j[2]]
    OBVIOUS
  <2>1. j \in added \X {wjob[w]}
    BY AddsWait
  <2>2. wread[w].hooks \subseteq Hooks
    <3>1. wread[w] \in [tries : 0..Attempts, hooks : SUBSET Hooks, ok : BOOLEAN]
      BY DEF Base, TypeOK
    <3> QED BY <3>1
  <2>3. wjob[w] \in Submissions /\ row[wjob[w]]
    BY <1>0 DEF RowInv, StoredPCs, SubmissionPCs
  <2> QED BY <2>1, <2>2, <2>3 DEF Deliveries
<1>5. ASSUME EnqueueHooks(w) PROVE Justified
  <2>1. /\ Goto(w, "enqueue", "mail") /\ wpc[w] = "enqueue"
        /\ queue' = AddDeliveries(wread[w].hooks, wjob[w])
        /\ UNCHANGED <<row, replica, wjob>>
    BY <1>5 DEF EnqueueHooks, Goto, tables
  <2>2. QueueJustified
    BY <2>1, <1>4 DEF QueueJustified
  <2>3. WorkJustified
    BY <2>1 DEF WorkJustified, Goto, Base, TypeOK, StoredPCs
  <2> QED BY <2>1, <2>2, <2>3 DEF Justified, RowsKept, ReplicaJustified
<1>6. ASSUME EnqueueHooksFail(w) PROVE Justified
  <2>1. wpc[w] = "enqueue" /\ wpc[w] # "idle" /\ UNCHANGED <<row, replica>>
    BY <1>6, EnqueueFailsEnds DEF EnqueueHooksFail, tables
  <2>2. PICK added \in SUBSET wread[w].hooks, result \in {"failed", "waiting"} :
          Ended(w, AddDeliveries(added, wjob[w]), result, TRUE)
    BY <1>6, EnqueueFailsEnds
  <2> DEFINE queued == AddDeliveries(added, wjob[w])
  <2>3. /\ queued \in [Jobs -> {"none", "waiting", "active", "completed", "failed"}]
        /\ \A j \in Jobs : queued[j] = queue[j] \/ (j \in Deliveries /\ row[j[2]])
    BY <2>1, <1>4, AddsWait
  <2>4. Ended(w, queued, result, TRUE)
    BY <2>2
  <2> HIDE DEF queued
  <2> QED BY <2>1, <2>3, <2>4, EndJustified
<1>7. ASSUME SendMail(w) PROVE Justified
  <2>1. EndAttempt(w, "mail", FALSE) /\ UNCHANGED <<row, replica>>
    BY <1>7 DEF SendMail, tables
  <2> QED BY <2>1, AttemptJustified
<1> QED BY <1>1, <1>2, <1>3, <1>5, <1>6, <1>7 DEF ProcessSubmission

LEMMA RowDelivery ==
    ASSUME Base, WorkerAssumption, NEW w \in Workers, DeliverWebhook(w)
    PROVE  Justified
<1>1. UNCHANGED <<row, replica>>
  BY DEF DeliverWebhook, LoadHook, RecordBlocked, Deactivate, TellDeactivated, PostDelivery,
         RecordDelivery, EndDelivery, TellFailed, tables
<1>2. CASE \E from \in DeliveryPCs, threw \in BOOLEAN : EndAttempt(w, from, threw)
  <2>1. \A from \in DeliveryPCs : from # "idle"
    BY DEF DeliveryPCs
  <2> QED BY <1>1, <1>2, <2>1, AttemptJustified
<1>3. CASE ~(\E from \in DeliveryPCs, threw \in BOOLEAN : EndAttempt(w, from, threw))
  <2>1. /\ \E from, to \in DeliveryPCs : Goto(w, from, to)
        /\ UNCHANGED <<queue, wjob>>
    <3>1. CASE LoadHook(w)
      BY <1>3, <3>1 DEF LoadHook, KeepJob, queueVars, DeliveryPCs
    <3>2. CASE RecordBlocked(w) \/ Deactivate(w)
      BY <3>2 DEF RecordBlocked, Deactivate, KeepJob, queueVars, DeliveryPCs
    <3>3. CASE PostDelivery(w)
      BY <3>3 DEF PostDelivery, queueVars, DeliveryPCs
    <3>4. CASE RecordDelivery(w)
      BY <3>4 DEF RecordDelivery, KeepJob, queueVars, DeliveryPCs
    <3>5. CASE TellDeactivated(w) \/ EndDelivery(w) \/ TellFailed(w)
      BY <1>3, <3>5 DEF TellDeactivated, EndDelivery, TellFailed, DeliveryPCs
    <3> QED BY <3>1, <3>2, <3>3, <3>4, <3>5 DEF DeliverWebhook
  <2>2. RowsKept /\ StoredPCs \cap DeliveryPCs = {}
    BY <1>1 DEF RowsKept, StoredPCs, DeliveryPCs
  <2> QED BY <1>1, <2>1, <2>2, MoveJustified
<1> QED BY <1>2, <1>3
LEMMA RowStep ==
    ASSUME Base, WorkerAssumption, RowInv, [Next]_vars PROVE Justified
<1>1. ASSUME NEW s \in Submissions, FileReport(s) PROVE Justified
  <2>1. row' = [row EXCEPT ![s] = TRUE] /\ UNCHANGED <<replica, queue, wpc, wjob>>
    BY <1>1 DEF FileReport, queueVars, workerVars
  <2> QED BY <2>1 DEF Justified, RowsKept, QueueJustified, WorkJustified, ReplicaJustified, Base, TypeOK
<1>2. ASSUME NEW s \in Submissions, Enqueue(s) PROVE Justified
  <2>1. /\ s \in Filed => row[s]
        /\ queue' = [queue EXCEPT ![s] = "waiting"] /\ UNCHANGED <<row, replica, wpc, wjob>>
    BY <1>2 DEF Enqueue, tables, workerVars
  <2>2. QueueJustified
    BY <2>1 DEF QueueJustified, Base, TypeOK
  <2> QED BY <2>1, <2>2 DEF Justified, RowsKept, WorkJustified, ReplicaJustified
<1>3. ASSUME NEW w \in Workers, NEW j \in Jobs, TakeJob(w, j) PROVE Justified
  <2>1. /\ queue[j] = "waiting" /\ queue' = [queue EXCEPT ![j] = "active"]
        /\ wjob' = [wjob EXCEPT ![w] = j] /\ UNCHANGED <<row, replica>>
        /\ wpc' = [wpc EXCEPT ![w] = IF j \in Submissions THEN "existing" ELSE "load"]
    BY <1>3 DEF TakeJob, Goto, tables
  <2>2. QueueJustified /\ WorkJustified
    BY <2>1 DEF QueueJustified, WorkJustified, StoredPCs, Base, TypeOK
  <2> QED BY <2>1, <2>2 DEF Justified, RowsKept, ReplicaJustified
<1>4. ASSUME NEW w \in Workers, WorkerCrashes(w) \/ LoseLock(w) PROVE Justified
  <2>1. UNCHANGED <<row, replica, queue>>
    BY <1>4 DEF WorkerCrashes, LoseLock, tables, queueVars
  <2>2. WorkJustified
    BY <1>4 DEF WorkerCrashes, LoseLock, WorkJustified, StoredPCs, Base, TypeOK
  <2> QED BY <2>1, <2>2 DEF Justified, RowsKept, QueueJustified, ReplicaJustified
<1>5. ASSUME NEW j \in Jobs, Redeliver(j) \/ Evict(j) PROVE Justified
  <2>1. UNCHANGED <<row, replica, wpc, wjob>>
    BY <1>5 DEF Redeliver, Evict, tables, workerVars
  <2>2. QueueJustified
    BY <1>5 DEF Redeliver, Evict, QueueJustified, Base, TypeOK
  <2> QED BY <2>1, <2>2 DEF Justified, RowsKept, WorkJustified, ReplicaJustified
<1>6. ASSUME NEW w \in Workers, Throws(w) PROVE Justified
  <2>1. wpc[w] # "idle" /\ EndAttempt(w, wpc[w], TRUE) /\ UNCHANGED <<row, replica>>
    BY <1>6 DEF Throws, tables
  <2> QED BY <2>1, AttemptJustified
<1>7. ASSUME (\E h \in Hooks : DeleteWebhook(h)) \/ Replicate \/ UNCHANGED vars PROVE Justified
  <2>1. UNCHANGED <<row, queue, wpc, wjob>> /\ replica'.rows \subseteq replica.rows \cup Stored
    BY <1>7 DEF DeleteWebhook, Replicate, vars, tables, queueVars, workerVars
  <2> QED BY <2>1 DEF Justified, RowsKept, QueueJustified, WorkJustified, ReplicaJustified
<1> QED BY <1>1, <1>2, <1>3, <1>4, <1>5, <1>6, <1>7, RowSubmission, RowDelivery DEF Next, Work

LEMMA RowInit ==
    ASSUME WorkerAssumption, Init PROVE RowInv
BY DEF Init, RowInv, StoredPCs, WorkerAssumption, Jobs, Deliveries

\* Jobs, attempts and the replica never run ahead of the stored rows.
THEOREM RowsAlways == Spec => []RowInv
<1>1. Init => RowInv
  BY WorkerAssumption, RowInit
<1>2. Base /\ RowInv /\ [Next]_vars => RowInv'
  BY WorkerAssumption, BaseStep, RowStep, JustifiedKeeps
<1> QED BY <1>1, <1>2, BaseAlways, PTL DEF Spec

-----------------------------------------------------------------------------
(* A submission is persisted once.                                         *)

\* One transaction writes the row, the record and the count of the day, and
\* only where there was no row.
WritesOnce ==
    \/ UNCHANGED <<row, subjects, counted>>
    \/ \E s \in Submissions :
          /\ ~row[s] /\ ~IdentityTaken(s)
          /\ row' = [row EXCEPT ![s] = TRUE]
          /\ \/ /\ s \notin Filed
                /\ counted' = [counted EXCEPT ![s] = @ + 1]
                /\ subjects' = [subjects EXCEPT ![s] =
                                   IF Identity[s] = NoIdentity THEN 0 ELSE @ + 1]
             \/ /\ s \in Filed /\ UNCHANGED counted
                /\ subjects' = [subjects EXCEPT ![s] =
                                   IF Identity[s] = NoIdentity THEN 0 ELSE 1]

LEMMA StepWritesOnce ==
    ASSUME Base, WorkerAssumption, RowInv, [Next]_vars PROVE WritesOnce
<1>1. ASSUME NEW s \in Submissions, FileReport(s) PROVE WritesOnce
  BY <1>1 DEF FileReport, WritesOnce
<1>2. ASSUME NEW w \in Workers, Persist(w) PROVE WritesOnce
  <2>1. wjob[w] \in Submissions /\ (wjob[w] \in Filed => row[wjob[w]])
    BY <1>2 DEF Persist, Base, WorkFits, SubmissionPCs, RowInv
  <2> QED BY <1>2, <2>1 DEF Persist, WritesOnce
<1>3. ASSUME NEW w \in Workers, ProcessSubmission(w), ~Persist(w) PROVE UNCHANGED <<row, subjects, counted>>
  BY <1>3 DEF ProcessSubmission, FindExisting, LinkFiles, ReadHooks, EnqueueHooks, EnqueueHooksFail,
              SendMail, tables
<1>4. ASSUME NEW w \in Workers, DeliverWebhook(w) PROVE UNCHANGED <<row, subjects, counted>>
  BY <1>4 DEF DeliverWebhook, LoadHook, RecordBlocked, Deactivate, TellDeactivated, PostDelivery,
              RecordDelivery, EndDelivery, TellFailed, tables
<1>5. ASSUME NEW w \in Workers, Throws(w) \/ WorkerCrashes(w) \/ LoseLock(w)
      PROVE  UNCHANGED <<row, subjects, counted>>
  BY <1>5 DEF Throws, WorkerCrashes, LoseLock, tables
<1>6. ASSUME NEW j \in Jobs, Redeliver(j) \/ Evict(j) \/ \E w \in Workers : TakeJob(w, j)
      PROVE  UNCHANGED <<row, subjects, counted>>
  BY <1>6 DEF Redeliver, Evict, TakeJob, tables
<1>7. ASSUME \/ \E s \in Submissions : Enqueue(s)
             \/ \E h \in Hooks : DeleteWebhook(h)
             \/ Replicate \/ UNCHANGED vars
      PROVE  UNCHANGED <<row, subjects, counted>>
  BY <1>7 DEF Enqueue, DeleteWebhook, Replicate, vars, tables
<1> QED BY <1>1, <1>2, <1>3, <1>4, <1>5, <1>6, <1>7 DEF Next, Work, WritesOnce

\* The row, the record and the count of a submission come together and once,
\* whatever is retried, redelivered or run twice.
THEOREM PersistedOnceAlways == Spec => []PersistedOnce
<1>1. Init => PersistedOnce
  BY DEF Init, PersistedOnce
<1>2. ASSUME Base, RowInv, PersistedOnce, [Next]_vars PROVE PersistedOnce'
  <2>1. WritesOnce
    BY <1>2, WorkerAssumption, StepWritesOnce
  <2>2. CASE UNCHANGED <<row, subjects, counted>>
    BY <1>2, <2>2 DEF PersistedOnce
  <2>3. CASE ~UNCHANGED <<row, subjects, counted>>
    <3>1. PICK s \in Submissions :
          /\ ~row[s] /\ ~IdentityTaken(s)
          /\ row' = [row EXCEPT ![s] = TRUE]
          /\ \/ /\ s \notin Filed
                /\ counted' = [counted EXCEPT ![s] = @ + 1]
                /\ subjects' = [subjects EXCEPT ![s] =
                                   IF Identity[s] = NoIdentity THEN 0 ELSE @ + 1]
             \/ /\ s \in Filed /\ UNCHANGED counted
                /\ subjects' = [subjects EXCEPT ![s] =
                                   IF Identity[s] = NoIdentity THEN 0 ELSE 1]
      BY <2>1, <2>3 DEF WritesOnce
    <3>2. subjects[s] = 0 /\ counted[s] = 0
      BY <1>2, <3>1 DEF PersistedOnce
    <3>3. row'[s] /\ subjects'[s] = IF Identity[s] # NoIdentity THEN 1 ELSE 0
      BY <1>2, <3>1, <3>2 DEF Base, TypeOK
    <3>4. counted'[s] = IF s \notin Filed THEN 1 ELSE 0
      BY <1>2, <3>1, <3>2 DEF Base, TypeOK
    <3>5. \A t \in Submissions \ {s} :
             row'[t] = row[t] /\ subjects'[t] = subjects[t] /\ counted'[t] = counted[t]
      BY <1>2, <3>1 DEF Base, TypeOK
    <3>6. ASSUME NEW t \in Submissions
          PROVE  /\ subjects'[t] = IF row'[t] /\ Identity[t] # NoIdentity THEN 1 ELSE 0
                 /\ counted'[t] = IF row'[t] /\ t \notin Filed THEN 1 ELSE 0
      <4>1. CASE t = s
        BY <4>1, <3>3, <3>4
      <4>2. CASE t # s
        BY <4>2, <3>5, <1>2 DEF PersistedOnce
      <4> QED BY <4>1, <4>2
    <3> QED BY <3>6 DEF PersistedOnce
  <2> QED BY <2>2, <2>3
<1> QED BY <1>1, <1>2, BaseAlways, RowsAlways, PTL DEF Spec

\* No two stored submissions registered the same record.
THEOREM IdentityUniqueAlways == Spec => []IdentityUnique
<1>1. Init => IdentityUnique
  BY DEF Init, IdentityUnique
<1>2. ASSUME Base, RowInv, IdentityUnique, [Next]_vars PROVE IdentityUnique'
  <2>1. WritesOnce
    BY <1>2, WorkerAssumption, StepWritesOnce
  <2>2. CASE UNCHANGED row
    BY <1>2, <2>2 DEF IdentityUnique
  <2>3. CASE ~UNCHANGED row
    <3>1. PICK s \in Submissions :
             ~row[s] /\ ~IdentityTaken(s) /\ row' = [row EXCEPT ![s] = TRUE]
      BY <2>1, <2>3 DEF WritesOnce
    <3>2. \A t \in Submissions \ {s} : row'[t] = row[t]
      BY <1>2, <3>1 DEF Base, TypeOK
    <3> QED BY <1>2, <3>1, <3>2 DEF IdentityUnique, IdentityTaken
  <2> QED BY <2>2, <2>3
<1> QED BY <1>1, <1>2, BaseAlways, RowsAlways, PTL DEF Spec
-----------------------------------------------------------------------------
(* SubmissionWorker implements the safety part of SubmissionDelivery.      *)

stages == [s \in Submissions |-> StageOf(s)]
heard == received \cup ({Mail} \X mailed)

\* How one submission's stage may change in a step.
StageMoves(s) ==
    \/ StageOf(s)' = StageOf(s)
    \/ StageOf(s) = "new" /\ StageOf(s)' = "accepted"
    \/ StageOf(s) # "stored" /\ StageOf(s)' = "stored"
    \/ StageOf(s) = "accepted" /\ StageOf(s)' = "failed"

LEMMA MoveIsAbstract ==
    ASSUME NEW s \in Submissions, StageMoves(s), UNCHANGED <<received, mailed>>,
           \A t \in Submissions \ {s} : StageOf(t)' = StageOf(t)
    PROVE  [Delivery!Next]_(Delivery!vars)
<1>1. /\ stages[s] = StageOf(s) /\ stages'[s] = StageOf(s)'
      /\ \A t \in Submissions \ {s} : stages'[t] = stages[t]
  BY DEF stages
<1>2. stages' = [stages EXCEPT ![s] = StageOf(s)']
  BY <1>1 DEF stages
<1>3. heard' = heard
  BY DEF heard
<1>4. CASE StageOf(s)' = StageOf(s)
  <2>1. stages' = stages
    BY <1>1, <1>4 DEF stages
  <2> QED BY <2>1, <1>3 DEF Delivery!vars, stages, heard
<1>5. CASE StageOf(s) = "new" /\ StageOf(s)' = "accepted"
  <2>1. Delivery!Accept(s)
    BY <1>1, <1>2, <1>3, <1>5 DEF Delivery!Accept, stages, heard
  <2> QED BY <2>1 DEF Delivery!Next
<1>6. CASE StageOf(s) # "stored" /\ StageOf(s)' = "stored"
  <2>1. Delivery!Store(s)
    BY <1>1, <1>2, <1>3, <1>6 DEF Delivery!Store, stages, heard
  <2> QED BY <2>1 DEF Delivery!Next
<1>7. CASE StageOf(s) = "accepted" /\ StageOf(s)' = "failed"
  <2>1. Delivery!GiveUp(s)
    BY <1>1, <1>2, <1>3, <1>7 DEF Delivery!GiveUp, stages, heard
  <2> QED BY <2>1 DEF Delivery!Next
<1> QED BY <1>4, <1>5, <1>6, <1>7 DEF StageMoves

\* Most steps change no stage: the rows and the submissions' jobs stay as they
\* are, and nothing goes out.
LEMMA NothingHappens ==
    ASSUME UNCHANGED <<row, received, mailed>>,
           \A s \in Submissions : StageOf(s)' = StageOf(s)
    PROVE  UNCHANGED (Delivery!vars)
BY DEF Delivery!vars

LEMMA AnnouncesStored ==
    ASSUME NEW c \in Hooks \cup {Mail}, NEW s \in Submissions, StageOf(s) = "stored",
           heard' = heard \cup {<<c, s>>},
           \A t \in Submissions : StageOf(t)' = StageOf(t)
    PROVE  Delivery!Next
<1>1. stages' = stages /\ stages[s] = "stored"
  BY DEF stages
<1>2. Delivery!Announce(c, s)
  BY <1>1 DEF Delivery!Announce, stages, heard
<1> QED BY <1>2 DEF Delivery!Next
\* An attempt that ends: of the stages only that of its own submission may
\* change, from "accepted" to "failed".
LEMMA EndIsAbstract ==
    ASSUME Base, WorkerAssumption, NEW w \in Workers, wpc[w] # "idle",
           NEW queued, NEW result, NEW tried, Ended(w, queued, result, tried),
           queued \in [Jobs -> {"none", "waiting", "active", "completed", "failed"}],
           \A j \in Submissions : queued[j] = queue[j],
           result # "none", UNCHANGED row
    PROVE  /\ \A s \in Submissions : s # wjob[w] => StageOf(s)' = StageOf(s)
           /\ \A s \in Submissions : s = wjob[w] => StageMoves(s)
<1>1. \A s \in Submissions : s \in Jobs /\ (s # wjob[w] => queue'[s] = queue[s])
  BY DEF Ended, Jobs
<1>2. \A s \in Submissions : s # wjob[w] => StageOf(s)' = StageOf(s)
  BY <1>1 DEF StageOf
<1>3. ASSUME NEW s \in Submissions, s = wjob[w] PROVE StageMoves(s)
  <2>1. queue'[s] = queue[s] \/ (queue[s] = "active" /\ queue'[s] = result)
    BY <1>1, <1>3 DEF Ended, Base, LockInv
  <2> QED BY <2>1 DEF StageMoves, StageOf
<1> QED BY <1>2, <1>3

LEMMA EndStepIsAbstract ==
    ASSUME Base, WorkerAssumption, NEW w \in Workers, wpc[w] # "idle",
           NEW queued, NEW result, NEW tried, Ended(w, queued, result, tried),
           queued \in [Jobs -> {"none", "waiting", "active", "completed", "failed"}],
           \A j \in Submissions : queued[j] = queue[j],
           result # "none", UNCHANGED <<row, received, mailed>>
    PROVE  [Delivery!Next]_(Delivery!vars)
<1>1. /\ \A s \in Submissions : s # wjob[w] => StageOf(s)' = StageOf(s)
      /\ \A s \in Submissions : s = wjob[w] => StageMoves(s)
  BY EndIsAbstract
<1>2. CASE wjob[w] \in Submissions
  BY <1>1, <1>2, MoveIsAbstract
<1>3. CASE wjob[w] \notin Submissions
  BY <1>1, <1>3, NothingHappens
<1> QED BY <1>2, <1>3

LEMMA AttemptIsAbstract ==
    ASSUME Base, WorkerAssumption, NEW w \in Workers, NEW from, from # "idle",
           NEW threw \in BOOLEAN, EndAttempt(w, from, threw),
           UNCHANGED <<row, received, mailed>>
    PROVE  [Delivery!Next]_(Delivery!vars)
<1>1. queue \in [Jobs -> {"none", "waiting", "active", "completed", "failed"}]
  BY DEF Base, TypeOK
<1>2. /\ wpc[w] # "idle"
      /\ \E result \in {"completed", "failed", "waiting"} : Ended(w, queue, result, threw)
  BY AttemptEnds
<1> QED BY <1>1, <1>2, EndStepIsAbstract

\* The adds of a submission's deliveries leave its own job alone.
LEMMA AddsKeepSubmissions ==
    ASSUME Base, WorkerAssumption, NEW w \in Workers, wpc[w] = "enqueue",
           NEW added \in SUBSET wread[w].hooks
    PROVE  \A j \in Submissions : AddDeliveries(added, wjob[w])[j] = queue[j]
<1>1. wread[w].hooks \subseteq Hooks /\ wjob[w] \in Submissions
  <2>1. wread[w] \in [tries : 0..Attempts, hooks : SUBSET Hooks, ok : BOOLEAN]
    BY DEF Base, TypeOK
  <2> QED BY <2>1 DEF Base, WorkFits, SubmissionPCs
<1>2. added \X {wjob[w]} \subseteq Deliveries
  BY <1>1 DEF Deliveries
<1> QED BY <1>2 DEF AddDeliveries, Jobs, WorkerAssumption

LEMMA SubmissionIsAbstract ==
    ASSUME Base, WorkerAssumption, RowInv, NEW w \in Workers, ProcessSubmission(w)
    PROVE  [Delivery!Next]_(Delivery!vars)
<1>0. wpc[w] \in SubmissionPCs => wjob[w] \in Submissions /\ wjob[w] \in Jobs
  BY DEF Base, WorkFits, Jobs
<1>1. ASSUME FindExisting(w) \/ LinkFiles(w) \/ ReadHooks(w) PROVE UNCHANGED (Delivery!vars)
  <2>1. UNCHANGED <<row, queue, received, mailed>>
    BY <1>1 DEF FindExisting, LinkFiles, ReadHooks, KeepJob, tables, queueVars, outside
  <2>2. \A s \in Submissions : StageOf(s)' = StageOf(s)
    BY <2>1 DEF StageOf
  <2> QED BY <2>1, <2>2, NothingHappens
<1>2. ASSUME Persist(w) PROVE [Delivery!Next]_(Delivery!vars)
  <2>1. wjob[w] \in Submissions /\ UNCHANGED <<received, mailed>>
    BY <1>2, <1>0 DEF Persist, SubmissionPCs, outside
  <2>2. CASE EndAttempt(w, "persist", TRUE) /\ UNCHANGED row
    BY <2>1, <2>2, AttemptIsAbstract
  <2>3. CASE ~(EndAttempt(w, "persist", TRUE) /\ UNCHANGED row)
    <3>1. PICK s \in Submissions : s = wjob[w]
      BY <2>1
    <3>2. /\ ~row[s] /\ row' = [row EXCEPT ![s] = TRUE] /\ UNCHANGED queue
      BY <1>2, <2>3, <3>1 DEF Persist, KeepJob, queueVars
    <3>3. /\ StageOf(s) # "stored" /\ StageOf(s)' = "stored"
          /\ \A t \in Submissions \ {s} : StageOf(t)' = StageOf(t)
      BY <3>2 DEF StageOf, Base, TypeOK
    <3> QED BY <2>1, <3>3, MoveIsAbstract DEF StageMoves
  <2> QED BY <2>2, <2>3
<1>3. ASSUME EnqueueHooks(w) PROVE UNCHANGED (Delivery!vars)
  <2>1. /\ wpc[w] = "enqueue" /\ queue' = AddDeliveries(wread[w].hooks, wjob[w])
        /\ UNCHANGED <<row, received, mailed>>
    BY <1>3 DEF EnqueueHooks, Goto, tables, outside
  <2>2. \A s \in Submissions : queue'[s] = queue[s]
    BY <2>1, AddsKeepSubmissions
  <2>3. \A s \in Submissions : StageOf(s)' = StageOf(s)
    BY <2>1, <2>2 DEF StageOf
  <2> QED BY <2>1, <2>3, NothingHappens
<1>4. ASSUME EnqueueHooksFail(w) PROVE [Delivery!Next]_(Delivery!vars)
  <2>1. wpc[w] = "enqueue" /\ wpc[w] # "idle" /\ UNCHANGED <<row, received, mailed>>
    BY <1>4, EnqueueFailsEnds DEF EnqueueHooksFail, tables, outside
  <2>2. PICK added \in SUBSET wread[w].hooks, result \in {"failed", "waiting"} :
          Ended(w, AddDeliveries(added, wjob[w]), result, TRUE)
    BY <1>4, EnqueueFailsEnds
  <2> DEFINE queued == AddDeliveries(added, wjob[w])
  <2>3. /\ queued \in [Jobs -> {"none", "waiting", "active", "completed", "failed"}]
        /\ \A j \in Submissions : queued[j] = queue[j]
    <3>1. queued \in [Jobs -> {"none", "waiting", "active", "completed", "failed"}]
      BY AddsWait
    <3>2. \A j \in Submissions : queued[j] = queue[j]
      BY <2>1, AddsKeepSubmissions
    <3> QED BY <3>1, <3>2
  <2>4. Ended(w, queued, result, TRUE) /\ result # "none"
    BY <2>2
  <2> HIDE DEF queued
  <2> QED BY <2>1, <2>3, <2>4, EndStepIsAbstract
<1>5. ASSUME SendMail(w) PROVE Delivery!Next
  <2>1. /\ EndAttempt(w, "mail", FALSE) /\ mailed' = mailed \cup {wjob[w]}
        /\ UNCHANGED <<row, received>>
    BY <1>5 DEF SendMail, tables
  <2>2. wpc[w] = "mail" /\ wpc[w] # "idle" /\ \E result \in {"completed", "failed", "waiting"} :
           Ended(w, queue, result, FALSE)
    BY <2>1, AttemptEnds
  <2>3. PICK s \in Submissions : s = wjob[w] /\ row[s]
    BY <2>2, <1>0 DEF SubmissionPCs, RowInv, StoredPCs
  <2>4. \A t \in Submissions : t # s => StageOf(t)' = StageOf(t)
    BY <2>1, <2>2, <2>3, EndIsAbstract DEF Base, TypeOK
  <2>5. StageOf(s) = "stored" /\ StageOf(s)' = "stored"
    BY <2>1, <2>3 DEF StageOf
  <2>6. heard' = heard \cup {<<Mail, s>>}
    BY <2>1, <2>3 DEF heard
  <2> QED BY <2>4, <2>5, <2>6, AnnouncesStored
<1> QED BY <1>1, <1>2, <1>3, <1>4, <1>5 DEF ProcessSubmission

LEMMA DeliveryIsAbstract ==
    ASSUME Base, WorkerAssumption, RowInv, NEW w \in Workers, DeliverWebhook(w)
    PROVE  [Delivery!Next]_(Delivery!vars)
<1>1. ASSUME PostDelivery(w) PROVE [Delivery!Next]_(Delivery!vars)
  <2>1. wjob[w] \in Deliveries /\ UNCHANGED <<row, queue, mailed>>
    BY <1>1 DEF PostDelivery, Goto, Base, WorkFits, DeliveryPCs, tables, queueVars
  <2>2. \A s \in Submissions : StageOf(s)' = StageOf(s)
    BY <2>1 DEF StageOf
  <2>3. CASE received' = received
    BY <2>1, <2>2, <2>3, NothingHappens
  <2>4. CASE received' = received \cup {wjob[w]}
    <3>1. PICK h \in Hooks, s \in Submissions : wjob[w] = <<h, s>>
      BY <2>1 DEF Deliveries
    <3>2. StageOf(s) = "stored"
      BY <2>1, <3>1 DEF RowInv, StageOf
    <3>3. heard' = heard \cup {<<h, s>>}
      BY <2>1, <2>4, <3>1 DEF heard
    <3> QED BY <2>2, <3>2, <3>3, AnnouncesStored
  <2> QED BY <1>1, <2>3, <2>4 DEF PostDelivery
<1>2. ASSUME ~PostDelivery(w) PROVE UNCHANGED <<row, received, mailed>>
  BY <1>2 DEF DeliverWebhook, LoadHook, RecordBlocked, Deactivate, TellDeactivated,
              RecordDelivery, EndDelivery, TellFailed, tables, outside
<1>3. CASE \E from \in DeliveryPCs, threw \in BOOLEAN : EndAttempt(w, from, threw) /\ ~PostDelivery(w)
  <2>1. \A from \in DeliveryPCs : from # "idle"
    BY DEF DeliveryPCs
  <2> QED BY <1>2, <1>3, <2>1, AttemptIsAbstract
<1>4. CASE /\ ~PostDelivery(w)
           /\ ~(\E from \in DeliveryPCs, threw \in BOOLEAN : EndAttempt(w, from, threw))
  <2>1. UNCHANGED queue
    BY <1>4 DEF DeliverWebhook, LoadHook, RecordBlocked, Deactivate, TellDeactivated,
                RecordDelivery, EndDelivery, TellFailed, KeepJob, queueVars, DeliveryPCs
  <2>2. \A s \in Submissions : StageOf(s)' = StageOf(s)
    BY <1>2, <1>4, <2>1 DEF StageOf
  <2> QED BY <1>2, <1>4, <2>2, NothingHappens
<1> QED BY <1>1, <1>3, <1>4

LEMMA StepIsAbstract ==
    ASSUME Base, WorkerAssumption, RowInv, [Next]_vars PROVE [Delivery!Next]_(Delivery!vars)
<1>1. ASSUME NEW s \in Submissions, FileReport(s) PROVE [Delivery!Next]_(Delivery!vars)
  <2>1. /\ ~row[s] /\ row' = [row EXCEPT ![s] = TRUE]
        /\ UNCHANGED <<queue, received, mailed>>
    BY <1>1 DEF FileReport, queueVars, outside
  <2>2. /\ StageOf(s) # "stored" /\ StageOf(s)' = "stored"
        /\ \A t \in Submissions \ {s} : StageOf(t)' = StageOf(t)
    BY <2>1 DEF StageOf, Base, TypeOK
  <2> QED BY <2>1, <2>2, MoveIsAbstract DEF StageMoves
<1>2. ASSUME NEW s \in Submissions, Enqueue(s) PROVE [Delivery!Next]_(Delivery!vars)
  <2>1. /\ queue[s] = "none" /\ queue' = [queue EXCEPT ![s] = "waiting"]
        /\ UNCHANGED <<row, received, mailed>>
    BY <1>2 DEF Enqueue, tables, outside
  <2>2. StageMoves(s) /\ \A t \in Submissions \ {s} : StageOf(t)' = StageOf(t)
    BY <2>1 DEF StageMoves, StageOf, Base, TypeOK, Jobs
  <2> QED BY <2>1, <2>2, MoveIsAbstract
<1>3. ASSUME NEW j \in Jobs, (\E w \in Workers : TakeJob(w, j)) \/ Redeliver(j) \/ Evict(j)
      PROVE  [Delivery!Next]_(Delivery!vars)
  <2>1. /\ UNCHANGED <<row, received, mailed>>
        /\ \A k \in Jobs \ {j} : queue'[k] = queue[k]
        /\ \/ queue[j] = "waiting" /\ queue'[j] = "active"
           \/ queue[j] = "active" /\ queue'[j] \in {"waiting", "failed"}
           \/ queue[j] = "completed" /\ j \in Deliveries
    BY <1>3 DEF TakeJob, Redeliver, Evict, tables, outside, Base, TypeOK
  <2>2. \A s \in Submissions : s # j => StageOf(s)' = StageOf(s)
    BY <2>1 DEF StageOf, Jobs
  <2>3. CASE j \in Submissions
    <3>1. StageMoves(j)
      BY <2>1, <2>3 DEF StageMoves, StageOf, WorkerAssumption
    <3> QED BY <2>1, <2>2, <2>3, <3>1, MoveIsAbstract
  <2>4. CASE j \notin Submissions
    BY <2>1, <2>2, <2>4, NothingHappens
  <2> QED BY <2>3, <2>4
<1>4. ASSUME NEW w \in Workers, Throws(w) PROVE [Delivery!Next]_(Delivery!vars)
  <2>1. wpc[w] # "idle" /\ EndAttempt(w, wpc[w], TRUE) /\ UNCHANGED <<row, received, mailed>>
    BY <1>4 DEF Throws, tables, outside
  <2> QED BY <2>1, AttemptIsAbstract
<1>5. ASSUME \/ \E w \in Workers : WorkerCrashes(w) \/ LoseLock(w)
             \/ \E h \in Hooks : DeleteWebhook(h)
             \/ Replicate \/ UNCHANGED vars
      PROVE  UNCHANGED (Delivery!vars)
  <2>1. UNCHANGED <<row, queue, received, mailed>>
    BY <1>5 DEF WorkerCrashes, LoseLock, DeleteWebhook, Replicate, vars, tables, queueVars, outside
  <2>2. \A s \in Submissions : StageOf(s)' = StageOf(s)
    BY <2>1 DEF StageOf
  <2> QED BY <2>1, <2>2, NothingHappens
<1> QED BY <1>1, <1>2, <1>3, <1>4, <1>5, SubmissionIsAbstract, DeliveryIsAbstract DEF Next, Work

LEMMA InitIsAbstract ==
    ASSUME WorkerAssumption, Init PROVE Delivery!Init
<1>1. \A s \in Submissions : StageOf(s) = "new"
  BY DEF Init, StageOf, Jobs
<1>2. received \cup ({Mail} \X mailed) = {}
  BY DEF Init
<1> QED BY <1>1, <1>2 DEF Delivery!Init

\* Behind an accepted submission there is the pipeline SubmissionDelivery
\* describes: it is stored for good, and heard of only after that.
THEOREM ImplementsDeliverySafely == Spec => Delivery!Spec
<1>1. Init => Delivery!Init
  BY WorkerAssumption, InitIsAbstract
<1>2. Base /\ RowInv /\ [Next]_vars => [Delivery!Next]_(Delivery!vars)
  BY WorkerAssumption, StepIsAbstract
<1> QED BY <1>1, <1>2, BaseAlways, RowsAlways, PTL DEF Spec, Delivery!Spec
-----------------------------------------------------------------------------
(* Faults and locks.                                                       *)

\* What went wrong is remembered.
LEMMA FaultsGrow == [Next]_vars => faults \subseteq faults'
<1> USE DEF Notice, Occurs
<1>1. ASSUME NEW w \in Workers, ProcessSubmission(w) PROVE faults \subseteq faults'
  BY <1>1 DEF ProcessSubmission, FindExisting, Persist, LinkFiles, ReadHooks, EnqueueHooks,
              EnqueueHooksFail, SendMail
<1>2. ASSUME NEW w \in Workers, DeliverWebhook(w) PROVE faults \subseteq faults'
  BY <1>2 DEF DeliverWebhook, LoadHook, RecordBlocked, Deactivate, TellDeactivated, PostDelivery,
              RecordDelivery, EndDelivery, TellFailed, NotifyFailure
<1>3. ASSUME NEW w \in Workers, Throws(w) \/ WorkerCrashes(w) \/ LoseLock(w) PROVE faults \subseteq faults'
  BY <1>3 DEF Throws, WorkerCrashes, LoseLock
<1>4. ASSUME NEW j \in Jobs, Redeliver(j) \/ Evict(j) \/ \E w \in Workers : TakeJob(w, j)
      PROVE  faults \subseteq faults'
  BY <1>4 DEF Redeliver, Evict, TakeJob
<1>5. ASSUME \/ \E s \in Submissions : FileReport(s) \/ Enqueue(s)
             \/ \E h \in Hooks : DeleteWebhook(h)
             \/ Replicate \/ UNCHANGED vars
      PROVE  faults \subseteq faults'
  BY <1>5 DEF FileReport, Enqueue, DeleteWebhook, Replicate, vars
<1> QED BY <1>1, <1>2, <1>3, <1>4, <1>5 DEF Next, Work

\* What a step does to the queue and to the workers, whatever else it does.
Rests == UNCHANGED <<queueVars, workerVars>>
Added(s) ==
    /\ s \in Submissions /\ queue[s] = "none" /\ queue' = [queue EXCEPT ![s] = "waiting"]
    /\ UNCHANGED <<tries, stalls, workerVars>>
Took(w, j) ==
    /\ wpc[w] = "idle" /\ queue[j] = "waiting" /\ queue' = [queue EXCEPT ![j] = "active"]
    /\ wpc' = [wpc EXCEPT ![w] = IF j \in Submissions THEN "existing" ELSE "load"]
    /\ wjob' = [wjob EXCEPT ![w] = j] /\ holds' = [holds EXCEPT ![w] = TRUE]
    /\ wread' = [wread EXCEPT ![w].tries = tries[j]]
    /\ UNCHANGED <<tries, stalls>>

\* An attempt may add deliveries of a submission whose attempt is at "enqueue".
Adds(w, queued) ==
    \A j \in Jobs : \/ queued[j] = queue[j]
                    \/ /\ queue[j] = "none" /\ queued[j] = "waiting"
                       /\ wpc[w] = "enqueue" /\ j \in wread[w].hooks \X {wjob[w]}
Moved(w, from, to) ==
    /\ Goto(w, from, to) /\ from # "idle" /\ to # "idle"
    /\ Adds(w, queue')
    /\ UNCHANGED <<tries, stalls, wjob, holds>>
    /\ \A v \in Workers \ {w} : wread'[v] = wread[v]
    /\ wread'[w].tries = wread[w].tries
Finished(w, result, threw) ==
    /\ wpc[w] # "idle"
    /\ \E queued \in [Jobs -> {"none", "waiting", "active", "completed", "failed"}] :
          Adds(w, queued) /\ Ended(w, queued, result, threw)
    /\ result = "completed" <=> ~threw
    /\ result = "completed" => wpc[w] \in {"mail", "load", "tellOff", "done"}
    /\ result = "failed" => threw /\ tries[wjob[w]] + 1 >= Attempts
    /\ result = "waiting" => tries[wjob[w]] + 1 < Attempts
Results == {"completed", "failed", "waiting"}

\* One attempt's way through its processor.
Worked(w) ==
    \/ \E from, to \in WorkerPCs : Moved(w, from, to)
    \/ \E result \in Results, threw \in BOOLEAN : Finished(w, result, threw)

LEMMA AttemptFinishes ==
    ASSUME Base, WorkerAssumption, NEW w \in Workers, NEW from, from # "idle",
           NEW threw \in BOOLEAN, EndAttempt(w, from, threw),
           ~threw => from \in {"mail", "load", "tellOff", "done"}
    PROVE  \E result \in Results :
              Finished(w, result, threw) /\ Ended(w, queue, result, threw)
<1> DEFINE j == wjob[w]
           result == IF ~threw THEN "completed"
                     ELSE IF tries[j] + 1 >= Attempts THEN "failed" ELSE "waiting"
<1>1. wpc[w] = from /\ wpc' = [wpc EXCEPT ![w] = "idle"]
  BY DEF EndAttempt, Goto
<1>2. Ended(w, queue, result, threw)
  BY <1>1 DEF EndAttempt, Ended
<1>3. tries[j] \in Nat /\ Attempts \in Nat
  BY <1>1 DEF Base, TypeOK, WorkerAssumption
<1>4. result \in Results /\ (result = "completed" <=> ~threw)
  BY DEF Results
<1>5. /\ result = "failed" => threw /\ tries[j] + 1 >= Attempts
      /\ result = "waiting" => tries[j] + 1 < Attempts
  BY <1>3
<1>6. Adds(w, queue) /\ queue \in [Jobs -> {"none", "waiting", "active", "completed", "failed"}]
  BY DEF Adds, Base, TypeOK
<1> HIDE DEF result
<1>7. Finished(w, result, threw)
  BY <1>1, <1>2, <1>4, <1>5, <1>6 DEF Finished
<1> QED BY <1>2, <1>4, <1>7

LEMMA SubmissionWorks ==
    ASSUME Base, WorkerAssumption, NEW w \in Workers, ProcessSubmission(w)
    PROVE  Worked(w)
<1>1. ASSUME NEW from \in WorkerPCs \ {"idle"}, NEW to \in WorkerPCs \ {"idle"}, Goto(w, from, to), KeepJob
      PROVE  Worked(w)
  <2>1. Moved(w, from, to)
    BY <1>1 DEF Moved, Adds, KeepJob, queueVars
  <2> QED BY <2>1 DEF Worked
<1>2. ASSUME FindExisting(w) PROVE Worked(w)
  <2>1. PICK to \in {"files", "persist"} : Goto(w, "existing", to)
    BY <1>2 DEF FindExisting
  <2> QED BY <1>1, <1>2, <2>1 DEF FindExisting, WorkerPCs
<1>3. ASSUME Persist(w) PROVE Worked(w)
  <2>1. CASE EndAttempt(w, "persist", TRUE)
    BY <2>1, AttemptFinishes DEF Worked
  <2>2. CASE Goto(w, "persist", "files") /\ KeepJob
    BY <1>1, <2>2 DEF WorkerPCs
  <2> QED BY <1>3, <2>1, <2>2 DEF Persist
<1>4. ASSUME LinkFiles(w) PROVE Worked(w)
  BY <1>1, <1>4 DEF LinkFiles, WorkerPCs
<1>5. ASSUME ReadHooks(w) PROVE Worked(w)
  <2>1. Goto(w, "hooks", "enqueue") /\ wread' = [wread EXCEPT ![w].hooks = ReadableHooks]
        /\ UNCHANGED <<queueVars, wjob, holds>>
    BY <1>5 DEF ReadHooks
  <2>2. /\ \A v \in Workers \ {w} : wread'[v] = wread[v]
        /\ wread'[w].tries = wread[w].tries
    BY <2>1 DEF Base, TypeOK
  <2>3. Moved(w, "hooks", "enqueue")
    BY <2>1, <2>2 DEF Moved, Adds, queueVars
  <2> QED BY <2>3 DEF Worked, WorkerPCs
<1>6. ASSUME EnqueueHooks(w) PROVE Worked(w)
  <2>1. /\ Goto(w, "enqueue", "mail") /\ wpc[w] = "enqueue"
        /\ queue' = AddDeliveries(wread[w].hooks, wjob[w])
        /\ UNCHANGED <<tries, stalls, wjob, holds, wread>>
    BY <1>6 DEF EnqueueHooks, Goto
  <2>2. Adds(w, queue')
    BY <2>1, AddsWait DEF Adds
  <2>3. Moved(w, "enqueue", "mail")
    BY <2>1, <2>2 DEF Moved
  <2> QED BY <2>3 DEF Worked, WorkerPCs
<1>7. ASSUME EnqueueHooksFail(w) PROVE Worked(w)
  <2>1. PICK added \in SUBSET wread[w].hooks, result \in {"failed", "waiting"} :
          /\ wpc[w] = "enqueue"
          /\ Ended(w, AddDeliveries(added, wjob[w]), result, TRUE)
          /\ result = "waiting" => tries[wjob[w]] + 1 < Attempts
          /\ result = "failed" => tries[wjob[w]] + 1 >= Attempts
    <3>1. PICK added \in SUBSET wread[w].hooks :
            LET j == wjob[w]
                result == IF tries[j] + 1 >= Attempts THEN "failed" ELSE "waiting"
                queued == AddDeliveries(added, j)
            IN /\ Goto(w, "enqueue", "idle")
               /\ queue' = IF holds[w] THEN [queued EXCEPT ![j] = result]
                           ELSE queued
               /\ tries' = IF holds[w] THEN [tries EXCEPT ![j] = @ + 1] ELSE tries
               /\ wjob' = [wjob EXCEPT ![w] = NoJob]
               /\ holds' = [holds EXCEPT ![w] = FALSE]
               /\ wread' = [wread EXCEPT ![w] = NothingRead]
               /\ UNCHANGED <<stalls>>
      BY <1>7 DEF EnqueueHooksFail
    <3> DEFINE result == IF tries[wjob[w]] + 1 >= Attempts THEN "failed" ELSE "waiting"
    <3>2. wpc[w] = "enqueue" /\ wpc' = [wpc EXCEPT ![w] = "idle"]
      BY <3>1 DEF Goto
    <3>3. Ended(w, AddDeliveries(added, wjob[w]), result, TRUE)
      BY <3>1, <3>2 DEF Ended
    <3>4. tries[wjob[w]] \in Nat /\ Attempts \in Nat
      BY <3>2 DEF Base, TypeOK, WorkerAssumption
    <3>5. /\ result \in {"failed", "waiting"}
          /\ result = "waiting" => tries[wjob[w]] + 1 < Attempts
          /\ result = "failed" => tries[wjob[w]] + 1 >= Attempts
      BY <3>4
    <3> HIDE DEF result
    <3> QED BY <3>2, <3>3, <3>5
  <2> DEFINE queued == AddDeliveries(added, wjob[w])
  <2>2. queued \in [Jobs -> {"none", "waiting", "active", "completed", "failed"}] /\ Adds(w, queued)
    BY <2>1, AddsWait DEF Adds
  <2>3. Ended(w, queued, result, TRUE)
    BY <2>1
  <2> HIDE DEF queued
  <2>4. Finished(w, result, TRUE) /\ result \in Results
    BY <2>1, <2>2, <2>3 DEF Finished, Results
  <2> QED BY <2>4 DEF Worked
<1>8. ASSUME SendMail(w) PROVE Worked(w)
  BY <1>8, AttemptFinishes DEF SendMail, Worked
<1> QED BY <1>2, <1>3, <1>4, <1>5, <1>6, <1>7, <1>8 DEF ProcessSubmission

LEMMA DeliveryWorks ==
    ASSUME Base, WorkerAssumption, NEW w \in Workers, DeliverWebhook(w)
    PROVE  Worked(w)
<1>1. ASSUME NEW from \in WorkerPCs \ {"idle"}, NEW to \in WorkerPCs \ {"idle"}, Goto(w, from, to), KeepJob
      PROVE  Worked(w)
  <2>1. Moved(w, from, to)
    BY <1>1 DEF Moved, Adds, KeepJob, queueVars
  <2> QED BY <2>1 DEF Worked
<1>2. CASE LoadHook(w)
  <2>1. CASE EndAttempt(w, "load", FALSE)
    BY <2>1, AttemptFinishes DEF Worked
  <2>2. CASE KeepJob /\ \E to \in {"post", "block"} : Goto(w, "load", to)
    BY <1>1, <2>2 DEF WorkerPCs
  <2> QED BY <1>2, <2>1, <2>2 DEF LoadHook
<1>3. CASE RecordBlocked(w) \/ Deactivate(w)
  BY <1>1, <1>3 DEF RecordBlocked, Deactivate, WorkerPCs
<1>4. CASE TellDeactivated(w)
  BY <1>4, AttemptFinishes DEF TellDeactivated, Worked
<1>5. CASE PostDelivery(w)
  <2>1. Goto(w, "post", "record") /\ UNCHANGED <<queueVars, wjob, holds>>
    BY <1>5 DEF PostDelivery
  <2>2. wread' = wread \/ wread' = [wread EXCEPT ![w].ok = TRUE]
    BY <1>5 DEF PostDelivery
  <2>3. /\ \A v \in Workers \ {w} : wread'[v] = wread[v]
        /\ wread'[w].tries = wread[w].tries
    BY <2>2 DEF Base, TypeOK
  <2>4. Moved(w, "post", "record")
    BY <2>1, <2>3 DEF Moved, Adds, queueVars
  <2> QED BY <2>4 DEF Worked, WorkerPCs
<1>6. CASE RecordDelivery(w)
  <2>1. PICK to \in {"done", "tell", "throw"} : Goto(w, "record", to)
    BY <1>6 DEF RecordDelivery
  <2> QED BY <1>1, <1>6, <2>1 DEF RecordDelivery, WorkerPCs
<1>7. CASE EndDelivery(w)
  BY <1>7, AttemptFinishes DEF EndDelivery, Worked
<1>8. CASE TellFailed(w)
  BY <1>8, AttemptFinishes DEF TellFailed, Worked
<1> QED BY <1>2, <1>3, <1>4, <1>5, <1>6, <1>7, <1>8 DEF DeliverWebhook

\* Every step rests, adds or takes a job, works on one, or is one of the queue's.
LEMMA StepShape ==
    ASSUME Base, WorkerAssumption, [Next]_vars
    PROVE  \/ Rests
           \/ \E s \in Submissions : Added(s)
           \/ \E w \in Workers, j \in Jobs : Took(w, j)
           \/ \E w \in Workers : Worked(w) \/ WorkerCrashes(w) \/ LoseLock(w)
           \/ \E j \in Jobs : Redeliver(j) \/ Evict(j)
<1>1. ASSUME NEW s \in Submissions, FileReport(s) PROVE Rests
  BY <1>1 DEF FileReport, Rests
<1>2. ASSUME NEW s \in Submissions, Enqueue(s) PROVE Added(s)
  BY <1>2 DEF Enqueue, Added
<1>3. ASSUME (\E h \in Hooks : DeleteWebhook(h)) \/ Replicate \/ UNCHANGED vars PROVE Rests
  BY <1>3 DEF DeleteWebhook, Replicate, vars, Rests
<1>4. ASSUME NEW w \in Workers, NEW j \in Jobs, TakeJob(w, j) PROVE Took(w, j)
  BY <1>4 DEF TakeJob, Goto, Took
<1>5. ASSUME NEW w \in Workers, Throws(w) PROVE Worked(w)
  <2>1. wpc[w] # "idle" /\ EndAttempt(w, wpc[w], TRUE)
    BY <1>5 DEF Throws
  <2> QED BY <2>1, AttemptFinishes DEF Worked
<1> QED BY <1>1, <1>2, <1>3, <1>4, <1>5, SubmissionWorks, DeliveryWorks DEF Next, Work

\* A worker's own steps; the others' leave it alone.
OwnStep(w) ==
    \/ Work(w) \/ Throws(w) \/ WorkerCrashes(w) \/ LoseLock(w)
    \/ \E j \in Jobs : TakeJob(w, j)

LEMMA OthersSteps ==
    ASSUME Base, WorkerAssumption, [Next]_vars, NEW w \in Workers, ~OwnStep(w)
    PROVE  /\ wpc'[w] = wpc[w] /\ wjob'[w] = wjob[w]
           /\ holds'[w] = holds[w] /\ wread'[w] = wread[w]
<1>1. ASSUME NEW v \in Workers \ {w}, OwnStep(v)
      PROVE  /\ wpc'[w] = wpc[w] /\ wjob'[w] = wjob[w]
             /\ holds'[w] = holds[w] /\ wread'[w] = wread[w]
  <2>1. Work(v) \/ Throws(v) => Worked(v)
    <3>1. Throws(v) => \E from \in WorkerPCs \ {"idle"} : EndAttempt(v, from, TRUE)
      BY DEF Throws, WorkerPCs
    <3> QED BY <3>1, SubmissionWorks, DeliveryWorks, AttemptFinishes DEF Work, Worked
  <2>2. CASE Worked(v)
    <3>1. ASSUME NEW from, NEW to, Moved(v, from, to)
          PROVE  /\ wpc'[w] = wpc[w] /\ wjob'[w] = wjob[w]
                 /\ holds'[w] = holds[w] /\ wread'[w] = wread[w]
      BY <3>1 DEF Moved, Goto, Base, TypeOK
    <3>2. ASSUME NEW queued, NEW result, NEW threw, Ended(v, queued, result, threw)
          PROVE  /\ wpc'[w] = wpc[w] /\ wjob'[w] = wjob[w]
                 /\ holds'[w] = holds[w] /\ wread'[w] = wread[w]
      BY <3>2 DEF Ended, Base, TypeOK
    <3> QED BY <2>2, <3>1, <3>2 DEF Worked, Finished
  <2>3. CASE WorkerCrashes(v) \/ LoseLock(v)
    BY <2>3 DEF WorkerCrashes, LoseLock, Base, TypeOK
  <2>4. ASSUME NEW j \in Jobs, TakeJob(v, j)
        PROVE  /\ wpc'[w] = wpc[w] /\ wjob'[w] = wjob[w]
               /\ holds'[w] = holds[w] /\ wread'[w] = wread[w]
    <3>1. \E to, n : /\ wpc' = [wpc EXCEPT ![v] = to] /\ wjob' = [wjob EXCEPT ![v] = j]
                    /\ holds' = [holds EXCEPT ![v] = TRUE] /\ wread' = [wread EXCEPT ![v].tries = n]
      BY <2>4 DEF TakeJob, Goto
    <3> QED BY <3>1 DEF Base, TypeOK
  <2> QED BY <1>1, <2>1, <2>2, <2>3, <2>4 DEF OwnStep
<1>2. ASSUME \/ \E s \in Submissions : FileReport(s) \/ Enqueue(s)
             \/ \E h \in Hooks : DeleteWebhook(h)
             \/ \E j \in Jobs : Redeliver(j) \/ Evict(j)
             \/ Replicate \/ UNCHANGED vars
      PROVE  UNCHANGED workerVars
  BY <1>2 DEF FileReport, Enqueue, DeleteWebhook, Redeliver, Evict, Replicate, vars
<1> QED BY <1>1, <1>2 DEF Next, OwnStep, workerVars

\* A job that runs without its lock has lost it, and an active job that nobody
\* holds has lost its lock or its worker.
LocksTold ==
    /\ \A w \in Workers : wjob[w] # NoJob /\ ~holds[w] => Happened({"lock_lost"}, wjob[w])
    /\ \A j \in Jobs : queue[j] = "active" =>
          \/ \E w \in Workers : holds[w] /\ wjob[w] = j
          \/ Happened({"crash", "lock_lost"}, j)

LEMMA LocksStep ==
    ASSUME Base, WorkerAssumption, LocksTold, [Next]_vars PROVE LocksTold'
<1>0. faults \subseteq faults'
  BY FaultsGrow
<1>1. CASE Rests
  BY <1>0, <1>1 DEF Rests, LocksTold, Happened, queueVars, workerVars
<1>2. ASSUME NEW s \in Submissions, Added(s) PROVE LocksTold'
  <2>1. s \in Jobs
    BY DEF Jobs
  <2> QED BY <1>0, <1>2, <2>1 DEF Added, LocksTold, Happened, workerVars, Base, TypeOK
<1>3. ASSUME NEW w \in Workers, NEW j \in Jobs, Took(w, j) PROVE LocksTold'
  <2>1. /\ wjob'[w] = j /\ holds'[w] /\ wjob[w] = NoJob /\ j # NoJob
        /\ \A v \in Workers \ {w} : wjob'[v] = wjob[v] /\ holds'[v] = holds[v]
        /\ \A i \in Jobs \ {j} : queue'[i] = queue[i]
    BY <1>3 DEF Took, Base, TypeOK, WorkerAssumption
  <2>2. ASSUME NEW i \in Jobs, queue'[i] = "active", i # j
        PROVE  (\E v \in Workers : holds'[v] /\ wjob'[v] = i) \/ Happened({"crash", "lock_lost"}, i)'
    BY <1>0, <2>1, <2>2, NoJob \notin Jobs DEF LocksTold, Happened, WorkerAssumption
  <2>3. \A v \in Workers : wjob'[v] # NoJob /\ ~holds'[v] => <<"lock_lost", wjob'[v]>> \in faults'
    BY <1>0, <2>1 DEF LocksTold, Happened
  <2> QED BY <2>1, <2>2, <2>3 DEF LocksTold, Happened
<1>4. ASSUME NEW w \in Workers, Worked(w) PROVE LocksTold'
  <2>1. CASE \E from, to \in WorkerPCs : Moved(w, from, to)
    <3>1. UNCHANGED <<wjob, holds>> /\ \A j \in Jobs : queue'[j] = "active" => queue[j] = "active"
      BY <2>1 DEF Moved, Adds
    <3> QED BY <1>0, <3>1 DEF LocksTold, Happened
  <2>2. ASSUME NEW result \in Results, NEW threw \in BOOLEAN, Finished(w, result, threw)
        PROVE  LocksTold'
    <3>1. PICK queued \in [Jobs -> {"none", "waiting", "active", "completed", "failed"}] :
            Adds(w, queued) /\ Ended(w, queued, result, threw)
      BY <2>2 DEF Finished
    <3>2. /\ wjob'[w] = NoJob /\ ~holds'[w] /\ wjob[w] \in Jobs
          /\ \A v \in Workers \ {w} : wjob'[v] = wjob[v] /\ holds'[v] = holds[v]
      BY <3>1, <2>2 DEF Finished, Ended, Base, TypeOK
    <3>3. ASSUME NEW j \in Jobs, queue'[j] = "active"
          PROVE  queue[j] = "active" /\ ~(holds[w] /\ wjob[w] = j)
      BY <3>1, <3>2, <3>3 DEF Ended, Adds, Results
    <3>4. ASSUME NEW j \in Jobs, queue'[j] = "active"
          PROVE  (\E v \in Workers : holds'[v] /\ wjob'[v] = j) \/ Happened({"crash", "lock_lost"}, j)'
      BY <1>0, <3>2, <3>3, <3>4 DEF LocksTold, Happened
    <3>5. \A v \in Workers : wjob'[v] # NoJob /\ ~holds'[v] => <<"lock_lost", wjob'[v]>> \in faults'
      BY <1>0, <3>2 DEF LocksTold, Happened
    <3> QED BY <3>4, <3>5 DEF LocksTold, Happened
  <2> QED BY <1>4, <2>1, <2>2 DEF Worked
<1>5. ASSUME NEW w \in Workers, WorkerCrashes(w) PROVE LocksTold'
  <2>1. /\ wjob'[w] = NoJob /\ ~holds'[w] /\ UNCHANGED queue
        /\ \A v \in Workers \ {w} : wjob'[v] = wjob[v] /\ holds'[v] = holds[v]
        /\ <<"crash", wjob[w]>> \in faults'
    BY <1>5 DEF WorkerCrashes, Occurs, Notice, Base, TypeOK, queueVars
  <2> QED BY <1>0, <2>1 DEF LocksTold, Happened
<1>6. ASSUME NEW w \in Workers, LoseLock(w) PROVE LocksTold'
  <2>1. /\ ~holds'[w] /\ UNCHANGED <<queue, wjob>>
        /\ \A v \in Workers \ {w} : holds'[v] = holds[v]
        /\ <<"lock_lost", wjob[w]>> \in faults'
    BY <1>6 DEF LoseLock, Occurs, Notice, Base, TypeOK, queueVars
  <2> QED BY <1>0, <2>1 DEF LocksTold, Happened
<1>7. ASSUME NEW j \in Jobs, Redeliver(j) \/ Evict(j) PROVE LocksTold'
  <2>1. UNCHANGED <<wjob, holds>> /\ \A i \in Jobs : queue'[i] = "active" => queue[i] = "active"
    BY <1>7 DEF Redeliver, Evict, workerVars, Base, TypeOK
  <2> QED BY <1>0, <2>1 DEF LocksTold, Happened
<1> QED BY <1>1, <1>2, <1>3, <1>4, <1>5, <1>6, <1>7, StepShape

-----------------------------------------------------------------------------
(* Why a submission's job is given up.                                     *)

Troubles == {"db_error", "queue_error", "crash", "lock_lost"}

\* A row that no report filed belongs to a job that ended well, to an attempt
\* past its transaction, or to a job something went wrong with; and an attempt
\* is about to persist a report's row only when the reader did not show it.
RowsReasoned ==
    \A s \in Submissions \ Filed : row[s] =>
        \/ queue[s] = "completed" \/ Happened(Troubles, s)
        \/ \E w \in Workers : wjob[w] = s /\ wpc[w] \in StoredPCs
PersistReasoned ==
    \A w \in Workers : wpc[w] = "persist" /\ wjob[w] \in Filed =>
        Happened({"unseen"}, wjob[w])
ReasonInv == RowsReasoned /\ PersistReasoned /\ GivenUpForAReason

\* A submission's job that is over stays over.
LEMMA OverStays ==
    ASSUME Base, WorkerAssumption, [Next]_vars, NEW s \in Submissions,
           queue[s] \in {"completed", "failed"}
    PROVE  queue'[s] = queue[s]
<1>0. s \in Jobs /\ s \notin Deliveries
  BY DEF Jobs, WorkerAssumption
<1>1. ASSUME NEW w \in Workers, Worked(w) PROVE queue'[s] = queue[s]
  <2>1. holds[w] => wjob[w] # s
    BY DEF Base, LockInv
  <2> QED BY <1>0, <1>1, <2>1 DEF Worked, Moved, Finished, Adds, Ended
<1>2. ASSUME NEW j \in Jobs, Redeliver(j) \/ Evict(j) PROVE queue'[s] = queue[s]
  BY <1>0, <1>2 DEF Redeliver, Evict, Base, TypeOK
<1>3. ASSUME \/ Rests \/ \E t \in Submissions : Added(t)
             \/ \E w \in Workers, j \in Jobs : Took(w, j)
             \/ \E w \in Workers : WorkerCrashes(w) \/ LoseLock(w)
      PROVE  queue'[s] = queue[s]
  BY <1>0, <1>3 DEF Rests, Added, Took, WorkerCrashes, LoseLock, queueVars, Base, TypeOK
<1> QED BY <1>1, <1>2, <1>3, StepShape

\* What becomes of an attempt that has stored its row.
LEMMA StoredWorkGoesOn ==
    ASSUME Base, WorkerAssumption, LocksTold, [Next]_vars,
           NEW w \in Workers, wpc[w] \in StoredPCs
    PROVE  \/ wjob'[w] = wjob[w] /\ wpc'[w] \in StoredPCs
           \/ queue'[wjob[w]] = "completed"
           \/ \E k \in Troubles : <<k, wjob[w]>> \in faults'
<1>0. /\ wjob[w] \in Submissions /\ wjob[w] \in Jobs /\ wpc[w] # "idle"
      /\ faults \subseteq faults'
  BY FaultsGrow DEF Base, WorkFits, StoredPCs, SubmissionPCs, Jobs
<1>1. CASE ProcessSubmission(w)
  <2>1. CASE FindExisting(w) \/ Persist(w)
    BY <2>1 DEF FindExisting, Persist, Goto, StoredPCs
  <2>2. CASE LinkFiles(w) \/ ReadHooks(w) \/ EnqueueHooks(w)
    BY <2>2 DEF LinkFiles, ReadHooks, EnqueueHooks, KeepJob, Goto, StoredPCs, Base, TypeOK
  <2>3. CASE EnqueueHooksFail(w)
    <3>1. <<"queue_error", wjob[w]>> \in faults'
      BY <2>3 DEF EnqueueHooksFail, Occurs, Notice
    <3> QED BY <3>1 DEF Troubles
  <2>4. CASE SendMail(w)
    <3>1. EndAttempt(w, "mail", FALSE)
      BY <2>4 DEF SendMail
    <3>2. CASE holds[w]
      BY <1>0, <3>1, <3>2 DEF EndAttempt, Base, TypeOK
    <3>3. CASE ~holds[w]
      BY <1>0, <3>3 DEF LocksTold, Happened, Troubles, Base, TypeOK, WorkerAssumption
    <3> QED BY <3>2, <3>3
  <2> QED BY <1>1, <2>1, <2>2, <2>3, <2>4 DEF ProcessSubmission
<1>2. CASE DeliverWebhook(w)
  <2>1. wpc[w] \in DeliveryPCs
    BY <1>2 DEF DeliverWebhook, LoadHook, RecordBlocked, Deactivate, TellDeactivated,
                PostDelivery, RecordDelivery, EndDelivery, TellFailed, EndAttempt, Goto, DeliveryPCs
  <2> QED BY <2>1 DEF DeliveryPCs, StoredPCs
<1>3. CASE Throws(w) \/ WorkerCrashes(w)
  BY <1>3 DEF Throws, WorkerCrashes, Occurs, Notice, Troubles
<1>4. CASE LoseLock(w)
  BY <1>4 DEF LoseLock
<1>5. CASE ~OwnStep(w)
  BY <1>5, OthersSteps
<1>6. ASSUME NEW j \in Jobs, TakeJob(w, j) PROVE FALSE
  BY <1>0, <1>6 DEF TakeJob, Goto, StoredPCs
<1> QED BY <1>1, <1>2, <1>3, <1>4, <1>5, <1>6 DEF OwnStep, Work

\* A worker comes to persist only from having looked for the row.
LEMMA PersistAfterLook ==
    ASSUME Base, WorkerAssumption, [Next]_vars, NEW w \in Workers, wpc'[w] = "persist"
    PROVE  FindExisting(w) \/ (wpc[w] = "persist" /\ wjob'[w] = wjob[w])
<1>1. CASE ProcessSubmission(w) /\ ~FindExisting(w)
  <2>1. CASE LinkFiles(w) \/ ReadHooks(w) \/ EnqueueHooks(w) \/ EnqueueHooksFail(w)
    BY <2>1 DEF LinkFiles, ReadHooks, EnqueueHooks, EnqueueHooksFail, Goto, Base, TypeOK
  <2>2. CASE Persist(w) \/ SendMail(w)
    BY <2>2 DEF Persist, SendMail, EndAttempt, Goto, Base, TypeOK
  <2> QED BY <1>1, <2>1, <2>2 DEF ProcessSubmission
<1>2. CASE DeliverWebhook(w)
  BY <1>2 DEF DeliverWebhook, LoadHook, RecordBlocked, Deactivate, TellDeactivated,
              PostDelivery, RecordDelivery, EndDelivery, TellFailed, EndAttempt, Goto, Base, TypeOK
<1>3. CASE Throws(w) \/ WorkerCrashes(w)
  BY <1>3 DEF Throws, WorkerCrashes, EndAttempt, Goto, Base, TypeOK
<1>4. CASE LoseLock(w)
  BY <1>4 DEF LoseLock
<1>5. CASE ~OwnStep(w)
  BY <1>5, OthersSteps
<1>6. ASSUME NEW j \in Jobs, TakeJob(w, j) PROVE FALSE
  BY <1>6 DEF TakeJob, Goto, Base, TypeOK
<1> QED BY <1>1, <1>2, <1>3, <1>4, <1>5, <1>6 DEF OwnStep, Work

\* A row that no report files is written by an attempt that goes on to its files.
LEMMA RowWritten ==
    ASSUME Base, WorkerAssumption, [Next]_vars, NEW s \in Submissions \ Filed, ~row[s], row'[s]
    PROVE  \E w \in Workers : wjob'[w] = s /\ wpc'[w] \in StoredPCs
<1>1. ASSUME NEW t \in Submissions, FileReport(t) PROVE FALSE
  BY <1>1 DEF FileReport, Base, TypeOK
<1>2. ASSUME NEW w \in Workers, Persist(w) PROVE wjob'[w] = s /\ wpc'[w] \in StoredPCs
  <2>1. row' = [row EXCEPT ![wjob[w]] = TRUE] /\ Goto(w, "persist", "files") /\ KeepJob
    BY <1>2 DEF Persist
  <2>2. wjob[w] = s
    BY <2>1 DEF Base, TypeOK
  <2> QED BY <2>1, <2>2 DEF Goto, KeepJob, StoredPCs, Base, TypeOK
<1>3. ASSUME NEW w \in Workers, ProcessSubmission(w), ~Persist(w) PROVE UNCHANGED row
  BY <1>3 DEF ProcessSubmission, FindExisting, LinkFiles, ReadHooks, EnqueueHooks, EnqueueHooksFail,
              SendMail, tables
<1>4. ASSUME NEW w \in Workers, DeliverWebhook(w) PROVE UNCHANGED row
  BY <1>4 DEF DeliverWebhook, LoadHook, RecordBlocked, Deactivate, TellDeactivated, PostDelivery,
              RecordDelivery, EndDelivery, TellFailed, tables
<1>5. ASSUME NEW w \in Workers, Throws(w) \/ WorkerCrashes(w) \/ LoseLock(w) PROVE UNCHANGED row
  BY <1>5 DEF Throws, WorkerCrashes, LoseLock, tables
<1>6. ASSUME NEW j \in Jobs, Redeliver(j) \/ Evict(j) \/ \E w \in Workers : TakeJob(w, j)
      PROVE  UNCHANGED row
  BY <1>6 DEF Redeliver, Evict, TakeJob, tables
<1>7. ASSUME \/ \E t \in Submissions : Enqueue(t)
             \/ \E h \in Hooks : DeleteWebhook(h)
             \/ Replicate \/ UNCHANGED vars
      PROVE  UNCHANGED row
  BY <1>7 DEF Enqueue, DeleteWebhook, Replicate, vars, tables
<1> QED BY <1>1, <1>2, <1>3, <1>4, <1>5, <1>6, <1>7 DEF Next, Work

\* A submission's job fails on one of its troubles, or in the transaction.
LEMMA JobFails ==
    ASSUME Base, WorkerAssumption, LocksTold, [Next]_vars,
           NEW s \in Submissions, queue[s] # "failed", queue'[s] = "failed"
    PROVE  \/ \E k \in Troubles : <<k, s>> \in faults'
           \/ /\ row[s] \/ IdentityTaken(s)
              /\ UNCHANGED row
              /\ \E w \in Workers : holds[w] /\ wjob[w] = s /\ wpc[w] = "persist"
<1>0. s \in Jobs /\ s \notin Deliveries /\ faults \subseteq faults'
  BY FaultsGrow DEF Jobs, WorkerAssumption
<1>1. ASSUME NEW w \in Workers, ProcessSubmission(w)
      PROVE  \/ \E k \in Troubles : <<k, s>> \in faults'
             \/ /\ row[s] \/ IdentityTaken(s)
                /\ UNCHANGED row
                /\ holds[w] /\ wjob[w] = s /\ wpc[w] = "persist"
  <2>1. CASE FindExisting(w) \/ LinkFiles(w) \/ ReadHooks(w)
    BY <2>1 DEF FindExisting, LinkFiles, ReadHooks, KeepJob, queueVars
  <2>2. CASE EnqueueHooks(w)
    BY <1>0, <2>2 DEF EnqueueHooks, AddDeliveries, Base, TypeOK
  <2>3. CASE Persist(w)
    <3>1. /\ EndAttempt(w, "persist", TRUE) /\ UNCHANGED row
          /\ row[wjob[w]] \/ IdentityTaken(wjob[w])
      BY <2>3 DEF Persist, KeepJob, queueVars
    <3>2. wpc[w] = "persist" /\ holds[w] /\ wjob[w] = s
      BY <1>0, <3>1 DEF EndAttempt, Goto, Base, TypeOK
    <3> QED BY <3>1, <3>2
  <2>4. CASE EnqueueHooksFail(w)
    <3>1. <<"queue_error", wjob[w]>> \in faults'
      BY <2>4 DEF EnqueueHooksFail, Occurs, Notice
    <3>2. wjob[w] = s
      BY <1>0, <2>4 DEF EnqueueHooksFail, AddDeliveries, Base, TypeOK
    <3> QED BY <3>1, <3>2 DEF Troubles
  <2>5. CASE SendMail(w)
    BY <1>0, <2>5 DEF SendMail, EndAttempt, Base, TypeOK
  <2> QED BY <1>1, <2>1, <2>2, <2>3, <2>4, <2>5 DEF ProcessSubmission
<1>2. ASSUME NEW w \in Workers, DeliverWebhook(w) PROVE FALSE
  <2>1. wpc[w] \in DeliveryPCs
    BY <1>2 DEF DeliverWebhook, LoadHook, RecordBlocked, Deactivate, TellDeactivated,
                PostDelivery, RecordDelivery, EndDelivery, TellFailed, EndAttempt, Goto, DeliveryPCs
  <2>2. wjob[w] # s /\ wpc[w] # "enqueue"
    BY <1>0, <2>1 DEF Base, WorkFits, DeliveryPCs
  <2>3. Worked(w)
    BY <1>2, DeliveryWorks
  <2> QED BY <1>0, <2>2, <2>3 DEF Worked, Moved, Finished, Adds, Ended
<1>3. ASSUME NEW w \in Workers, Throws(w) PROVE \E k \in Troubles : <<k, s>> \in faults'
  <2>1. <<"db_error", wjob[w]>> \in faults' /\ EndAttempt(w, wpc[w], TRUE)
    BY <1>3 DEF Throws, Occurs, Notice
  <2>2. wjob[w] = s
    BY <1>0, <2>1 DEF EndAttempt, Base, TypeOK
  <2> QED BY <2>1, <2>2 DEF Troubles
<1>4. ASSUME NEW j \in Jobs, Redeliver(j) PROVE \E k \in Troubles : <<k, s>> \in faults'
  <2>1. j = s /\ queue[j] = "active" /\ \A w \in Workers : ~(wjob[w] = j /\ holds[w])
    BY <1>0, <1>4 DEF Redeliver, Base, TypeOK
  <2> QED BY <1>0, <2>1 DEF LocksTold, Happened, Troubles
<1>5. ASSUME \/ \E w \in Workers : WorkerCrashes(w) \/ LoseLock(w) \/ \E j \in Jobs : TakeJob(w, j)
             \/ \E t \in Submissions : FileReport(t) \/ Enqueue(t)
             \/ \E h \in Hooks : DeleteWebhook(h)
             \/ \E j \in Jobs : Evict(j)
             \/ Replicate \/ UNCHANGED vars
      PROVE  FALSE
  BY <1>0, <1>5 DEF WorkerCrashes, LoseLock, TakeJob, FileReport, Enqueue, DeleteWebhook, Evict,
                    Replicate, vars, queueVars, Base, TypeOK
<1> QED BY <1>1, <1>2, <1>3, <1>4, <1>5 DEF Next, Work

LEMMA ReasonStep ==
    ASSUME Base, Base', WorkerAssumption, RowInv, LocksTold, ReasonInv, [Next]_vars
    PROVE  ReasonInv'
<1>0. faults \subseteq faults' /\ Submissions \subseteq Jobs
  BY FaultsGrow DEF Jobs
<1>1. RowsReasoned'
  <2>1. ASSUME NEW s \in Submissions \ Filed, row'[s]
        PROVE  \/ queue'[s] = "completed" \/ \E k \in Troubles : <<k, s>> \in faults'
               \/ \E w \in Workers : wjob'[w] = s /\ wpc'[w] \in StoredPCs
    <3>1. CASE ~row[s]
      BY <2>1, <3>1, RowWritten
    <3>2. CASE row[s] /\ queue[s] = "completed"
      BY <3>2, OverStays
    <3>3. CASE \E k \in Troubles : <<k, s>> \in faults
      BY <1>0, <3>3
    <3>4. ASSUME NEW w \in Workers, wjob[w] = s, wpc[w] \in StoredPCs
          PROVE  \/ queue'[s] = "completed" \/ \E k \in Troubles : <<k, s>> \in faults'
                 \/ \E v \in Workers : wjob'[v] = s /\ wpc'[v] \in StoredPCs
      BY <3>4, StoredWorkGoesOn
    <3> QED BY <3>1, <3>2, <3>3, <3>4 DEF ReasonInv, RowsReasoned, Happened
  <2> QED BY <2>1 DEF RowsReasoned, Happened
<1>2. PersistReasoned'
  <2>1. ASSUME NEW w \in Workers, wpc'[w] = "persist", wjob'[w] \in Filed
        PROVE  <<"unseen", wjob'[w]>> \in faults'
    <3>1. CASE wpc[w] = "persist" /\ wjob'[w] = wjob[w]
      BY <1>0, <2>1, <3>1 DEF ReasonInv, PersistReasoned, Happened
    <3>2. CASE FindExisting(w)
      <4>1. wjob' = wjob /\ wpc[w] = "existing"
        BY <3>2 DEF FindExisting, KeepJob, Goto
      <4>2. wjob[w] \in Stored
        BY <2>1, <4>1 DEF RowInv, Stored, WorkerAssumption
      <4>3. wjob[w] \notin ReadableRows \/ ~Goto(w, "existing", "files")
        BY <2>1, <4>1 DEF Goto, Base, TypeOK
      <4> QED BY <3>2, <4>1, <4>2, <4>3 DEF FindExisting, Notice
    <3> QED BY <2>1, <3>1, <3>2, PersistAfterLook
  <2> QED BY <2>1 DEF PersistReasoned, Happened
<1>3. GivenUpForAReason'
  <2>1. RowsKept /\ WritesOnce
    BY RowStep, StepWritesOnce DEF Justified
  <2>2. ASSUME NEW s \in Submissions, IdentityTaken(s) PROVE IdentityTaken(s)'
    BY <2>1, <2>2 DEF IdentityTaken, RowsKept
  <2>3. ASSUME NEW s \in Submissions, queue'[s] = "failed"
        PROVE  \/ \E k \in Troubles : <<k, s>> \in faults'
               \/ s \in Filed /\ <<"unseen", s>> \in faults'
               \/ ~row'[s] /\ IdentityTaken(s)'
    <3>1. CASE queue[s] = "failed" /\ ~row[s] /\ IdentityTaken(s)
      <4>1. ~row'[s]
        BY <2>1, <3>1 DEF WritesOnce, Base, TypeOK
      <4> QED BY <2>2, <3>1, <4>1
    <3>2. CASE queue[s] = "failed" /\ ~(~row[s] /\ IdentityTaken(s))
      BY <1>0, <3>2 DEF ReasonInv, GivenUpForAReason, Happened, Troubles
    <3>3. ASSUME queue[s] # "failed", UNCHANGED row, row[s] \/ IdentityTaken(s),
                 NEW w \in Workers, holds[w], wjob[w] = s, wpc[w] = "persist"
          PROVE  \/ \E k \in Troubles : <<k, s>> \in faults'
                 \/ s \in Filed /\ <<"unseen", s>> \in faults'
                 \/ ~row'[s] /\ IdentityTaken(s)'
      <4>1. CASE ~row[s]
        BY <2>2, <3>3, <4>1
      <4>2. CASE row[s] /\ s \in Filed
        BY <1>0, <3>3, <4>2 DEF ReasonInv, PersistReasoned, Happened
      <4>3. CASE row[s] /\ s \notin Filed
        <5>1. queue[s] # "completed"
          BY <3>3 DEF Base, LockInv
        <5>2. ASSUME NEW v \in Workers, wjob[v] = s, wpc[v] \in StoredPCs
              PROVE  <<"lock_lost", s>> \in faults
          <6>1. ~holds[v] /\ s # NoJob
            BY <1>0, <3>3, <5>2 DEF Base, LockInv, StoredPCs, WorkerAssumption
          <6> QED BY <5>2, <6>1 DEF LocksTold, Happened
        <5> QED BY <1>0, <4>3, <5>1, <5>2 DEF ReasonInv, RowsReasoned, Happened, Troubles
      <4> QED BY <4>1, <4>2, <4>3
    <3> QED BY <2>3, <3>1, <3>2, <3>3, JobFails
  <2> QED BY <2>3 DEF GivenUpForAReason, Happened, Troubles
<1> QED BY <1>1, <1>2, <1>3 DEF ReasonInv

\* An attempt without its job's lock, and an active job that nobody holds, come
\* only of a crash or of a lost lock.
THEOREM LocksAlways == Spec => []LocksTold
<1>1. Init => LocksTold
  BY WorkerAssumption DEF Init, LocksTold
<1>2. Base /\ LocksTold /\ [Next]_vars => LocksTold'
  BY WorkerAssumption, LocksStep
<1> QED BY <1>1, <1>2, BaseAlways, PTL DEF Spec

\* BullMQ gives a submission's job up only for a reason of the job's own: an
\* error, a crash or a lost lock; a report's row the reader never showed; or a
\* record that another submission had registered.
THEOREM GivenUpAlways == Spec => []GivenUpForAReason
<1>1. Init => ReasonInv
  BY WorkerAssumption DEF Init, ReasonInv, RowsReasoned, PersistReasoned, GivenUpForAReason, Jobs
<1>2. Base /\ Base' /\ RowInv /\ LocksTold /\ ReasonInv /\ [Next]_vars => ReasonInv'
  BY WorkerAssumption, ReasonStep
<1>3. ReasonInv => GivenUpForAReason
  BY DEF ReasonInv
<1> QED BY <1>1, <1>2, <1>3, BaseAlways, RowsAlways, LocksAlways, PTL DEF Spec
-----------------------------------------------------------------------------
(* What a submission's job that ended well has started.                    *)

FilesDone(s) == files[s] = "queued" \/ Happened({"files_error"}, s)
DeliveryAdded(h, s) == queue[<<h, s>>] # "none" \/ Happened({"evicted"}, <<h, s>>)

\* A reader shows every webhook that is still active; and the further an attempt
\* has come, the more of the submission's side effects are under way.
SideInv ==
    /\ ActiveHooks \subseteq replica.hooks
    /\ \A w \in Workers :
          /\ wpc[w] \in {"hooks", "enqueue", "mail"} => FilesDone(wjob[w])
          /\ wpc[w] = "enqueue" => ActiveHooks \subseteq wread[w].hooks
          /\ wpc[w] = "mail" => \A h \in ActiveHooks : DeliveryAdded(h, wjob[w])
    /\ SideEffectsStarted

\* Webhooks are only turned off.
LEMMA HooksTurnOff ==
    ASSUME Base, WorkerAssumption, [Next]_vars
    PROVE  /\ ActiveHooks' \subseteq ActiveHooks
           /\ replica' = replica \/ (Replicate /\ replica'.hooks = ActiveHooks)
<1>1. ASSUME NEW w \in Workers, ProcessSubmission(w) PROVE UNCHANGED <<active, replica>>
  BY <1>1 DEF ProcessSubmission, FindExisting, Persist, LinkFiles, ReadHooks, EnqueueHooks,
              EnqueueHooksFail, SendMail, tables
<1>2. ASSUME NEW w \in Workers, DeliverWebhook(w), ~Deactivate(w) PROVE UNCHANGED <<active, replica>>
  BY <1>2 DEF DeliverWebhook, LoadHook, RecordBlocked, TellDeactivated, PostDelivery,
              RecordDelivery, EndDelivery, TellFailed, tables
<1>3. ASSUME NEW w \in Workers, Deactivate(w)
      PROVE  UNCHANGED replica /\ \E h : active' = [active EXCEPT ![h] = FALSE]
  BY <1>3 DEF Deactivate, tables
<1>4. ASSUME NEW w \in Workers, Throws(w) \/ WorkerCrashes(w) \/ LoseLock(w)
      PROVE  UNCHANGED <<active, replica>>
  BY <1>4 DEF Throws, WorkerCrashes, LoseLock, tables
<1>5. ASSUME NEW j \in Jobs, Redeliver(j) \/ Evict(j) \/ \E w \in Workers : TakeJob(w, j)
      PROVE  UNCHANGED <<active, replica>>
  BY <1>5 DEF Redeliver, Evict, TakeJob, tables
<1>6. ASSUME \/ \E s \in Submissions : FileReport(s) \/ Enqueue(s)
             \/ UNCHANGED vars
      PROVE  UNCHANGED <<active, replica>>
  BY <1>6 DEF FileReport, Enqueue, vars, tables
<1>7. ASSUME NEW h \in Hooks, DeleteWebhook(h)
      PROVE  UNCHANGED replica /\ \E g : active' = [active EXCEPT ![g] = FALSE]
  BY <1>7 DEF DeleteWebhook, tables
<1>8. ASSUME Replicate PROVE UNCHANGED active /\ replica'.hooks = ActiveHooks
  BY <1>8 DEF Replicate
<1>9. ASSUME NEW h, active' = [active EXCEPT ![h] = FALSE] PROVE ActiveHooks' \subseteq ActiveHooks
  BY <1>9 DEF ActiveHooks, Base, TypeOK
<1>10. UNCHANGED active => ActiveHooks' = ActiveHooks
  BY DEF ActiveHooks
<1> QED BY <1>1, <1>2, <1>3, <1>4, <1>5, <1>6, <1>7, <1>8, <1>9, <1>10 DEF Next, Work

\* What is under way is not taken back.
LEMMA FilesStayDone ==
    ASSUME Base, WorkerAssumption, [Next]_vars, NEW s \in Submissions, FilesDone(s)
    PROVE  FilesDone(s)'
<1>0. faults \subseteq faults'
  BY FaultsGrow
<1>1. ASSUME NEW w \in Workers, LinkFiles(w) PROVE files[s] = "queued" => files'[s] = "queued"
  <2>1. \/ files' = [files EXCEPT ![wjob[w]] = "queued"] \/ UNCHANGED files
        \/ files[wjob[w]] = "loose" /\ files' = [files EXCEPT ![wjob[w]] = "linked"]
    BY <1>1 DEF LinkFiles
  <2> QED BY <2>1 DEF Base, TypeOK
<1>2. ASSUME NEW w \in Workers, ProcessSubmission(w), ~LinkFiles(w) PROVE UNCHANGED files
  BY <1>2 DEF ProcessSubmission, FindExisting, Persist, ReadHooks, EnqueueHooks,
              EnqueueHooksFail, SendMail, tables
<1>3. ASSUME NEW w \in Workers, DeliverWebhook(w) PROVE UNCHANGED files
  BY <1>3 DEF DeliverWebhook, LoadHook, RecordBlocked, Deactivate, TellDeactivated, PostDelivery,
              RecordDelivery, EndDelivery, TellFailed, tables
<1>4. ASSUME NEW w \in Workers, Throws(w) \/ WorkerCrashes(w) \/ LoseLock(w) PROVE UNCHANGED files
  BY <1>4 DEF Throws, WorkerCrashes, LoseLock, tables
<1>5. ASSUME NEW j \in Jobs, Redeliver(j) \/ Evict(j) \/ \E w \in Workers : TakeJob(w, j)
      PROVE  UNCHANGED files
  BY <1>5 DEF Redeliver, Evict, TakeJob, tables
<1>6. ASSUME \/ \E t \in Submissions : FileReport(t) \/ Enqueue(t)
             \/ \E h \in Hooks : DeleteWebhook(h)
             \/ Replicate \/ UNCHANGED vars
      PROVE  UNCHANGED files
  BY <1>6 DEF FileReport, Enqueue, DeleteWebhook, Replicate, vars, tables
<1>7. files[s] = "queued" => files'[s] = "queued"
  BY <1>1, <1>2, <1>3, <1>4, <1>5, <1>6 DEF Next, Work
<1> QED BY <1>0, <1>7 DEF FilesDone, Happened

LEMMA DeliveryStaysAdded ==
    ASSUME Base, WorkerAssumption, [Next]_vars, NEW h \in Hooks, NEW s \in Submissions,
           DeliveryAdded(h, s)
    PROVE  DeliveryAdded(h, s)'
<1>0. /\ <<h, s>> \in Jobs /\ <<h, s>> \in Deliveries /\ <<h, s>> \notin Submissions
      /\ faults \subseteq faults'
  BY FaultsGrow DEF Jobs, Deliveries, WorkerAssumption
<1> DEFINE j == <<h, s>>
<1> HIDE DEF j
<1>1. ASSUME NEW w \in Workers, Worked(w), queue[j] # "none" PROVE queue'[j] # "none"
  BY <1>0, <1>1 DEF Worked, Moved, Finished, Adds, Ended, Results, j
<1>2. ASSUME NEW i \in Jobs, Evict(i), queue[j] # "none", queue'[j] = "none"
      PROVE  <<"evicted", j>> \in faults'
  BY <1>0, <1>2 DEF Evict, Occurs, Notice, Base, TypeOK, j
<1>3. ASSUME \/ Rests \/ \E t \in Submissions : Added(t)
             \/ \E w \in Workers, i \in Jobs : Took(w, i)
             \/ \E w \in Workers : WorkerCrashes(w) \/ LoseLock(w)
             \/ \E i \in Jobs : Redeliver(i),
             queue[j] # "none"
      PROVE  queue'[j] # "none"
  BY <1>0, <1>3 DEF Rests, Added, Took, WorkerCrashes, LoseLock, Redeliver, queueVars, Base, TypeOK, j
<1>4. queue[j] # "none" => queue'[j] # "none" \/ <<"evicted", j>> \in faults'
  BY <1>1, <1>2, <1>3, StepShape
<1> QED BY <1>0, <1>4 DEF DeliveryAdded, Happened, j

\* The mail that was handed over stays so.
LEMMA MailedGrows == [Next]_vars => mailed \subseteq mailed'
<1>1. ASSUME NEW w \in Workers, Work(w) PROVE mailed \subseteq mailed'
  BY <1>1 DEF Work, ProcessSubmission, FindExisting, Persist, LinkFiles, ReadHooks, EnqueueHooks,
              EnqueueHooksFail, SendMail, DeliverWebhook, LoadHook, RecordBlocked, Deactivate,
              TellDeactivated, PostDelivery, RecordDelivery, EndDelivery, TellFailed, outside
<1>2. ASSUME NEW w \in Workers, Throws(w) \/ WorkerCrashes(w) \/ LoseLock(w) PROVE UNCHANGED mailed
  BY <1>2 DEF Throws, WorkerCrashes, LoseLock, outside
<1>3. ASSUME NEW j \in Jobs, Redeliver(j) \/ Evict(j) \/ \E w \in Workers : TakeJob(w, j)
      PROVE  UNCHANGED mailed
  BY <1>3 DEF Redeliver, Evict, TakeJob, outside
<1>4. ASSUME \/ \E t \in Submissions : FileReport(t) \/ Enqueue(t)
             \/ \E h \in Hooks : DeleteWebhook(h)
             \/ Replicate \/ UNCHANGED vars
      PROVE  UNCHANGED mailed
  BY <1>4 DEF FileReport, Enqueue, DeleteWebhook, Replicate, vars, outside
<1> QED BY <1>1, <1>2, <1>3, <1>4 DEF Next

\* An attempt comes to its later steps one by one.
LEMMA LaterSteps ==
    ASSUME Base, WorkerAssumption, [Next]_vars, NEW w \in Workers,
           wpc'[w] \in {"hooks", "enqueue", "mail"}
    PROVE  \/ LinkFiles(w) \/ ReadHooks(w) \/ EnqueueHooks(w)
           \/ wpc'[w] = wpc[w] /\ wjob'[w] = wjob[w] /\ wread'[w] = wread[w]
<1>1. CASE ProcessSubmission(w) /\ ~(LinkFiles(w) \/ ReadHooks(w) \/ EnqueueHooks(w))
  <2>1. CASE FindExisting(w)
    BY <2>1 DEF FindExisting, Goto, Base, TypeOK
  <2>2. CASE Persist(w) \/ SendMail(w) \/ EnqueueHooksFail(w)
    BY <2>2 DEF Persist, SendMail, EnqueueHooksFail, EndAttempt, Goto, Base, TypeOK
  <2> QED BY <1>1, <2>1, <2>2 DEF ProcessSubmission
<1>2. CASE DeliverWebhook(w)
  BY <1>2 DEF DeliverWebhook, LoadHook, RecordBlocked, Deactivate, TellDeactivated,
              PostDelivery, RecordDelivery, EndDelivery, TellFailed, EndAttempt, Goto, Base, TypeOK
<1>3. CASE Throws(w) \/ WorkerCrashes(w)
  BY <1>3 DEF Throws, WorkerCrashes, EndAttempt, Goto, Base, TypeOK
<1>4. CASE LoseLock(w)
  BY <1>4 DEF LoseLock
<1>5. CASE ~OwnStep(w)
  BY <1>5, OthersSteps
<1>6. ASSUME NEW j \in Jobs, TakeJob(w, j) PROVE FALSE
  BY <1>6 DEF TakeJob, Goto, Base, TypeOK
<1> QED BY <1>1, <1>2, <1>3, <1>4, <1>5, <1>6 DEF OwnStep, Work

\* Only the attempt that hands the mail over ends a submission's job well.
LEMMA JobCompletes ==
    ASSUME Base, WorkerAssumption, [Next]_vars,
           NEW s \in Submissions, queue[s] # "completed", queue'[s] = "completed"
    PROVE  \E w \in Workers : SendMail(w) /\ wjob[w] = s
<1>0. s \in Jobs /\ s \notin Deliveries
  BY DEF Jobs, WorkerAssumption
<1>1. ASSUME NEW w \in Workers, Worked(w)
      PROVE  wjob[w] = s /\ wpc[w] \in {"mail", "load", "tellOff", "done"}
             /\ \E queued, threw : Ended(w, queued, "completed", threw)
  BY <1>0, <1>1 DEF Worked, Moved, Finished, Adds, Ended, Results
<1>2. ASSUME NEW w \in Workers, Worked(w) PROVE wpc[w] = "mail"
  BY <1>0, <1>1, <1>2 DEF Base, WorkFits, DeliveryPCs
<1>3. ASSUME NEW w \in Workers, ProcessSubmission(w) PROVE SendMail(w) /\ wjob[w] = s
  <2>1. wpc[w] = "mail" /\ wjob[w] = s
    BY <1>1, <1>2, <1>3, SubmissionWorks
  <2> QED BY <1>3, <2>1 DEF ProcessSubmission, FindExisting, Persist, LinkFiles, ReadHooks,
             EnqueueHooks, EnqueueHooksFail, Goto
<1>4. ASSUME NEW w \in Workers, DeliverWebhook(w) PROVE FALSE
  <2>1. wpc[w] = "mail"
    BY <1>2, <1>4, DeliveryWorks
  <2> QED BY <1>4, <2>1 DEF DeliverWebhook, LoadHook, RecordBlocked, Deactivate, TellDeactivated,
             PostDelivery, RecordDelivery, EndDelivery, TellFailed, EndAttempt, Goto
<1>5. ASSUME NEW w \in Workers, Throws(w) PROVE FALSE
  BY <1>0, <1>5 DEF Throws, EndAttempt, Base, TypeOK
<1>6. ASSUME \/ \E w \in Workers : WorkerCrashes(w) \/ LoseLock(w) \/ \E j \in Jobs : TakeJob(w, j)
             \/ \E t \in Submissions : FileReport(t) \/ Enqueue(t)
             \/ \E h \in Hooks : DeleteWebhook(h)
             \/ \E j \in Jobs : Redeliver(j) \/ Evict(j)
             \/ Replicate \/ UNCHANGED vars
      PROVE  FALSE
  BY <1>0, <1>6 DEF WorkerCrashes, LoseLock, TakeJob, FileReport, Enqueue, DeleteWebhook, Redeliver,
                    Evict, Replicate, vars, queueVars, Base, TypeOK
<1> QED BY <1>3, <1>4, <1>5, <1>6 DEF Next, Work

LEMMA SideStep ==
    ASSUME Base, Base', WorkerAssumption, RowInv, SideInv, [Next]_vars
    PROVE  SideInv'
<1>0. RowsKept /\ ActiveHooks' \subseteq ActiveHooks /\ ActiveHooks \subseteq Hooks
  BY HooksTurnOff, RowStep DEF Justified, ActiveHooks
<1>1. (ActiveHooks \subseteq replica.hooks)'
  BY <1>0, HooksTurnOff DEF SideInv
<1>2. ASSUME NEW w \in Workers, wpc'[w] \in {"hooks", "enqueue", "mail"}
      PROVE  /\ files'[wjob'[w]] = "queued" \/ <<"files_error", wjob'[w]>> \in faults'
             /\ wpc'[w] = "enqueue" => ActiveHooks' \subseteq wread'[w].hooks
             /\ wpc'[w] = "mail" => \A h \in ActiveHooks' :
                   queue'[<<h, wjob'[w]>>] # "none" \/ <<"evicted", <<h, wjob'[w]>>>> \in faults'
  <2>0. wjob'[w] \in Submissions
    BY <1>2 DEF Base, WorkFits, SubmissionPCs
  <2>1. CASE LinkFiles(w)
    <3>1. wpc'[w] = "hooks" /\ wjob' = wjob
      BY <2>1 DEF LinkFiles, Goto, KeepJob, Base, TypeOK
    <3>2. files'[wjob[w]] = "queued" \/ <<"files_error", wjob[w]>> \in faults'
      BY <2>0, <2>1, <3>1 DEF LinkFiles, Notice, Base, TypeOK
    <3> QED BY <3>1, <3>2
  <2>2. CASE ReadHooks(w)
    <3>1. /\ wpc[w] = "hooks" /\ wpc'[w] = "enqueue" /\ wjob' = wjob
          /\ wread'[w].hooks = ReadableHooks
      BY <2>2 DEF ReadHooks, Goto, Base, TypeOK
    <3>2. ActiveHooks \subseteq ReadableHooks
      BY DEF SideInv, ReadableHooks
    <3>3. FilesDone(wjob[w])'
      BY <2>0, <3>1, FilesStayDone DEF SideInv
    <3> QED BY <1>0, <3>1, <3>2, <3>3 DEF FilesDone, Happened
  <2>3. CASE EnqueueHooks(w)
    <3>1. /\ wpc[w] = "enqueue" /\ wpc'[w] = "mail" /\ wjob' = wjob
          /\ queue' = AddDeliveries(wread[w].hooks, wjob[w])
      BY <2>3 DEF EnqueueHooks, Goto, Base, TypeOK
    <3>2. FilesDone(wjob[w])'
      BY <2>0, <3>1, FilesStayDone DEF SideInv
    <3>3. ASSUME NEW h \in ActiveHooks PROVE queue'[<<h, wjob[w]>>] # "none"
      <4>1. h \in wread[w].hooks /\ <<h, wjob[w]>> \in Jobs
        BY <1>0, <2>0, <3>1 DEF SideInv, Jobs, Deliveries
      <4> QED BY <3>1, <4>1 DEF AddDeliveries
    <3> QED BY <1>0, <3>1, <3>2, <3>3 DEF FilesDone, Happened
  <2>4. CASE wpc'[w] = wpc[w] /\ wjob'[w] = wjob[w] /\ wread'[w] = wread[w]
    <3>1. files'[wjob[w]] = "queued" \/ <<"files_error", wjob[w]>> \in faults'
      BY <1>2, <2>0, <2>4, FilesStayDone DEF SideInv, FilesDone, Happened
    <3>2. ASSUME wpc[w] = "mail", NEW h \in ActiveHooks'
          PROVE  queue'[<<h, wjob[w]>>] # "none" \/ <<"evicted", <<h, wjob[w]>>>> \in faults'
      <4>1. h \in Hooks /\ DeliveryAdded(h, wjob[w])
        BY <1>0, <3>2 DEF SideInv
      <4> QED BY <2>0, <2>4, <4>1, DeliveryStaysAdded DEF DeliveryAdded, Happened
    <3> QED BY <1>0, <2>4, <3>1, <3>2 DEF SideInv
  <2> QED BY <1>2, <2>1, <2>2, <2>3, <2>4, LaterSteps
<1>3. SideEffectsStarted'
  <2>1. ASSUME NEW s \in Submissions, queue'[s] = "completed"
        PROVE  /\ row'[s] /\ s \in mailed'
               /\ files'[s] = "queued" \/ <<"files_error", s>> \in faults'
               /\ \A h \in ActiveHooks' :
                     queue'[<<h, s>>] # "none" \/ <<"evicted", <<h, s>>>> \in faults'
    <3>1. row[s] /\ FilesDone(s) /\ (\A h \in ActiveHooks : DeliveryAdded(h, s)) /\ s \in mailed'
      <4>1. CASE queue[s] = "completed"
        <5>1. mailed \subseteq mailed'
          BY MailedGrows
        <5> QED BY <4>1, <5>1 DEF SideInv, SideEffectsStarted, FilesDone, DeliveryAdded, ActiveHooks
      <4>2. ASSUME NEW w \in Workers, SendMail(w), wjob[w] = s
            PROVE  row[s] /\ FilesDone(s) /\ (\A h \in ActiveHooks : DeliveryAdded(h, s)) /\ s \in mailed'
        <5>1. wpc[w] = "mail" /\ s \in mailed'
          BY <4>2 DEF SendMail, EndAttempt, Goto
        <5> QED BY <4>2, <5>1 DEF RowInv, StoredPCs, SideInv
      <4> QED BY <2>1, <4>1, <4>2, JobCompletes
    <3>2. row'[s] /\ FilesDone(s)'
      BY <1>0, <3>1, FilesStayDone DEF RowsKept
    <3>3. \A h \in ActiveHooks' : DeliveryAdded(h, s)'
      BY <1>0, <3>1, DeliveryStaysAdded
    <3> QED BY <3>1, <3>2, <3>3 DEF FilesDone, DeliveryAdded, Happened
  <2> QED BY <2>1 DEF SideEffectsStarted, Happened, ActiveHooks
<1>4. \A w \in Workers :
         /\ wpc'[w] \in {"hooks", "enqueue", "mail"} => FilesDone(wjob[w])'
         /\ wpc'[w] = "enqueue" => ActiveHooks' \subseteq wread'[w].hooks
         /\ wpc'[w] = "mail" => \A h \in ActiveHooks' : DeliveryAdded(h, wjob[w])'
  BY <1>2 DEF FilesDone, DeliveryAdded, Happened
<1> QED BY <1>1, <1>3, <1>4 DEF SideInv

\* A submission's job that ended well left its row, the mail, its files and a
\* delivery for every webhook that is still active.
THEOREM SideEffectsAlways == Spec => []SideEffectsStarted
<1>1. Init => SideInv
  BY WorkerAssumption DEF Init, SideInv, SideEffectsStarted, ActiveHooks, Jobs
<1>2. Base /\ Base' /\ RowInv /\ SideInv /\ [Next]_vars => SideInv'
  BY WorkerAssumption, SideStep
<1>3. SideInv => SideEffectsStarted
  BY DEF SideInv
<1> QED BY <1>1, <1>2, <1>3, BaseAlways, RowsAlways, PTL DEF Spec
-----------------------------------------------------------------------------
(* What the admins are told is true.                                       *)

\* A job that met no stall: its attempts come one after the other.
Calm(j) == ~Happened({"crash", "lock_lost", "evicted"}, j)

\* What is known of such a job: a recorded delivery has ended well or is about
\* to; one that arrived unrecorded has lost its reply or its record, or is about
\* to be recorded; and the admins hear of a failure when no attempt is left.
Outcome(j) ==
    /\ j \in recorded =>
          queue[j] = "completed" \/ \E w \in Workers : wjob[w] = j /\ wpc[w] = "done"
    /\ j \in received \ recorded =>
          \/ Happened({"lost_reply", "db_error"}, j)
          \/ \E w \in Workers : wjob[w] = j /\ wpc[w] = "record" /\ wread[w].ok
    /\ <<"failed", j>> \in told =>
          /\ queue[j] = "failed"
          /\ j \in received => Happened({"lost_reply", "db_error"}, j) /\ j \notin recorded

\* An attempt knows how often its job was tried, and tells only of the last.
TriesKnown ==
    /\ \A w \in Workers : holds[w] => wread[w].tries = tries[wjob[w]]
    /\ \A w \in Workers : wpc[w] = "tell" => wread[w].tries + 1 >= Attempts
OutcomeInv == TriesKnown /\ \A j \in Deliveries : Calm(j) => Outcome(j)

\* The attempt of a calm job is its only one, and holds its lock.
LEMMA OneAttempt ==
    ASSUME Base, WorkerAssumption, LocksTold, NEW j \in Deliveries, Calm(j),
           NEW w \in Workers, wjob[w] = j
    PROVE  /\ holds[w] /\ queue[j] = "active" /\ wpc[w] \in DeliveryPCs
           /\ \A v \in Workers : wjob[v] = j => v = w
<1>1. j \in Jobs /\ j # NoJob /\ j \notin Submissions
  BY DEF Jobs, WorkerAssumption
<1>2. \A v \in Workers : wjob[v] = j => holds[v]
  BY <1>1 DEF LocksTold, Calm, Happened
<1>3. wpc[w] # "idle" /\ wpc[w] \notin SubmissionPCs
  BY <1>1 DEF Base, TypeOK, WorkFits
<1>4. wpc[w] \in DeliveryPCs
  BY <1>3 DEF Base, TypeOK, WorkerPCs, SubmissionPCs, DeliveryPCs
<1> QED BY <1>2, <1>4 DEF Base, LockInv

\* What leaves a delivery and its attempts as they are.
Untouched(j) ==
    /\ j \in received' <=> j \in received
    /\ j \in recorded' <=> j \in recorded
    /\ <<"failed", j>> \in told' <=> <<"failed", j>> \in told
    /\ \A w \in Workers : wjob[w] = j => wjob'[w] = j /\ wpc'[w] = wpc[w] /\ wread'[w] = wread[w]
    /\ queue'[j] = queue[j] \/ (queue[j] = "none" /\ queue'[j] = "waiting")

\* The rest of what a step may do to a delivery is its own attempt's, or the queue's.
LEMMA StepTouches ==
    ASSUME Base, WorkerAssumption, [Next]_vars, NEW j \in Deliveries
    PROVE  \/ Untouched(j)
           \/ \E w \in Workers : wjob[w] = j /\ OwnStep(w)
           \/ \E w \in Workers : TakeJob(w, j)
           \/ Redeliver(j) \/ Evict(j)
<1>0. j \in Jobs /\ j # NoJob /\ j \notin Submissions
  BY DEF Jobs, WorkerAssumption
<1>1. SUFFICES ASSUME ~\E w \in Workers : wjob[w] = j /\ OwnStep(w),
                      ~\E w \in Workers : TakeJob(w, j), ~Redeliver(j), ~Evict(j)
               PROVE  Untouched(j)
  OBVIOUS
<1>2. \A w \in Workers : wjob[w] = j => wjob'[w] = j /\ wpc'[w] = wpc[w] /\ wread'[w] = wread[w]
  BY <1>1, OthersSteps
<1>3. queue'[j] = queue[j] \/ (queue[j] = "none" /\ queue'[j] = "waiting")
  <2>1. ASSUME NEW w \in Workers, Worked(w), wjob[w] # j
        PROVE  queue'[j] = queue[j] \/ (queue[j] = "none" /\ queue'[j] = "waiting")
    BY <1>0, <2>1 DEF Worked, Moved, Finished, Adds, Ended
  <2>2. ASSUME NEW w \in Workers, Work(w) \/ Throws(w)
        PROVE  queue'[j] = queue[j] \/ (queue[j] = "none" /\ queue'[j] = "waiting")
    <3>1. wjob[w] # j
      BY <1>1, <2>2 DEF OwnStep
    <3>2. Throws(w) => Worked(w)
      <4>1. Throws(w) => \E from \in WorkerPCs \ {"idle"} : EndAttempt(w, from, TRUE)
        BY DEF Throws, WorkerPCs
      <4> QED BY <4>1, AttemptFinishes DEF Worked
    <3> QED BY <2>1, <2>2, <3>1, <3>2, SubmissionWorks, DeliveryWorks DEF Work
  <2>3. ASSUME NEW i \in Jobs, i # j, Redeliver(i) \/ Evict(i) \/ \E w \in Workers : TakeJob(w, i)
        PROVE  queue'[j] = queue[j]
    BY <1>0, <2>3 DEF Redeliver, Evict, TakeJob, Base, TypeOK
  <2>4. ASSUME \/ \E w \in Workers : WorkerCrashes(w) \/ LoseLock(w)
               \/ \E t \in Submissions : FileReport(t) \/ Enqueue(t)
               \/ \E h \in Hooks : DeleteWebhook(h)
               \/ Replicate \/ UNCHANGED vars
        PROVE  queue'[j] = queue[j]
    BY <1>0, <2>4 DEF WorkerCrashes, LoseLock, FileReport, Enqueue, DeleteWebhook, Replicate, vars,
                      queueVars, Base, TypeOK
  <2> QED BY <1>1, <2>2, <2>3, <2>4 DEF Next
<1>4. /\ j \in received' <=> j \in received
      /\ j \in recorded' <=> j \in recorded
      /\ <<"failed", j>> \in told' <=> <<"failed", j>> \in told
  <2>1. ASSUME NEW w \in Workers, DeliverWebhook(w)
        PROVE  /\ j \in received' <=> j \in received
               /\ j \in recorded' <=> j \in recorded
               /\ <<"failed", j>> \in told' <=> <<"failed", j>> \in told
    <3>1. wjob[w] # j
      BY <1>1, <2>1 DEF OwnStep, Work
    <3> QED BY <2>1, <3>1 DEF DeliverWebhook, LoadHook, RecordBlocked, Deactivate, TellDeactivated,
               PostDelivery, RecordDelivery, EndDelivery, TellFailed, NotifyFailure, outside
  <2>2. ASSUME NEW w \in Workers, ProcessSubmission(w)
        PROVE  UNCHANGED <<received, recorded, told>>
    BY <2>2 DEF ProcessSubmission, FindExisting, Persist, LinkFiles, ReadHooks, EnqueueHooks,
                EnqueueHooksFail, SendMail, outside
  <2>3. ASSUME NEW w \in Workers, Throws(w) \/ WorkerCrashes(w) \/ LoseLock(w)
        PROVE  UNCHANGED <<received, recorded, told>>
    BY <2>3 DEF Throws, WorkerCrashes, LoseLock, outside
  <2>4. ASSUME NEW i \in Jobs, Redeliver(i) \/ Evict(i) \/ \E w \in Workers : TakeJob(w, i)
        PROVE  UNCHANGED <<received, recorded, told>>
    BY <2>4 DEF Redeliver, Evict, TakeJob, outside
  <2>5. ASSUME \/ \E t \in Submissions : FileReport(t) \/ Enqueue(t)
               \/ \E h \in Hooks : DeleteWebhook(h)
               \/ Replicate \/ UNCHANGED vars
        PROVE  UNCHANGED <<received, recorded, told>>
    BY <2>5 DEF FileReport, Enqueue, DeleteWebhook, Replicate, vars, outside
  <2> QED BY <2>1, <2>2, <2>3, <2>4, <2>5 DEF Next, Work
<1> QED BY <1>2, <1>3, <1>4 DEF Untouched

\* The step of a calm job's own attempt.
LEMMA OutcomeOfOwnStep ==
    ASSUME Base, Base', WorkerAssumption, LocksTold, TriesKnown, [Next]_vars,
           NEW j \in Deliveries, Calm(j), Calm(j)', Outcome(j),
           NEW w \in Workers, wjob[w] = j, OwnStep(w)
    PROVE  Outcome(j)'
<1>0. /\ holds[w] /\ queue[j] = "active" /\ wpc[w] \in DeliveryPCs
      /\ \A v \in Workers : wjob[v] = j => v = w
      /\ j \in Jobs /\ j # NoJob
  BY OneAttempt DEF Jobs, WorkerAssumption
<1>1. /\ j \in recorded => wpc[w] = "done"
      /\ j \in received \ recorded =>
            Happened({"lost_reply", "db_error"}, j) \/ (wpc[w] = "record" /\ wread[w].ok)
      /\ <<"failed", j>> \notin told
  BY <1>0 DEF Outcome
<1>2. faults \subseteq faults'
  BY FaultsGrow
<1>3. CASE LoadHook(w) \/ RecordBlocked(w) \/ Deactivate(w)
  <2>1. UNCHANGED <<received, recorded, told>> /\ wpc[w] \notin {"done", "record"}
    BY <1>3 DEF LoadHook, RecordBlocked, Deactivate, EndAttempt, Goto, outside
  <2> QED BY <1>1, <1>2, <2>1 DEF Outcome, Happened
<1>4. CASE TellDeactivated(w)
  <2>1. /\ UNCHANGED <<received, recorded>> /\ wpc[w] = "tellOff"
        /\ <<"failed", j>> \notin told'
    BY <1>1, <1>4 DEF TellDeactivated, NotifyFailure, EndAttempt, Goto
  <2> QED BY <1>1, <1>2, <2>1 DEF Outcome, Happened
<1>5. CASE PostDelivery(w)
  <2>1. /\ UNCHANGED <<recorded, told, wjob>> /\ wpc[w] = "post" /\ wpc'[w] = "record"
        /\ j \notin recorded
    BY <1>1, <1>5 DEF PostDelivery, Goto, Base, TypeOK
  <2>2. j \in received' => \/ wread'[w].ok \/ <<"lost_reply", j>> \in faults'
                           \/ j \in received
    BY <1>5 DEF PostDelivery, Occurs, Notice, Base, TypeOK
  <2>3. j \in received' => \/ \E k \in {"lost_reply", "db_error"} : <<k, j>> \in faults'
                           \/ wread'[w].ok
    BY <1>1, <1>2, <2>1, <2>2 DEF Happened
  <2> QED BY <1>1, <2>1, <2>3 DEF Outcome, Happened
<1>6. CASE RecordDelivery(w)
  <2>1. /\ UNCHANGED <<received, told, wjob, wread>> /\ wpc[w] = "record"
        /\ recorded' = IF wread[w].ok THEN recorded \cup {j} ELSE recorded
        /\ wread[w].ok => wpc'[w] = "done"
    BY <1>6 DEF RecordDelivery, Goto, KeepJob, Base, TypeOK
  <2> QED BY <1>1, <1>2, <2>1 DEF Outcome, Happened
<1>7. CASE EndDelivery(w)
  <2>1. /\ UNCHANGED <<received, recorded, told>> /\ wpc[w] \in {"done", "throw"}
        /\ wpc[w] = "done" => queue'[j] = "completed"
    BY <1>0, <1>7 DEF EndDelivery, EndAttempt, Goto, outside, Base, TypeOK
  <2> QED BY <1>1, <1>2, <2>1 DEF Outcome, Happened
<1>8. CASE TellFailed(w)
  <2>1. UNCHANGED <<received, recorded>> /\ wpc[w] = "tell"
    BY <1>8 DEF TellFailed, EndAttempt, Goto
  <2>2. tries[j] + 1 >= Attempts
    BY <1>0, <2>1 DEF TriesKnown
  <2>3. queue'[j] = "failed"
    BY <1>0, <1>8, <2>2 DEF TellFailed, EndAttempt, Base, TypeOK
  <2> QED BY <1>1, <1>2, <2>1, <2>3 DEF Outcome, Happened
<1>9. CASE Throws(w)
  <2>1. UNCHANGED <<received, recorded, told>> /\ wpc[w] # "done" /\ <<"db_error", j>> \in faults'
    BY <1>9 DEF Throws, Occurs, Notice, outside
  <2> QED BY <1>1, <2>1 DEF Outcome, Happened
<1>10. CASE WorkerCrashes(w) \/ LoseLock(w)
  BY <1>10 DEF WorkerCrashes, LoseLock, Occurs, Notice, Calm, Happened
<1>11. ASSUME NEW i \in Jobs, TakeJob(w, i) PROVE FALSE
  BY <1>0, <1>11 DEF TakeJob, Goto, DeliveryPCs
<1>12. CASE ProcessSubmission(w)
  BY <1>0, <1>12 DEF ProcessSubmission, FindExisting, Persist, LinkFiles, ReadHooks, EnqueueHooks,
             EnqueueHooksFail, SendMail, EndAttempt, Goto, DeliveryPCs
<1> QED BY <1>3, <1>4, <1>5, <1>6, <1>7, <1>8, <1>9, <1>10, <1>11, <1>12 DEF OwnStep, Work, DeliverWebhook

LEMMA TriesStep ==
    ASSUME Base, Base', WorkerAssumption, TriesKnown, [Next]_vars
    PROVE  TriesKnown'
<1>1. ASSUME NEW v \in Workers, holds'[v] PROVE wread'[v].tries = tries'[wjob'[v]]
  <2>1. CASE Rests
    BY <1>1, <2>1 DEF Rests, TriesKnown, queueVars, workerVars
  <2>2. ASSUME NEW s \in Submissions, Added(s) PROVE wread'[v].tries = tries'[wjob'[v]]
    BY <1>1, <2>2 DEF Added, TriesKnown, workerVars
  <2>3. ASSUME NEW w \in Workers, NEW j \in Jobs, Took(w, j)
        PROVE  wread'[v].tries = tries'[wjob'[v]]
    BY <1>1, <2>3 DEF Took, TriesKnown, Base, TypeOK
  <2>4. ASSUME NEW w \in Workers, Worked(w) PROVE wread'[v].tries = tries'[wjob'[v]]
    <3>1. CASE \E from, to \in WorkerPCs : Moved(w, from, to)
      BY <1>1, <3>1 DEF Moved, TriesKnown
    <3>2. ASSUME NEW result \in Results, NEW threw \in BOOLEAN, Finished(w, result, threw)
          PROVE  wread'[v].tries = tries'[wjob'[v]]
      <4>1. /\ v # w /\ holds[v] /\ wjob'[v] = wjob[v] /\ wread'[v] = wread[v]
            /\ tries' = IF holds[w] /\ threw THEN [tries EXCEPT ![wjob[w]] = @ + 1] ELSE tries
        BY <1>1, <3>2 DEF Finished, Ended, Base, TypeOK
      <4>2. wjob[v] \in Jobs /\ (holds[w] => wjob[w] # wjob[v])
        BY <4>1 DEF Base, TypeOK, LockInv
      <4> QED BY <4>1, <4>2 DEF TriesKnown, Base, TypeOK
    <3> QED BY <2>4, <3>1, <3>2 DEF Worked
  <2>5. ASSUME NEW w \in Workers, WorkerCrashes(w) \/ LoseLock(w)
        PROVE  wread'[v].tries = tries'[wjob'[v]]
    BY <1>1, <2>5 DEF WorkerCrashes, LoseLock, TriesKnown, queueVars, Base, TypeOK
  <2>6. ASSUME NEW j \in Jobs, Redeliver(j) \/ Evict(j) PROVE wread'[v].tries = tries'[wjob'[v]]
    <3>1. UNCHANGED <<wjob, wread, holds>> /\ (UNCHANGED tries \/ (Evict(j) /\ tries' = [tries EXCEPT ![j] = 0]))
      BY <2>6 DEF Redeliver, Evict, workerVars
    <3>2. Evict(j) => wjob[v] # j
      BY <1>1, <3>1 DEF Evict, Base, LockInv
    <3> QED BY <1>1, <3>1, <3>2 DEF TriesKnown, Base, TypeOK, LockInv
  <2> QED BY <2>1, <2>2, <2>3, <2>4, <2>5, <2>6, StepShape
<1>2. ASSUME NEW w \in Workers, wpc'[w] = "tell" PROVE wread'[w].tries + 1 >= Attempts
  <2>1. CASE RecordDelivery(w)
    BY <1>2, <2>1 DEF RecordDelivery, KeepJob, Goto, Base, TypeOK
  <2>2. CASE DeliverWebhook(w) /\ ~RecordDelivery(w)
    BY <1>2, <2>2 DEF DeliverWebhook, LoadHook, RecordBlocked, Deactivate, TellDeactivated,
             PostDelivery, EndDelivery, TellFailed, EndAttempt, Goto, Base, TypeOK
  <2>3. CASE ProcessSubmission(w)
    <3>1. CASE FindExisting(w)
      BY <1>2, <3>1 DEF FindExisting, Goto, Base, TypeOK
    <3>2. CASE ~FindExisting(w)
      BY <1>2, <2>3, <3>2 DEF ProcessSubmission, Persist, LinkFiles, ReadHooks, EnqueueHooks,
             EnqueueHooksFail, SendMail, EndAttempt, Goto, Base, TypeOK
    <3> QED BY <3>1, <3>2
  <2>4. CASE Throws(w) \/ WorkerCrashes(w)
    BY <1>2, <2>4 DEF Throws, WorkerCrashes, EndAttempt, Goto, Base, TypeOK
  <2>5. CASE LoseLock(w)
    BY <1>2, <2>5 DEF LoseLock, TriesKnown
  <2>6. ASSUME NEW j \in Jobs, TakeJob(w, j) PROVE FALSE
    BY <1>2, <2>6 DEF TakeJob, Goto, Base, TypeOK
  <2>7. CASE ~OwnStep(w)
    BY <1>2, <2>7, OthersSteps DEF TriesKnown
  <2> QED BY <2>1, <2>2, <2>3, <2>4, <2>5, <2>6, <2>7 DEF OwnStep, Work
<1> QED BY <1>1, <1>2 DEF TriesKnown

LEMMA OutcomeStep ==
    ASSUME Base, Base', WorkerAssumption, LocksTold, OutcomeInv, [Next]_vars
    PROVE  OutcomeInv'
<1>1. faults \subseteq faults'
  BY FaultsGrow
<1>2. ASSUME NEW j \in Deliveries, Calm(j)' PROVE Outcome(j)'
  <2>1. Calm(j) /\ Outcome(j)
    BY <1>1, <1>2 DEF Calm, Happened, OutcomeInv
  <2>2. j \in Jobs /\ j # NoJob
    BY DEF Jobs, WorkerAssumption
  <2>3. \A w \in Workers : wjob[w] = j => queue[j] = "active"
    BY <2>1, OneAttempt
  <2>4. CASE Untouched(j)
    BY <1>1, <2>1, <2>3, <2>4 DEF Untouched, Outcome, Happened
  <2>5. ASSUME NEW w \in Workers, wjob[w] = j, OwnStep(w) PROVE Outcome(j)'
    BY <1>2, <2>1, <2>5, OutcomeOfOwnStep DEF OutcomeInv
  <2>6. ASSUME NEW w \in Workers, TakeJob(w, j) PROVE Outcome(j)'
    <3>1. queue[j] = "waiting" /\ UNCHANGED <<received, recorded, told>>
      BY <2>6 DEF TakeJob, outside
    <3> QED BY <1>1, <2>1, <2>3, <3>1 DEF Outcome, Happened
  <2>7. ~Redeliver(j)
    BY <2>1, <2>2 DEF Redeliver, LocksTold, Calm, Happened
  <2>8. ~Evict(j)
    BY <1>2 DEF Evict, Occurs, Notice, Calm, Happened
  <2> QED BY <2>4, <2>5, <2>6, <2>7, <2>8, StepTouches
<1>3. TriesKnown'
  BY TriesStep DEF OutcomeInv
<1> QED BY <1>2, <1>3 DEF OutcomeInv

\* What the admins are told of a failed delivery is true, unless its reply or its
\* record was lost, or the job was stalled and delivered again.
THEOREM FailureIsTrueAlways == Spec => []FailureIsTrue
<1>1. Init => OutcomeInv
  BY WorkerAssumption DEF Init, OutcomeInv, TriesKnown, Outcome
<1>2. Base /\ Base' /\ LocksTold /\ OutcomeInv /\ [Next]_vars => OutcomeInv'
  BY WorkerAssumption, OutcomeStep
<1>3. OutcomeInv => FailureIsTrue
  BY DEF OutcomeInv, Calm, Outcome, FailureIsTrue
<1> QED BY <1>1, <1>2, <1>3, BaseAlways, LocksAlways, PTL DEF Spec
=============================================================================
