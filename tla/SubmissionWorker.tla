-------------------------- MODULE SubmissionWorker --------------------------
(***************************************************************************)
(* SubmissionProcessor.process and WebhooksProcessor.process on their      *)
(* BullMQ queues: what becomes of a submission once it has been accepted.  *)
(* A job is a submission, or a pair <<webhook, submission>>. Each await of *)
(* a processor is a step, so that attempts interleave there; an attempt    *)
(* whose lock was lost goes on while its job is delivered again.           *)
(***************************************************************************)
EXTENDS Integers, FiniteSets

CONSTANTS
    Submissions,    \* the submissions of the instance
    Filed,          \* those whose row a report commits before the job is added
    Hooks,          \* the form's webhooks
    Mail,           \* the notification mail, as a channel beside the hooks
    Workers,        \* the slots of the worker pools
    NoJob,          \* the job of an idle worker
    Identity,       \* the externalId a submission registers, or NoIdentity
    NoIdentity,     \* of a submission that registers no record
    Attempts,       \* defaultJobOptions.attempts
    MaxStalls,      \* BullMQ's maxStalledCount
    Events,         \* the environment events this instance allows
    MaxFaults       \* how many kinds of them one behaviour shows

Deliveries == Hooks \X Submissions
Jobs == Submissions \cup Deliveries

EventKinds == {"crash", "lock_lost", "db_error", "queue_error", "lost_reply",
               "refused", "unsafe_url", "replica_lag", "hook_deleted",
               "evicted"}

ASSUME WorkerAssumption ==
    /\ Filed \subseteq Submissions
    /\ Submissions \cap Deliveries = {}
    /\ NoJob \notin Jobs /\ Mail \notin Hooks
    /\ Attempts \in Nat \ {0} /\ MaxStalls \in Nat
    /\ Events \subseteq EventKinds /\ MaxFaults \in Nat

VARIABLES
    row,        \* whether the submission's row is in the primary database
    subjects,   \* how many records were created for it
    counted,    \* how often form_analytics counted it
    replica,    \* the rows and active webhooks a lagging reader shows
    files,      \* its uploads: loose, linked to it, queued for verification
    active,     \* FormWebhook.isActive
    queue,      \* each job's state in BullMQ
    tries,      \* job.attemptsMade
    stalls,     \* how often the job was found without a lock
    wpc,        \* where each worker is in its processor
    wjob,       \* the job it runs
    wread,      \* what its attempt knows: attemptsMade, webhooks, response
    holds,      \* whether it still holds the job's lock
    received,   \* the deliveries that reached their endpoint
    recorded,   \* those of which a successful WebhookDelivery was written
    told,       \* what the admins were told: <<"off" or "failed", delivery>>
    mailed,     \* the submissions the mail was handed over for
    faults      \* history: <<what went wrong, with which job>>

tables == <<row, subjects, counted, replica, files>>
queueVars == <<queue, tries, stalls>>
workerVars == <<wpc, wjob, wread, holds>>
outside == <<received, recorded, told, mailed>>
vars == <<tables, active, queueVars, workerVars, outside, faults>>

NothingRead == [tries |-> 0, hooks |-> {}, ok |-> FALSE]

Init ==
    /\ row = [s \in Submissions |-> FALSE]
    /\ subjects = [s \in Submissions |-> 0]
    /\ counted = [s \in Submissions |-> 0]
    /\ replica = [rows |-> {}, hooks |-> Hooks]
    /\ files = [s \in Submissions |-> "loose"]
    /\ active = [h \in Hooks |-> TRUE]
    /\ queue = [j \in Jobs |-> "none"]
    /\ tries = [j \in Jobs |-> 0]
    /\ stalls = [j \in Jobs |-> 0]
    /\ wpc = [w \in Workers |-> "idle"]
    /\ wjob = [w \in Workers |-> NoJob]
    /\ wread = [w \in Workers |-> NothingRead]
    /\ holds = [w \in Workers |-> FALSE]
    /\ received = {} /\ recorded = {} /\ told = {} /\ mailed = {}
    /\ faults = {}

Notice(kind, j) ==
    /\ faults' = faults \cup {<<kind, j>>}
    /\ Cardinality(faults') <= MaxFaults
Occurs(kind, j) == kind \in Events /\ Notice(kind, j)

\* What prisma.reader answers: the primary's state, or an older one.
Stored == {s \in Submissions : row[s]}
ActiveHooks == {h \in Hooks : active[h]}
ReadableRows ==
    IF "replica_lag" \in Events THEN replica.rows ELSE Stored
ReadableHooks ==
    IF "replica_lag" \in Events THEN replica.hooks ELSE ActiveHooks

\* The unique index on a record's organization, type and external id.
IdentityTaken(s) ==
    /\ Identity[s] # NoIdentity
    /\ \E t \in Submissions : row[t] /\ Identity[t] = Identity[s]

-----------------------------------------------------------------------------
(* The callers of SubmissionProducer.enqueue, and the owner's webhooks.    *)

\* submitSession commits its rows, their records included.
FileReport(s) ==
    /\ s \in Filed /\ ~row[s] /\ ~IdentityTaken(s)
    /\ row' = [row EXCEPT ![s] = TRUE]
    /\ subjects' = [subjects EXCEPT ![s] =
                       IF Identity[s] = NoIdentity THEN 0 ELSE 1]
    /\ UNCHANGED <<counted, replica, files, active, queueVars, workerVars,
                   outside, faults>>

\* The job's id is the submission's: it can be added once.
Enqueue(s) ==
    /\ queue[s] = "none" /\ (s \in Filed => row[s])
    /\ queue' = [queue EXCEPT ![s] = "waiting"]
    /\ UNCHANGED <<tables, active, tries, stalls, workerVars, outside, faults>>

DeleteWebhook(h) ==
    /\ "hook_deleted" \in Events /\ active[h]
    /\ active' = [active EXCEPT ![h] = FALSE]
    /\ UNCHANGED <<tables, queueVars, workerVars, outside, faults>>

Replicate ==
    /\ "replica_lag" \in Events
    /\ replica # [rows |-> Stored, hooks |-> ActiveHooks]
    /\ replica' = [rows |-> Stored, hooks |-> ActiveHooks]
    /\ UNCHANGED <<row, subjects, counted, files, active, queueVars,
                   workerVars, outside, faults>>

-----------------------------------------------------------------------------
(* A worker's attempt, and what BullMQ makes of its end.                   *)

Goto(w, from, to) == wpc[w] = from /\ wpc' = [wpc EXCEPT ![w] = to]
KeepJob == UNCHANGED <<queueVars, wjob, holds, wread>>

TakeJob(w, j) ==
    /\ queue[j] = "waiting"
    /\ Goto(w, "idle", IF j \in Submissions THEN "existing" ELSE "load")
    /\ queue' = [queue EXCEPT ![j] = "active"]
    /\ wjob' = [wjob EXCEPT ![w] = j]
    /\ holds' = [holds EXCEPT ![w] = TRUE]
    /\ wread' = [wread EXCEPT ![w].tries = tries[j]]
    /\ UNCHANGED <<tables, active, tries, stalls, outside, faults>>

\* Mutant: one attempt more than the job's options allow.
EndAttemptLate(w, from, threw) ==
    LET j == wjob[w]
        result == IF ~threw THEN "completed"
                  ELSE IF tries[j] + 1 > Attempts THEN "failed" ELSE "waiting"
    IN /\ Goto(w, from, "idle")
       /\ queue' = IF holds[w] THEN [queue EXCEPT ![j] = result] ELSE queue
       /\ tries' = IF holds[w] /\ threw THEN [tries EXCEPT ![j] = @ + 1]
                   ELSE tries
       /\ wjob' = [wjob EXCEPT ![w] = NoJob]
       /\ holds' = [holds EXCEPT ![w] = FALSE]
       /\ wread' = [wread EXCEPT ![w] = NothingRead]
       /\ UNCHANGED stalls

\* The worker is idle again; its outcome counts only if it holds the lock.
EndAttempt(w, from, threw) ==
    LET j == wjob[w]
        result == IF ~threw THEN "completed"
                  ELSE IF tries[j] + 1 >= Attempts THEN "failed"
                  ELSE "waiting"
    IN /\ Goto(w, from, "idle")
       /\ queue' = IF holds[w] THEN [queue EXCEPT ![j] = result] ELSE queue
       /\ tries' = IF holds[w] /\ threw THEN [tries EXCEPT ![j] = @ + 1]
                   ELSE tries
       /\ wjob' = [wjob EXCEPT ![w] = NoJob]
       /\ holds' = [holds EXCEPT ![w] = FALSE]
       /\ wread' = [wread EXCEPT ![w] = NothingRead]
       /\ UNCHANGED stalls

\* A database call of the processor fails, and with it the attempt.
Throws(w) ==
    /\ wpc[w] \in {"existing", "persist", "hooks", "load", "block",
                   "deactivate", "record"}
    /\ EndAttempt(w, wpc[w], TRUE)
    /\ Occurs("db_error", wjob[w])
    /\ UNCHANGED <<tables, active, outside>>

WorkerCrashes(w) ==
    /\ wpc[w] # "idle" /\ wpc' = [wpc EXCEPT ![w] = "idle"]
    /\ wjob' = [wjob EXCEPT ![w] = NoJob]
    /\ wread' = [wread EXCEPT ![w] = NothingRead]
    /\ holds' = [holds EXCEPT ![w] = FALSE]
    /\ Occurs("crash", wjob[w])
    /\ UNCHANGED <<tables, active, queueVars, outside>>

\* The worker's event loop or network stalls; the processor goes on.
LoseLock(w) ==
    /\ holds[w] /\ holds' = [holds EXCEPT ![w] = FALSE]
    /\ Occurs("lock_lost", wjob[w])
    /\ UNCHANGED <<tables, active, queueVars, wpc, wjob, wread, outside>>

\* BullMQ's stalled check.
Redeliver(j) ==
    /\ queue[j] = "active"
    /\ \A w \in Workers : ~(wjob[w] = j /\ holds[w])
    /\ IF stalls[j] < MaxStalls
       THEN /\ queue' = [queue EXCEPT ![j] = "waiting"]
            /\ stalls' = [stalls EXCEPT ![j] = @ + 1]
       ELSE queue' = [queue EXCEPT ![j] = "failed"] /\ UNCHANGED stalls
    /\ UNCHANGED <<tables, active, tries, workerVars, outside, faults>>

\* removeOnComplete keeps the last 1000 completed jobs; with an older one goes
\* the id that kept it from being added again.
Evict(j) ==
    /\ queue[j] = "completed" /\ j \in Deliveries
    /\ queue' = [queue EXCEPT ![j] = "none"]
    /\ tries' = [tries EXCEPT ![j] = 0]
    /\ stalls' = [stalls EXCEPT ![j] = 0]
    /\ Occurs("evicted", j)
    /\ UNCHANGED <<tables, active, workerVars, outside>>

-----------------------------------------------------------------------------
(* SubmissionProcessor.process and its side effects.                       *)

\* Mutant: without the existence check, a retry runs into the primary key.
AlwaysPersist(w) ==
    /\ Goto(w, "existing", "persist") /\ KeepJob
    /\ UNCHANGED <<tables, active, outside, faults>>

\* Mutant: a job that has been tried before is taken to have stored its row.
RetryIsStored(w) ==
    /\ Goto(w, "existing", IF wread[w].tries > 0 THEN "files" ELSE "persist")
    /\ KeepJob
    /\ UNCHANGED <<tables, active, outside, faults>>

\* The form's version, then the submission's row, both from the reader; where
\* it shows the row already only the side effects are left.
FindExisting(w) ==
    /\ \/ /\ wjob[w] \in ReadableRows
          /\ Goto(w, "existing", "files") /\ UNCHANGED faults
       \/ /\ wjob[w] \notin Stored
          /\ Goto(w, "existing", "persist") /\ UNCHANGED faults
       \/ /\ wjob[w] \in Stored \ ReadableRows
          /\ Goto(w, "existing", "persist") /\ Notice("unseen", wjob[w])
    /\ KeepJob
    /\ UNCHANGED <<tables, active, outside>>

\* Mutant: the analytics are counted before the transaction.
PersistOutside(w) ==
    LET s == wjob[w] IN
    /\ wpc[w] = "persist"
    /\ counted' = [counted EXCEPT ![s] = @ + 1]
    /\ \/ /\ ~row[s] /\ ~IdentityTaken(s)
          /\ Goto(w, "persist", "files") /\ KeepJob
          /\ row' = [row EXCEPT ![s] = TRUE]
          /\ subjects' = [subjects EXCEPT ![s] =
                             IF Identity[s] = NoIdentity THEN 0 ELSE @ + 1]
       \/ /\ row[s] \/ IdentityTaken(s)
          /\ EndAttempt(w, "persist", TRUE)
          /\ UNCHANGED <<row, subjects>>
    /\ UNCHANGED <<replica, files, active, outside, faults>>

\* Mutant: no unique index on external ids.
PersistUnindexed(w) ==
    LET s == wjob[w] IN
    /\ wpc[w] = "persist"
    /\ \/ /\ ~row[s]
          /\ Goto(w, "persist", "files") /\ KeepJob
          /\ row' = [row EXCEPT ![s] = TRUE]
          /\ counted' = [counted EXCEPT ![s] = @ + 1]
          /\ subjects' = [subjects EXCEPT ![s] =
                             IF Identity[s] = NoIdentity THEN 0 ELSE @ + 1]
       \/ /\ row[s]
          /\ EndAttempt(w, "persist", TRUE)
          /\ UNCHANGED <<row, counted, subjects>>
    /\ UNCHANGED <<replica, files, active, outside, faults>>

\* One transaction: the record, the row and the day's analytics. It is rolled
\* back on the row's primary key, or on the record's unique external id.
Persist(w) ==
    LET s == wjob[w] IN
    /\ wpc[w] = "persist"
    /\ \/ /\ ~row[s] /\ ~IdentityTaken(s)
          /\ Goto(w, "persist", "files") /\ KeepJob
          /\ row' = [row EXCEPT ![s] = TRUE]
          /\ counted' = [counted EXCEPT ![s] = @ + 1]
          /\ subjects' = [subjects EXCEPT ![s] =
                             IF Identity[s] = NoIdentity THEN 0 ELSE @ + 1]
       \/ /\ row[s] \/ IdentityTaken(s)
          /\ EndAttempt(w, "persist", TRUE)
          /\ UNCHANGED <<row, counted, subjects>>
    /\ UNCHANGED <<replica, files, active, outside, faults>>

\* linkAndVerifyFiles: an error of its update or of a queue.add is swallowed.
LinkFiles(w) ==
    LET s == wjob[w] IN
    /\ Goto(w, "files", "hooks") /\ KeepJob
    /\ \/ files' = [files EXCEPT ![s] = "queued"] /\ UNCHANGED faults
       \/ /\ \/ "db_error" \in Events /\ UNCHANGED files
             \/ /\ "queue_error" \in Events /\ files[s] = "loose"
                /\ files' = [files EXCEPT ![s] = "linked"]
          /\ Notice("files_error", s)
    /\ UNCHANGED <<row, subjects, counted, replica, active, outside>>

\* enqueueWebhooks: read the active webhooks, then one queue.add for each.
ReadHooks(w) ==
    /\ Goto(w, "hooks", "enqueue")
    /\ wread' = [wread EXCEPT ![w].hooks = ReadableHooks]
    /\ UNCHANGED <<queueVars, wjob, holds, tables, active, outside, faults>>

AddDeliveries(added, s) ==
    [j \in Jobs |-> IF queue[j] = "none" /\ j \in added \X {s}
                    THEN "waiting" ELSE queue[j]]

EnqueueHooks(w) ==
    /\ Goto(w, "enqueue", "mail")
    /\ queue' = AddDeliveries(wread[w].hooks, wjob[w])
    /\ UNCHANGED <<tries, stalls, wjob, holds, wread, tables, active, outside,
                   faults>>

\* Mutant: a failing queue.add is logged, as it is for files.
EnqueueHooksSwallowed(w) ==
    \E added \in SUBSET wread[w].hooks :
        /\ Goto(w, "enqueue", "mail")
        /\ queue' = AddDeliveries(added, wjob[w])
        /\ added # wread[w].hooks /\ Occurs("queue_error", wjob[w])
        /\ UNCHANGED <<tries, stalls, wjob, holds, wread, tables, active,
                       outside>>

\* Some of the adds may have succeeded when one fails; the attempt throws.
EnqueueHooksFail(w) ==
    \E added \in SUBSET wread[w].hooks :
        LET j == wjob[w]
            result == IF tries[j] + 1 >= Attempts THEN "failed" ELSE "waiting"
            queued == AddDeliveries(added, j)
        IN /\ added # wread[w].hooks /\ Occurs("queue_error", j)
           /\ Goto(w, "enqueue", "idle")
           /\ queue' = IF holds[w] THEN [queued EXCEPT ![j] = result]
                       ELSE queued
           /\ tries' = IF holds[w] THEN [tries EXCEPT ![j] = @ + 1] ELSE tries
           /\ wjob' = [wjob EXCEPT ![w] = NoJob]
           /\ holds' = [holds EXCEPT ![w] = FALSE]
           /\ wread' = [wread EXCEPT ![w] = NothingRead]
           /\ UNCHANGED <<stalls, tables, active, outside>>

\* The mail is not awaited; the attempt ends well.
SendMail(w) ==
    /\ EndAttempt(w, "mail", FALSE)
    /\ mailed' = mailed \cup {wjob[w]}
    /\ UNCHANGED <<tables, active, received, recorded, told, faults>>

ProcessSubmission(w) ==
    \/ FindExisting(w) \/ Persist(w) \/ LinkFiles(w)
    \/ ReadHooks(w) \/ EnqueueHooks(w) \/ EnqueueHooksFail(w) \/ SendMail(w)

-----------------------------------------------------------------------------
(* WebhooksProcessor.process.                                              *)

\* A webhook that is gone or inactive ends the job; a URL that resolves to an
\* internal address by now takes another way.
LoadHook(w) ==
    /\ wpc[w] = "load"
    /\ \/ /\ wjob[w][1] \notin ReadableHooks
          /\ EndAttempt(w, "load", FALSE)
       \/ /\ wjob[w][1] \in ReadableHooks
          /\ \/ Goto(w, "load", "post")
             \/ "unsafe_url" \in Events /\ Goto(w, "load", "block")
          /\ KeepJob
    /\ UNCHANGED <<tables, active, outside, faults>>

RecordBlocked(w) ==
    /\ Goto(w, "block", "deactivate") /\ KeepJob
    /\ UNCHANGED <<tables, active, outside, faults>>

Deactivate(w) ==
    /\ Goto(w, "deactivate", "tellOff") /\ KeepJob
    /\ active' = [active EXCEPT ![wjob[w][1]] = FALSE]
    /\ UNCHANGED <<tables, outside, faults>>

\* notifyOrganization swallows its own errors.
NotifyFailure(what, j) ==
    \/ told' = told \cup {<<what, j>>} /\ UNCHANGED faults
    \/ /\ "db_error" \in Events
       /\ Notice("not_told", j) /\ UNCHANGED told

TellDeactivated(w) ==
    /\ EndAttempt(w, "tellOff", FALSE)
    /\ NotifyFailure("off", wjob[w])
    /\ UNCHANGED <<tables, active, received, recorded, mailed>>

\* The request may arrive although its response does not.
PostDelivery(w) ==
    LET j == wjob[w] IN
    /\ Goto(w, "post", "record")
    /\ \/ /\ received' = received \cup {j} /\ UNCHANGED faults
          /\ wread' = [wread EXCEPT ![w].ok = TRUE]
       \/ /\ received' = received \cup {j} /\ Occurs("lost_reply", j)
          /\ UNCHANGED wread
       \/ /\ "refused" \in Events
          /\ UNCHANGED <<received, wread, faults>>
    /\ UNCHANGED <<queueVars, wjob, holds, tables, active, recorded, told,
                   mailed>>

\* Mutant: the admins are told of every failed attempt.
RecordAndTell(w) ==
    /\ wpc[w] = "record"
    /\ recorded' = IF wread[w].ok THEN recorded \cup {wjob[w]} ELSE recorded
    /\ Goto(w, "record", IF wread[w].ok THEN "done" ELSE "tell")
    /\ KeepJob
    /\ UNCHANGED <<tables, active, received, told, mailed, faults>>

\* Mutant: the last attempt is looked for one too late.
RecordTellingLate(w) ==
    /\ wpc[w] = "record"
    /\ recorded' = IF wread[w].ok THEN recorded \cup {wjob[w]} ELSE recorded
    /\ Goto(w, "record",
            IF wread[w].ok THEN "done"
            ELSE IF wread[w].tries >= Attempts THEN "tell" ELSE "throw")
    /\ KeepJob
    /\ UNCHANGED <<tables, active, received, told, mailed, faults>>

\* The delivery is recorded; only the last failure is notified.
RecordDelivery(w) ==
    /\ wpc[w] = "record"
    /\ recorded' = IF wread[w].ok THEN recorded \cup {wjob[w]} ELSE recorded
    /\ Goto(w, "record",
            IF wread[w].ok THEN "done"
            ELSE IF wread[w].tries + 1 >= Attempts THEN "tell" ELSE "throw")
    /\ KeepJob
    /\ UNCHANGED <<tables, active, received, told, mailed, faults>>

EndDelivery(w) ==
    /\ \/ EndAttempt(w, "done", FALSE)
       \/ EndAttempt(w, "throw", TRUE)
    /\ UNCHANGED <<tables, active, outside, faults>>

TellFailed(w) ==
    /\ EndAttempt(w, "tell", TRUE)
    /\ NotifyFailure("failed", wjob[w])
    /\ UNCHANGED <<tables, active, received, recorded, mailed>>

DeliverWebhook(w) ==
    \/ LoadHook(w) \/ RecordBlocked(w) \/ Deactivate(w) \/ TellDeactivated(w)
    \/ PostDelivery(w) \/ RecordDelivery(w) \/ EndDelivery(w) \/ TellFailed(w)

-----------------------------------------------------------------------------

Work(w) == ProcessSubmission(w) \/ DeliverWebhook(w)

Next ==
    \/ \E s \in Submissions : FileReport(s) \/ Enqueue(s)
    \/ \E h \in Hooks : DeleteWebhook(h)
    \/ Replicate
    \/ \E w \in Workers :
        \/ \E j \in Jobs : TakeJob(w, j)
        \/ Work(w) \/ Throws(w) \/ WorkerCrashes(w) \/ LoseLock(w)
    \/ \E j \in Jobs : Redeliver(j) \/ Evict(j)

Spec == Init /\ [][Next]_vars

\* The workers' event loops run, the queue hands out what waits and checks for
\* stalled jobs, and the replica catches up.
FairSpec ==
    /\ Spec
    /\ WF_vars(Replicate)
    /\ \A w \in Workers : WF_vars(Work(w))
    /\ \A j \in Jobs : WF_vars(Redeliver(j))
    /\ \A j \in Jobs : WF_vars(\E w \in Workers : TakeJob(w, j))

-----------------------------------------------------------------------------
(* Properties.                                                             *)

WorkerPCs == {"idle", "existing", "persist", "files", "hooks",
              "enqueue", "mail", "load", "block", "deactivate", "tellOff",
              "post", "record", "done", "throw", "tell"}

\* Types; and a worker has a job exactly while it is not idle.
TypeOK ==
    /\ row \in [Submissions -> BOOLEAN]
    /\ subjects \in [Submissions -> Nat] /\ counted \in [Submissions -> Nat]
    /\ replica \in [rows : SUBSET Submissions, hooks : SUBSET Hooks]
    /\ files \in [Submissions -> {"loose", "linked", "queued"}]
    /\ active \in [Hooks -> BOOLEAN]
    /\ queue \in [Jobs -> {"none", "waiting", "active", "completed", "failed"}]
    /\ tries \in [Jobs -> 0..Attempts] /\ stalls \in [Jobs -> 0..MaxStalls]
    /\ wpc \in [Workers -> WorkerPCs]
    /\ wjob \in [Workers -> Jobs \cup {NoJob}]
    /\ wread \in [Workers -> [tries : 0..Attempts, hooks : SUBSET Hooks,
                              ok : BOOLEAN]]
    /\ holds \in [Workers -> BOOLEAN]
    /\ received \subseteq Deliveries /\ recorded \subseteq Deliveries
    /\ told \subseteq {"off", "failed"} \X Deliveries
    /\ mailed \subseteq Submissions
    /\ \A w \in Workers : (wjob[w] = NoJob) <=> (wpc[w] = "idle")

Happened(kinds, j) == \E k \in kinds : <<k, j>> \in faults

\* However often a submission's job runs, and on however many workers at once,
\* its row, its record and its place in the analytics are written together and
\* once. A report's row is the exception the code makes: it never reaches the
\* analytics (submission.processor.ts:111).
PersistedOnce ==
    \A s \in Submissions :
        /\ subjects[s] = IF row[s] /\ Identity[s] # NoIdentity THEN 1 ELSE 0
        /\ counted[s] = IF row[s] /\ s \notin Filed THEN 1 ELSE 0

\* No two stored submissions registered the same record.
IdentityUnique ==
    \A s, t \in Submissions :
        row[s] /\ row[t] /\ Identity[s] = Identity[t] /\ s # t
            => Identity[s] = NoIdentity

\* A submission's job that ended well left nothing undone: its files are queued
\* for verification, unless that error was swallowed, and every webhook that is
\* still active has its delivery, whatever failed on the way and was retried.
SideEffectsStarted ==
    \A s \in Submissions : queue[s] = "completed" =>
        /\ row[s] /\ s \in mailed
        /\ files[s] = "queued" \/ Happened({"files_error"}, s)
        /\ \A h \in Hooks : active[h] =>
               queue[<<h, s>>] # "none" \/ Happened({"evicted"}, <<h, s>>)

\* A submission's job that BullMQ has given up met an error of its own, or it
\* would register a record that exists, or it is a report's row which the reader
\* did not show in any attempt (submission.processor.ts:95).
GivenUpForAReason ==
    \A s \in Submissions : queue[s] = "failed" =>
        \/ Happened({"db_error", "queue_error", "crash", "lock_lost"}, s)
        \/ s \in Filed /\ Happened({"unseen"}, s)
        \/ ~row[s] /\ IdentityTaken(s)

\* "every notification sent describes a delivery that genuinely did not happen"
\* (webhooks.processor.ts:159): unless the response was lost, its record could
\* not be written, or the job was delivered again.
FailureIsTrue ==
    \A j \in Deliveries : <<"failed", j>> \in told =>
        \/ j \notin received
        \/ Happened({"lost_reply", "db_error"}, j) /\ j \notin recorded
        \/ Happened({"crash", "lock_lost", "evicted"}, j)

\* A delivery that was added is recorded as delivered, or its webhook is off, or
\* the admins are told, whatever the attempts before met; not if the job has
\* failed for good and a database error, a stall or a lost notice was part of it.
DeliveryEnds ==
    \A j \in Deliveries : queue[j] = "waiting" ~>
        \/ j \in recorded \/ ~active[j[1]] \/ <<"failed", j>> \in told
        \/ /\ queue[j] = "failed"
           /\ Happened({"db_error", "not_told", "crash", "lock_lost"}, j)

StageOf(s) ==
    IF row[s] THEN "stored"
    ELSE IF queue[s] = "none" THEN "new"
    ELSE IF queue[s] = "failed" THEN "failed" ELSE "accepted"

\* What the outside sees of the worker is the abstract delivery: stored before
\* announced, stored for good, and no accepted submission is left in between.
Delivery ==
    INSTANCE SubmissionDelivery WITH
        Channels <- Hooks \cup {Mail},
        stage <- [s \in Submissions |-> StageOf(s)],
        announced <- received \cup ({Mail} \X mailed)

ImplementsDelivery == Delivery!FairSpec
=============================================================================
