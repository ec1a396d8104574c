----------------------------- MODULE ExportJobs -----------------------------
(***************************************************************************)
(* Asynchronous exports: ExportsService.createExport, the queue it feeds,  *)
(* ExportProcessor.runExport on a pool of workers, and ExportSweeper.      *)
(* An export is a row, an object in the bucket and a job in the queue;     *)
(* each await of a handler is a step, so that handlers interleave there.   *)
(*                                                                         *)
(* The queue is BullMQ: a job whose worker died or stopped renewing its    *)
(* lock is delivered again, while the first worker may still be running.   *)
(***************************************************************************)
EXTENDS Integers, FiniteSets

CONSTANTS
    Exports,        \* calls of createExport, each for an export of its own
    Workers,        \* the slots of the worker pool
    NoExport,       \* the export of an idle worker
    MaxConcurrent,  \* maxConcurrentPerOrg()
    Attempts,       \* EXPORT_JOB_OPTIONS.attempts
    MaxStalls,      \* BullMQ's maxStalledCount
    Events          \* the environment events this instance allows

EventKinds == {"crash", "lock_lost", "db_error", "storage_error",
               "queue_error", "lost_reply", "overdue", "forms_gone",
               "replica_lag"}

ASSUME ExportAssumption ==
    /\ IsFiniteSet(Exports) /\ NoExport \notin Exports
    /\ MaxConcurrent \in Nat \ {0}
    /\ Attempts \in Nat \ {0} /\ MaxStalls \in Nat
    /\ Events \subseteq EventKinds

VARIABLES
    caller,     \* where each createExport is
    status,     \* ExportJob.status, "none" before the row exists
    started,    \* ExportJob.startedAt: never, within the stale window, before
    due,        \* whether ExportJob.expiresAt has passed
    object,     \* what lies at the export's object key
    queue,      \* the export's job in BullMQ
    tries,      \* job.attemptsMade
    stalls,     \* how often the job was found without a lock
    wpc,        \* where each worker is in runExport
    wjob,       \* the export it runs
    wread,      \* what its attempt read: job.attemptsMade, row.startedAt
    holds,      \* whether it still holds the job's lock
    sweeper,    \* where ExportSweeper.sweep is
    batch,      \* the due rows it read, and whether their object is deleted
    faults      \* history: what went wrong so far

rowVars == <<status, started, due>>
queueVars == <<queue, tries, stalls>>
workerVars == <<wpc, wjob, wread, holds>>
sweepVars == <<sweeper, batch>>
vars == <<caller, rowVars, object, queueVars, workerVars, sweepVars, faults>>

NothingRead == [tries |-> 0, started |-> "never"]
InFlight == {e \in Exports : status[e] \in {"QUEUED", "RUNNING"}}
Creating == {e \in Exports : caller[e] = "create"}

Init ==
    /\ caller = [e \in Exports |-> "count"]
    /\ status = [e \in Exports |-> "none"]
    /\ started = [e \in Exports |-> "never"]
    /\ due = [e \in Exports |-> FALSE]
    /\ object = [e \in Exports |-> "absent"]
    /\ queue = [e \in Exports |-> "absent"]
    /\ tries = [e \in Exports |-> 0]
    /\ stalls = [e \in Exports |-> 0]
    /\ wpc = [w \in Workers |-> "idle"]
    /\ wjob = [w \in Workers |-> NoExport]
    /\ wread = [w \in Workers |-> NothingRead]
    /\ holds = [w \in Workers |-> FALSE]
    /\ sweeper = "idle"
    /\ batch = [e \in Exports |-> "none"]
    /\ faults = {}

Occurs(kind) == kind \in Events /\ faults' = faults \cup {kind}
Call(e, from, to) == caller[e] = from /\ caller' = [caller EXCEPT ![e] = to]
SetStatus(e, s) == status' = [status EXCEPT ![e] = s]

-----------------------------------------------------------------------------
(* createExport: count the rows in flight, insert the row, add the job.    *)

\* Mutant: an export that still waits in the queue is not counted.
CountRunning(e) ==
    /\ Call(e, "count", IF Cardinality({x \in Exports : status[x] = "RUNNING"})
                            >= MaxConcurrent THEN "refused" ELSE "create")
    /\ faults' = faults \cup {k \in {"overlapping_creates"} : Creating # {}}
    /\ UNCHANGED <<rowVars, object, queueVars, workerVars, sweepVars>>

CountInFlight(e) ==
    /\ Call(e, "count", IF Cardinality(InFlight) >= MaxConcurrent
                        THEN "refused" ELSE "create")
    /\ faults' = faults \cup {k \in {"overlapping_creates"} : Creating # {}}
    /\ UNCHANGED <<rowVars, object, queueVars, workerVars, sweepVars>>

CreateRow(e) ==
    /\ Call(e, "create", "enqueue")
    /\ SetStatus(e, "QUEUED")
    /\ UNCHANGED <<started, due, object, queueVars, workerVars, sweepVars,
                   faults>>

\* queue.add may fail, or fail after the job has been added.
EnqueueJob(e) ==
    /\ \/ Call(e, "enqueue", "accepted") /\ UNCHANGED faults
       \/ Call(e, "enqueue", "undo") /\ Occurs("lost_reply")
    /\ queue' = [queue EXCEPT ![e] = "waiting"]
    /\ UNCHANGED <<rowVars, object, tries, stalls, workerVars, sweepVars>>

EnqueueFails(e) ==
    /\ Occurs("queue_error")
    /\ Call(e, "enqueue", "undo")
    /\ UNCHANGED <<rowVars, object, queueVars, workerVars, sweepVars>>

\* The row is marked FAILED whatever became of it since, or, if that fails too,
\* left as it is.
UndoCreate(e) ==
    /\ Call(e, "undo", "refused")
    /\ \/ SetStatus(e, "FAILED") /\ UNCHANGED faults
       \/ Occurs("db_error") /\ UNCHANGED status
    /\ UNCHANGED <<started, due, object, queueVars, workerVars, sweepVars>>

CallerCrashes(e) ==
    /\ caller[e] \in {"create", "enqueue", "undo"}
    /\ caller' = [caller EXCEPT ![e] = "crashed"]
    /\ Occurs("crash")
    /\ UNCHANGED <<rowVars, object, queueVars, workerVars, sweepVars>>

-----------------------------------------------------------------------------
(* A worker's attempt, and what BullMQ makes of its end.                   *)

Goto(w, from, to) == wpc[w] = from /\ wpc' = [wpc EXCEPT ![w] = to]

TakeJob(w, e) ==
    /\ wpc[w] = "idle" /\ queue[e] = "waiting"
    /\ queue' = [queue EXCEPT ![e] = "active"]
    /\ wpc' = [wpc EXCEPT ![w] = "read"]
    /\ wjob' = [wjob EXCEPT ![w] = e]
    /\ holds' = [holds EXCEPT ![w] = TRUE]
    /\ wread' = [wread EXCEPT ![w].tries = tries[e]]
    /\ UNCHANGED <<caller, rowVars, object, tries, stalls, sweepVars, faults>>

\* Mutant: one attempt more than the job's options allow.
EndAttemptLate(w, from, threw) ==
    LET e == wjob[w]
        last == tries[e] + 1 > Attempts
        result == IF ~threw THEN "done" ELSE IF last THEN "failed" ELSE "waiting"
    IN /\ Goto(w, from, "idle")
       /\ queue' = IF holds[w] THEN [queue EXCEPT ![e] = result] ELSE queue
       /\ tries' = IF holds[w] /\ threw THEN [tries EXCEPT ![e] = @ + 1]
                   ELSE tries
       /\ wjob' = [wjob EXCEPT ![w] = NoExport]
       /\ holds' = [holds EXCEPT ![w] = FALSE]
       /\ wread' = [wread EXCEPT ![w] = NothingRead]
       /\ UNCHANGED stalls

\* The worker is idle again; its outcome counts only if it holds the lock.
EndAttempt(w, from, threw) ==
    LET e == wjob[w]
        last == tries[e] + 1 >= Attempts
        result == IF ~threw THEN "done" ELSE IF last THEN "failed" ELSE "waiting"
    IN /\ Goto(w, from, "idle")
       /\ queue' = IF holds[w] THEN [queue EXCEPT ![e] = result] ELSE queue
       /\ tries' = IF holds[w] /\ threw THEN [tries EXCEPT ![e] = @ + 1]
                   ELSE tries
       /\ wjob' = [wjob EXCEPT ![w] = NoExport]
       /\ holds' = [holds EXCEPT ![w] = FALSE]
       /\ wread' = [wread EXCEPT ![w] = NothingRead]
       /\ UNCHANGED stalls

KeepJob == UNCHANGED <<queueVars, wjob, holds, wread>>

\* An error outside runExport's try: nothing is cleaned up or marked.
ThrowEarly(w, from) ==
    EndAttempt(w, from, TRUE) /\ Occurs("db_error") /\ UNCHANGED status

\* findUnique and resolveFormsInScope; a finished export ends the attempt, and
\* so does a row that the read replica does not have yet.
ReadJob(w) ==
    /\ wpc[w] = "read"
    /\ LET e == wjob[w] IN
       \/ /\ status[e] = "QUEUED" /\ Occurs("replica_lag")
          /\ EndAttempt(w, "read", FALSE)
       \/ /\ status[e] \in {"COMPLETED", "EXPIRED"}
          /\ EndAttempt(w, "read", FALSE)
          /\ UNCHANGED faults
       \/ /\ status[e] \notin {"COMPLETED", "EXPIRED"}
          /\ \/ Goto(w, "read", "running")
             \/ "forms_gone" \in Events /\ Goto(w, "read", "noForms")
          /\ wread' = [wread EXCEPT ![w].started = started[e]]
          /\ UNCHANGED <<queueVars, wjob, holds, faults>>
       \/ ThrowEarly(w, "read")
    /\ UNCHANGED <<caller, rowVars, object, sweepVars>>

\* markFailed touches only a row that is still QUEUED or RUNNING.
MarkFailed(e) ==
    status' = [status EXCEPT ![e] =
                  IF @ \in {"QUEUED", "RUNNING"} THEN "FAILED" ELSE @]

\* The row is marked FAILED, and the handler returns.
NothingToExport(w) ==
    /\ \/ /\ \/ Goto(w, "noForms", "dropped") /\ UNCHANGED faults
             \/ Goto(w, "noForms", "thrown") /\ Occurs("lost_reply")
          /\ MarkFailed(wjob[w])
          /\ KeepJob
       \/ ThrowEarly(w, "noForms")
    /\ UNCHANGED <<caller, started, due, object, sweepVars>>

\* The unconditional update to RUNNING keeps the startedAt that was read.
MarkRunning(w) ==
    /\ LET e == wjob[w] IN
       \/ /\ Goto(w, "running", "total")
          /\ SetStatus(e, "RUNNING")
          /\ started' = [started EXCEPT ![e] =
                 IF wread[w].started = "never" THEN "recent"
                 ELSE wread[w].started]
          /\ KeepJob /\ UNCHANGED faults
       \/ ThrowEarly(w, "running") /\ UNCHANGED started
    /\ UNCHANGED <<caller, due, object, sweepVars>>

\* COUNT(*) and the update of rowsTotal are still outside the try.
CountRows(w) ==
    /\ \/ Goto(w, "total", "upload") /\ KeepJob /\ UNCHANGED <<status, faults>>
       \/ ThrowEarly(w, "total")
    /\ UNCHANGED <<caller, started, due, object, sweepVars>>

\* An upload that fails leaves what was there, or a truncated object.
UploadExport(w) ==
    /\ \/ /\ Goto(w, "upload", "complete")
          /\ object' = [object EXCEPT ![wjob[w]] = "whole"]
          /\ UNCHANGED faults
       \/ /\ Goto(w, "upload", "cleanup")
          /\ Occurs("storage_error")
          /\ object' \in {object, [object EXCEPT ![wjob[w]] = "partial"]}
    /\ KeepJob
    /\ UNCHANGED <<caller, rowVars, sweepVars>>

CompleteExport(w) ==
    /\ \/ Goto(w, "complete", "notify") /\ UNCHANGED faults
       \/ Goto(w, "complete", "cleanup") /\ Occurs("lost_reply")
    /\ SetStatus(wjob[w], "COMPLETED")
    /\ due' = [due EXCEPT ![wjob[w]] = FALSE]
    /\ KeepJob
    /\ UNCHANGED <<caller, started, object, sweepVars>>

\* Mutant: the row is completed although the update of the row failed.
CompleteAnyway(w) ==
    /\ Goto(w, "complete", "cleanup")
    /\ SetStatus(wjob[w], "COMPLETED")
    /\ KeepJob
    /\ UNCHANGED <<caller, started, due, object, sweepVars, faults>>

CompleteFails(w) ==
    /\ Goto(w, "complete", "cleanup") /\ Occurs("db_error")
    /\ KeepJob
    /\ UNCHANGED <<caller, rowVars, object, sweepVars>>

\* notifyRequester swallows its errors; then the attempt ends well.
NotifyRequester(w) ==
    /\ EndAttempt(w, "notify", FALSE)
    /\ UNCHANGED <<caller, rowVars, object, sweepVars, faults>>

\* handleFailure deletes the object; a failing delete is ignored.
DeletePartialObject(w) ==
    /\ Goto(w, "cleanup", "giveUp")
    /\ \/ object' = [object EXCEPT ![wjob[w]] = "absent"] /\ UNCHANGED faults
       \/ Occurs("storage_error") /\ UNCHANGED object
    /\ KeepJob
    /\ UNCHANGED <<caller, rowVars, sweepVars>>

\* Mutant: every failed attempt marks the row, not only the last one.
GiveUpAtOnce(w) ==
    /\ Goto(w, "giveUp", "thrown")
    /\ MarkFailed(wjob[w])
    /\ KeepJob
    /\ UNCHANGED <<caller, started, due, object, sweepVars, faults>>

\* The row is marked FAILED on the last attempt only; then the error goes on.
GiveUp(w) ==
    /\ Goto(w, "giveUp", "thrown")
    /\ \/ /\ IF wread[w].tries + 1 < Attempts THEN UNCHANGED status
             ELSE MarkFailed(wjob[w])
          /\ UNCHANGED faults
       \/ /\ wread[w].tries + 1 >= Attempts
          /\ Occurs("db_error") /\ UNCHANGED status
    /\ KeepJob
    /\ UNCHANGED <<caller, started, due, object, sweepVars>>

\* The handler has returned or thrown: BullMQ moves the job, a step of its own
\* after the handler's last write.
ReportAttempt(w) ==
    /\ EndAttempt(w, "dropped", FALSE) \/ EndAttempt(w, "thrown", TRUE)
    /\ UNCHANGED <<caller, rowVars, object, sweepVars, faults>>

RunExport(w) ==
    \/ ReadJob(w) \/ NothingToExport(w) \/ MarkRunning(w) \/ CountRows(w)
    \/ UploadExport(w) \/ CompleteExport(w) \/ CompleteFails(w)
    \/ NotifyRequester(w) \/ DeletePartialObject(w) \/ GiveUp(w)
    \/ ReportAttempt(w)

\* The row is FAILED, and the queue has not heard of the attempt's end.
Unreported(w) ==
    wpc[w] \in {"dropped", "thrown"} /\ status[wjob[w]] = "FAILED"

WorkerCrashes(w) ==
    /\ "crash" \in Events
    /\ faults' = faults \cup {"crash"} \cup {k \in {"unreported"} : Unreported(w)}
    /\ wpc[w] # "idle" /\ wpc' = [wpc EXCEPT ![w] = "idle"]
    /\ wjob' = [wjob EXCEPT ![w] = NoExport]
    /\ holds' = [holds EXCEPT ![w] = FALSE]
    /\ wread' = [wread EXCEPT ![w] = NothingRead]
    /\ UNCHANGED <<caller, rowVars, object, queueVars, sweepVars>>

\* The worker's event loop or network stalls; the handler goes on.
LoseLock(w) ==
    /\ holds[w] /\ holds' = [holds EXCEPT ![w] = FALSE]
    /\ Occurs("lock_lost")
    /\ UNCHANGED <<caller, rowVars, object, queueVars, wpc, wjob, wread,
                   sweepVars>>

\* BullMQ's stalled check: an active job without a lock is delivered again.
Redeliver(e) ==
    /\ queue[e] = "active"
    /\ \A w \in Workers : ~(wjob[w] = e /\ holds[w])
    /\ IF stalls[e] < MaxStalls
       THEN /\ queue' = [queue EXCEPT ![e] = "waiting"]
            /\ stalls' = [stalls EXCEPT ![e] = @ + 1]
       ELSE queue' = [queue EXCEPT ![e] = "failed"] /\ UNCHANGED stalls
    /\ UNCHANGED <<caller, rowVars, object, tries, workerVars, sweepVars,
                   faults>>

-----------------------------------------------------------------------------
(* ExportSweeper.sweep: expire what is due, then fail what is stale.       *)

FindDue ==
    /\ sweeper = "idle" /\ sweeper' = "sweep"
    /\ batch' = [e \in Exports |->
                    IF status[e] = "COMPLETED" /\ due[e] THEN "due" ELSE "none"]
    /\ UNCHANGED <<caller, rowVars, object, queueVars, workerVars, faults>>

\* One row at a time: its object, then its row.
SweepObject(e) ==
    /\ sweeper = "sweep"
    /\ \A x \in Exports : batch[x] # "deleted"
    /\ batch[e] = "due" /\ batch' = [batch EXCEPT ![e] = "deleted"]
    /\ object' = [object EXCEPT ![e] = "absent"]
    /\ UNCHANGED <<caller, rowVars, queueVars, workerVars, sweeper, faults>>

\* Mutant: a row whose object could not be deleted is expired all the same.
SweepObjectFailsUnnoticed(e) ==
    /\ sweeper = "sweep"
    /\ batch[e] = "due" /\ batch' = [batch EXCEPT ![e] = "deleted"]
    /\ UNCHANGED <<caller, rowVars, object, queueVars, workerVars, sweeper,
                   faults>>

SweepObjectFails(e) ==
    /\ sweeper = "sweep"
    /\ \A x \in Exports : batch[x] # "deleted"
    /\ batch[e] = "due" /\ batch' = [batch EXCEPT ![e] = "none"]
    /\ Occurs("storage_error")
    /\ UNCHANGED <<caller, rowVars, object, queueVars, workerVars, sweeper>>

SweepRow(e) ==
    /\ sweeper = "sweep"
    /\ batch[e] = "deleted" /\ batch' = [batch EXCEPT ![e] = "none"]
    /\ status' = [status EXCEPT ![e] = IF @ = "COMPLETED" THEN "EXPIRED" ELSE @]
    /\ UNCHANGED <<caller, started, due, object, queueVars, workerVars, sweeper,
                   faults>>

\* Mutant: stale rows are looked for among the queued ones.
FailStaleQueued ==
    /\ sweeper = "sweep" /\ sweeper' = "idle"
    /\ \A e \in Exports : batch[e] = "none"
    /\ status' = [e \in Exports |->
                     IF status[e] = "QUEUED" /\ started[e] = "stale"
                     THEN "FAILED" ELSE status[e]]
    /\ UNCHANGED <<caller, started, due, object, queueVars, workerVars, batch,
                   faults>>

FailStaleRunning ==
    /\ sweeper = "sweep" /\ sweeper' = "idle"
    /\ \A e \in Exports : batch[e] = "none"
    /\ status' = [e \in Exports |->
                     IF status[e] = "RUNNING" /\ started[e] = "stale"
                     THEN "FAILED" ELSE status[e]]
    /\ UNCHANGED <<caller, started, due, object, queueVars, workerVars, batch,
                   faults>>

\* A sweep has a single attempt: one that throws waits for the next hour.
SweepThrows ==
    /\ sweeper = "sweep" /\ sweeper' = "idle"
    /\ batch' = [e \in Exports |-> "none"]
    /\ Occurs("db_error")
    /\ UNCHANGED <<caller, rowVars, object, queueVars, workerVars>>

-----------------------------------------------------------------------------
(* Time.                                                                   *)

Idle(e) == queue[e] \notin {"waiting", "active"}
           /\ \A w \in Workers : wjob[w] # e

\* Retention is a day at least, longer than any attempt stays around.
RetentionPasses(e) ==
    /\ status[e] = "COMPLETED" /\ ~due[e] /\ Idle(e)
    /\ due' = [due EXCEPT ![e] = TRUE]
    /\ UNCHANGED <<caller, status, started, object, queueVars, workerVars,
                   sweepVars, faults>>

\* The stale window passes after nothing runs the export any more, or, in an
\* instance that allows it, under a job that is still running or retrying.
GrowStale(e) ==
    /\ status[e] = "RUNNING" /\ started[e] = "recent"
    /\ started' = [started EXCEPT ![e] = "stale"]
    /\ IF Idle(e) THEN UNCHANGED faults ELSE Occurs("overdue")
    /\ UNCHANGED <<caller, status, due, object, queueVars, workerVars,
                   sweepVars>>

CreateExport(e) ==
    CountInFlight(e) \/ CreateRow(e) \/ EnqueueJob(e) \/ EnqueueFails(e)
    \/ UndoCreate(e)

Sweep ==
    \/ FindDue \/ FailStaleRunning \/ SweepThrows
    \/ \E e \in Exports : SweepObject(e) \/ SweepObjectFails(e) \/ SweepRow(e)

Next ==
    \/ \E e \in Exports : \/ CreateExport(e) \/ CallerCrashes(e) \/ Redeliver(e)
                          \/ RetentionPasses(e) \/ GrowStale(e)
                          \/ \E w \in Workers : TakeJob(w, e)
    \/ \E w \in Workers : RunExport(w) \/ WorkerCrashes(w) \/ LoseLock(w)
    \/ Sweep

Spec == Init /\ [][Next]_vars

\* Handlers, deliveries and the hourly sweep go on, and the bucket and the
\* database answer again some day.
FairSpec ==
    /\ Spec /\ WF_vars(Sweep)
    /\ SF_vars(FailStaleRunning)
    /\ \A e \in Exports :
          /\ WF_vars(CreateExport(e)) /\ WF_vars(Redeliver(e))
          /\ WF_vars(\E w \in Workers : TakeJob(w, e))
          /\ WF_vars(RetentionPasses(e))
          /\ WF_vars(GrowStale(e))
          /\ SF_vars(SweepObject(e)) /\ SF_vars(SweepRow(e))
    /\ \A w \in Workers : WF_vars(RunExport(w))

-----------------------------------------------------------------------------
Never(kinds) == faults \cap kinds = {}

\* The variables hold values of these shapes; a job's attempts and stalls stay
\* within the queue's limits.
TypeOK ==
    /\ caller \in [Exports -> {"count", "create", "enqueue", "undo",
                               "accepted", "refused", "crashed"}]
    /\ status \in [Exports -> {"none", "QUEUED", "RUNNING", "COMPLETED",
                               "FAILED", "EXPIRED"}]
    /\ started \in [Exports -> {"never", "recent", "stale"}]
    /\ due \in [Exports -> BOOLEAN]
    /\ object \in [Exports -> {"absent", "partial", "whole"}]
    /\ queue \in [Exports -> {"absent", "waiting", "active", "done", "failed"}]
    /\ tries \in [Exports -> 0 .. Attempts]
    /\ stalls \in [Exports -> 0 .. MaxStalls]
    /\ wpc \in [Workers -> {"idle", "read", "noForms", "running", "total",
                            "upload", "complete", "notify", "cleanup",
                            "giveUp", "dropped", "thrown"}]
    /\ wjob \in [Workers -> Exports \cup {NoExport}]
    /\ wread \in [Workers -> [tries : 0 .. Attempts,
                              started : {"never", "recent", "stale"}]]
    /\ holds \in [Workers -> BOOLEAN]
    /\ sweeper \in {"idle", "sweep"}
    /\ batch \in [Exports -> {"none", "due", "deleted"}]
    /\ faults \subseteq EventKinds \cup {"overlapping_creates", "unreported"}

\* downloadExport presigns whatever key a COMPLETED row names: the object is
\* there, whole, until its retention is over, whatever attempts failed before,
\* unless two workers ran the export at once or a reply was lost.
CompletedIsDownloadable ==
    Never({"lock_lost", "lost_reply"})
    => \A e \in Exports :
          status[e] = "COMPLETED" /\ ~due[e] => object[e] = "whole"

\* createExport keeps an organization within its concurrent exports, unless
\* two requests counted before either inserted, or a FAILED row was run again.
ConcurrencyRespected ==
    Never({"overlapping_creates", "lock_lost", "lost_reply", "overdue",
           "unreported"})
    => Cardinality(InFlight) <= MaxConcurrent

\* A red "failed" never "silently turns green" (handleFailure), unless a reply
\* was lost, two workers ran at once, the sweeper failed a job still alive, or
\* a worker died after marking the row and before the queue heard of it.
FailedIsFinal ==
    [][\A e \in Exports :
          /\ status[e] = "FAILED" /\ status'[e] # "FAILED"
          => ~Never({"lock_lost", "lost_reply", "overdue", "unreported"})']_vars

\* An export whose worker died, or whose attempts all failed before cleaning
\* up, does not stay RUNNING: failStaleRunning.
RunningEnds ==
    \A e \in Exports : status[e] = "RUNNING" ~> status[e] # "RUNNING"

\* A finished export does not outlive its retention: its object leaves the
\* bucket however often the sweep or the bucket fails, unless a lost reply or
\* a second worker took the row away from the sweeper.
ObjectsExpire ==
    \A e \in Exports :
       status[e] = "COMPLETED"
       ~> object[e] = "absent" \/ ~Never({"lock_lost", "lost_reply"})
=============================================================================
