-------------------------- MODULE ExportJobsProofs --------------------------
(***************************************************************************)
(* Theorems about ExportJobs, for any number of exports and workers, any   *)
(* limits and any set of events.                                           *)
(***************************************************************************)
EXTENDS ExportJobs, FiniteSetTheorems, TLAPS

WorkerPCs == {"idle", "read", "noForms", "running", "total", "upload", "complete",
              "notify", "cleanup", "giveUp", "dropped", "thrown"}
QueueStates == {"absent", "waiting", "active", "done", "failed"}
Reads == [tries : 0 .. Attempts, started : {"never", "recent", "stale"}]

-----------------------------------------------------------------------------
(* Jobs, locks and attempts.                                               *)

\* A worker has an export while it is not idle; a held lock is that of an active
\* job and one worker's only, which knows the job's attempts; a job that is not
\* over has an attempt left; before its caller adds it there is no job, and no
\* worker runs it.
LockInv ==
    /\ \A w \in Workers : wpc[w] # "idle" => wjob[w] \in Exports
    /\ \A w \in Workers : wpc[w] = "idle" => wjob[w] = NoExport
    /\ \A w \in Workers : wpc[w] # "idle" => caller[wjob[w]] \notin {"count", "create", "enqueue"}
    /\ \A w \in Workers : holds[w] =>
          /\ wpc[w] # "idle" /\ queue[wjob[w]] = "active"
          /\ wread[w].tries = tries[wjob[w]]
    /\ \A w, v \in Workers : holds[w] /\ holds[v] /\ wjob[w] = wjob[v] => w = v
    /\ \A e \in Exports : queue[e] \in {"absent", "waiting", "active"} => tries[e] < Attempts
    /\ \A e \in Exports : caller[e] \in {"count", "create", "enqueue"} => queue[e] = "absent"
    /\ \A e \in Exports : caller[e] \in {"count", "create"} => status[e] = "none"

Base == TypeOK /\ LockInv

\* The part of the types that attempts move.
JobTypes ==
    /\ queue \in [Exports -> QueueStates]
    /\ tries \in [Exports -> 0 .. Attempts] /\ stalls \in [Exports -> 0 .. MaxStalls]
    /\ wpc \in [Workers -> WorkerPCs] /\ wjob \in [Workers -> Exports \cup {NoExport}]
    /\ wread \in [Workers -> Reads] /\ holds \in [Workers -> BOOLEAN]

RowTypes ==
    /\ caller \in [Exports -> {"count", "create", "enqueue", "undo",
                               "accepted", "refused", "crashed"}]
    /\ status \in [Exports -> {"none", "QUEUED", "RUNNING", "COMPLETED", "FAILED", "EXPIRED"}]
    /\ started \in [Exports -> {"never", "recent", "stale"}]
    /\ due \in [Exports -> BOOLEAN]
    /\ object \in [Exports -> {"absent", "partial", "whole"}]
    /\ sweeper \in {"idle", "sweep"} /\ batch \in [Exports -> {"none", "due", "deleted"}]
    /\ faults \subseteq EventKinds \cup {"overlapping_creates", "unreported"}

LEMMA TypeParts == TypeOK <=> JobTypes /\ RowTypes
BY DEF TypeOK, JobTypes, RowTypes, QueueStates, WorkerPCs, Reads

\* How a step changes the queue and the workers, in the shapes of EndAttempt
\* and of a worker that goes on.
SameJobs == UNCHANGED <<queueVars, workerVars>>

Ends(w) ==
    /\ wpc[w] # "idle" /\ wjob[w] \in Exports
    /\ wpc' = [wpc EXCEPT ![w] = "idle"] /\ wjob' = [wjob EXCEPT ![w] = NoExport]
    /\ holds' = [holds EXCEPT ![w] = FALSE] /\ wread' = [wread EXCEPT ![w] = NothingRead]
    /\ stalls' = stalls
    /\ \/ UNCHANGED <<queue, tries>>
       \/ /\ holds[w]
          /\ \/ /\ queue' = [queue EXCEPT ![wjob[w]] = "done"]
                /\ tries' = tries
             \/ /\ tries[wjob[w]] + 1 < Attempts
                /\ queue' = [queue EXCEPT ![wjob[w]] = "waiting"]
                /\ tries' = [tries EXCEPT ![wjob[w]] = @ + 1]
             \/ /\ tries[wjob[w]] + 1 >= Attempts
                /\ queue' = [queue EXCEPT ![wjob[w]] = "failed"]
                /\ tries' = [tries EXCEPT ![wjob[w]] = @ + 1]

Moves(w, to) ==
    /\ wpc[w] # "idle" /\ wjob[w] \in Exports /\ to # "idle"
    /\ wpc' = [wpc EXCEPT ![w] = to]
    /\ UNCHANGED <<queueVars, wjob, holds>>
    /\ wread' = wread \/ wread' = [wread EXCEPT ![w].started = started[wjob[w]]]

LEMMA AttemptEnds ==
    ASSUME Base, NEW w \in Workers, NEW from, from # "idle", NEW threw \in BOOLEAN,
           EndAttempt(w, from, threw)
    PROVE  Ends(w) /\ wpc[w] = from
<1>1. wpc[w] = from /\ wpc' = [wpc EXCEPT ![w] = "idle"]
  BY DEF EndAttempt, Goto
<1>2. wjob[w] \in Exports
  BY <1>1 DEF Base, LockInv
<1>3. tries[wjob[w]] \in Nat /\ Attempts \in Nat
  BY <1>2, ExportAssumption DEF Base, TypeOK
<1>4. /\ wjob' = [wjob EXCEPT ![w] = NoExport] /\ holds' = [holds EXCEPT ![w] = FALSE]
      /\ wread' = [wread EXCEPT ![w] = NothingRead] /\ stalls' = stalls
  BY DEF EndAttempt
<1>5. CASE ~holds[w]
  BY <1>1, <1>2, <1>4, <1>5 DEF EndAttempt, Ends
<1>6. CASE holds[w] /\ ~threw
  <2>1. queue' = [queue EXCEPT ![wjob[w]] = "done"] /\ tries' = tries
    BY <1>6 DEF EndAttempt
  <2> QED BY <1>1, <1>2, <1>4, <1>6, <2>1 DEF Ends
<1>7. CASE holds[w] /\ threw /\ tries[wjob[w]] + 1 >= Attempts
  <2>1. /\ queue' = [queue EXCEPT ![wjob[w]] = "failed"]
        /\ tries' = [tries EXCEPT ![wjob[w]] = @ + 1]
    BY <1>7 DEF EndAttempt
  <2> QED BY <1>1, <1>2, <1>4, <1>7, <2>1 DEF Ends
<1>8. CASE holds[w] /\ threw /\ ~(tries[wjob[w]] + 1 >= Attempts)
  <2>1. /\ queue' = [queue EXCEPT ![wjob[w]] = "waiting"]
        /\ tries' = [tries EXCEPT ![wjob[w]] = @ + 1]
    BY <1>8 DEF EndAttempt
  <2>2. tries[wjob[w]] + 1 < Attempts
    BY <1>3, <1>8
  <2> QED BY <1>1, <1>2, <1>4, <1>8, <2>1, <2>2 DEF Ends
<1> QED BY <1>5, <1>6, <1>7, <1>8

LEMMA EndKeeps ==
    ASSUME Base, NEW w \in Workers, Ends(w), UNCHANGED caller,
           \A e \in Exports : caller[e] \in {"count", "create"} => status'[e] = status[e]
    PROVE  JobTypes' /\ LockInv'
<1> DEFINE e == wjob[w]
<1>1. e \in Exports /\ tries[e] \in 0 .. Attempts /\ Attempts \in Nat
  BY ExportAssumption DEF Base, TypeOK, Ends
<1>2. holds[w] => queue[e] = "active" /\ tries[e] < Attempts
  BY <1>1 DEF Base, LockInv
<1>3. holds[w] => tries[e] + 1 \in 0 .. Attempts
  BY <1>1, <1>2
<1>4. NothingRead \in Reads
  BY <1>1 DEF NothingRead, Reads
<1>5. queue' \in [Exports -> QueueStates] /\ tries' \in [Exports -> 0 .. Attempts]
  <2>1. queue \in [Exports -> QueueStates] /\ tries \in [Exports -> 0 .. Attempts]
    BY DEF Base, TypeOK, QueueStates
  <2>2. \/ UNCHANGED queue
        \/ \E q \in {"done", "waiting", "failed"} : queue' = [queue EXCEPT ![e] = q]
    BY DEF Ends
  <2>3. UNCHANGED tries \/ (holds[w] /\ tries' = [tries EXCEPT ![e] = tries[e] + 1])
    BY DEF Ends
  <2>4. queue' \in [Exports -> QueueStates]
    BY <2>1, <2>2 DEF QueueStates
  <2>5. tries' \in [Exports -> 0 .. Attempts]
    BY <1>3, <2>1, <2>3
  <2> QED BY <2>4, <2>5
<1>6. JobTypes'
  BY <1>4, <1>5 DEF Ends, Base, TypeOK, JobTypes, Reads, WorkerPCs
<1>7. /\ wpc'[w] = "idle" /\ wjob'[w] = NoExport /\ ~holds'[w]
      /\ \A v \in Workers \ {w} :
            wpc'[v] = wpc[v] /\ wjob'[v] = wjob[v] /\ holds'[v] = holds[v] /\ wread'[v] = wread[v]
  BY DEF Ends, Base, TypeOK
<1>8. \A x \in Exports : (queue'[x] = queue[x] /\ tries'[x] = tries[x]) \/ (holds[w] /\ x = e)
  BY DEF Ends, Base, TypeOK
<1>9. holds[w] => \/ queue'[e] = queue[e] /\ tries'[e] = tries[e]
                  \/ queue'[e] \in {"done", "failed"}
                  \/ queue'[e] = "waiting" /\ tries'[e] < Attempts
  BY <1>1 DEF Ends, Base, TypeOK
<1>10. \A v \in Workers \ {w} : holds[v] => ~(holds[w] /\ wjob[v] = e) /\ wjob[v] \in Exports
  BY DEF Base, LockInv
<1>11. \A x \in Exports : queue'[x] \in {"absent", "waiting", "active"} => tries'[x] < Attempts
  BY <1>8, <1>9 DEF Base, LockInv
<1>12. \A x \in Exports : caller'[x] \in {"count", "create", "enqueue"} => queue'[x] = "absent"
  BY <1>2, <1>8 DEF Base, LockInv
<1>13. \A x \in Exports : caller'[x] \in {"count", "create"} => status'[x] = "none"
  BY DEF Base, LockInv
<1>14. \A v \in Workers : holds'[v] =>
          /\ wpc'[v] # "idle" /\ queue'[wjob'[v]] = "active" /\ wread'[v].tries = tries'[wjob'[v]]
  BY <1>7, <1>8, <1>10 DEF Base, LockInv
<1>15. /\ \A v \in Workers : wpc'[v] # "idle" => wjob'[v] \in Exports
       /\ \A v \in Workers : wpc'[v] = "idle" => wjob'[v] = NoExport
       /\ \A v \in Workers : wpc'[v] # "idle" => caller'[wjob'[v]] \notin {"count", "create", "enqueue"}
       /\ \A u, v \in Workers : holds'[u] /\ holds'[v] /\ wjob'[u] = wjob'[v] => u = v
  BY <1>7 DEF Base, LockInv
<1> QED BY <1>6, <1>11, <1>12, <1>13, <1>14, <1>15 DEF LockInv

LEMMA MoveKeeps ==
    ASSUME Base, NEW w \in Workers, NEW to \in WorkerPCs, Moves(w, to), UNCHANGED caller,
           \A e \in Exports : caller[e] \in {"count", "create"} => status'[e] = status[e]
    PROVE  JobTypes' /\ LockInv'
<1>1. wread[w] \in Reads /\ started[wjob[w]] \in {"never", "recent", "stale"}
  BY DEF Moves, Base, TypeOK, Reads
<1>2. [wread[w] EXCEPT !.started = started[wjob[w]]] \in Reads
      /\ [wread[w] EXCEPT !.started = started[wjob[w]]].tries = wread[w].tries
  BY <1>1 DEF Reads
<1>3. wread' \in [Workers -> Reads] /\ \A v \in Workers : wread'[v].tries = wread[v].tries
  <2>1. wread \in [Workers -> Reads]
    BY DEF Base, TypeOK, Reads
  <2>2. wread' = wread \/ wread' = [wread EXCEPT ![w] = [wread[w] EXCEPT !.started = started[wjob[w]]]]
    BY DEF Moves
  <2> QED BY <1>2, <2>1, <2>2
<1>4. JobTypes'
  BY <1>3 DEF Moves, Base, TypeOK, JobTypes, QueueStates, WorkerPCs, queueVars
<1>5. \A v \in Workers : (wpc'[v] = "idle") <=> (wpc[v] = "idle")
  BY DEF Moves, Base, TypeOK
<1>6. UNCHANGED <<queue, tries, wjob, holds>>
  BY DEF Moves, queueVars
<1> QED BY <1>3, <1>4, <1>5, <1>6 DEF Base, LockInv

\* The attempts of runExport, in these shapes.
LEMMA RunExportShape ==
    ASSUME Base, NEW w \in Workers, RunExport(w)
    PROVE  Ends(w) \/ \E to \in WorkerPCs : Moves(w, to)
<1>0. wpc[w] # "idle" => wjob[w] \in Exports
  BY DEF Base, LockInv
<1>1. ASSUME NEW from, NEW to, Goto(w, from, to), KeepJob, from # "idle", to \in WorkerPCs \ {"idle"}
      PROVE  \E t \in WorkerPCs : Moves(w, t)
  BY <1>0, <1>1 DEF Goto, KeepJob, Moves, queueVars
<1>2. ASSUME ReadJob(w) PROVE Ends(w) \/ \E to \in WorkerPCs : Moves(w, to)
  <2>1. CASE \E threw \in BOOLEAN : EndAttempt(w, "read", threw)
    BY <2>1, AttemptEnds
  <2>2. CASE ~(\E threw \in BOOLEAN : EndAttempt(w, "read", threw))
    <3>1. PICK to \in {"running", "noForms"} : Goto(w, "read", to)
      BY <1>2, <2>2 DEF ReadJob, ThrowEarly
    <3>2. wread' = [wread EXCEPT ![w].started = started[wjob[w]]]
          /\ UNCHANGED <<queueVars, wjob, holds>>
      BY <1>2, <2>2 DEF ReadJob, ThrowEarly
    <3> QED BY <1>0, <3>1, <3>2 DEF Moves, Goto, WorkerPCs
  <2> QED BY <2>1, <2>2
<1>3. ASSUME NothingToExport(w) PROVE Ends(w) \/ \E to \in WorkerPCs : Moves(w, to)
  <2>1. CASE EndAttempt(w, "noForms", TRUE)
    BY <2>1, AttemptEnds
  <2>2. CASE ~EndAttempt(w, "noForms", TRUE)
    BY <1>1, <1>3, <2>2 DEF NothingToExport, ThrowEarly, WorkerPCs
  <2> QED BY <2>1, <2>2
<1>4. ASSUME MarkRunning(w) \/ CountRows(w) PROVE Ends(w) \/ \E to \in WorkerPCs : Moves(w, to)
  <2>1. CASE EndAttempt(w, "running", TRUE) \/ EndAttempt(w, "total", TRUE)
    BY <2>1, AttemptEnds
  <2>2. CASE ~(EndAttempt(w, "running", TRUE) \/ EndAttempt(w, "total", TRUE))
    BY <1>1, <1>4, <2>2 DEF MarkRunning, CountRows, ThrowEarly, WorkerPCs
  <2> QED BY <2>1, <2>2
<1>5. ASSUME UploadExport(w) \/ CompleteExport(w) \/ CompleteFails(w) \/ DeletePartialObject(w) \/ GiveUp(w)
      PROVE  \E to \in WorkerPCs : Moves(w, to)
  BY <1>1, <1>5 DEF UploadExport, CompleteExport, CompleteFails, DeletePartialObject, GiveUp, WorkerPCs
<1>6. ASSUME NotifyRequester(w) \/ ReportAttempt(w) PROVE Ends(w)
  BY <1>6, AttemptEnds DEF NotifyRequester, ReportAttempt
<1> QED BY <1>2, <1>3, <1>4, <1>5, <1>6 DEF RunExport
-----------------------------------------------------------------------------
(* Base is an invariant.                                                   *)

LEMMA BaseInit == Init => Base
<1> SUFFICES ASSUME Init PROVE Base
  OBVIOUS
<1>1. NothingRead \in Reads /\ 0 < Attempts
  BY ExportAssumption DEF NothingRead, Reads
<1>2. TypeOK
  BY <1>1, ExportAssumption DEF Init, TypeOK, Reads
<1>3. LockInv
  BY <1>1 DEF Init, LockInv
<1> QED BY <1>2, <1>3 DEF Base

LEMMA OccursTypes ==
    ASSUME Base, NEW kind, Occurs(kind)
    PROVE  faults' \subseteq EventKinds \cup {"overlapping_creates", "unreported"}
BY ExportAssumption DEF Occurs, Base, TypeOK

\* The rows, the bucket, the sweeper and the callers keep their shapes.
LEMMA RowsTyped ==
    ASSUME Base, [Next]_vars PROVE RowTypes'
<1>0. RowTypes
  BY TypeParts DEF Base
<1>1. ASSUME NEW e \in Exports, CreateExport(e) PROVE RowTypes'
  <2>1. UNCHANGED <<started, due, object, sweeper, batch>>
    BY <1>1 DEF CreateExport, CountInFlight, CreateRow, EnqueueJob, EnqueueFails, UndoCreate,
                rowVars, sweepVars
  <2>2. \E to \in {"refused", "create", "enqueue", "accepted", "undo"} : caller' = [caller EXCEPT ![e] = to]
    BY <1>1 DEF CreateExport, CountInFlight, CreateRow, EnqueueJob, EnqueueFails, UndoCreate, Call
  <2>3. status' = status \/ \E s \in {"QUEUED", "FAILED"} : status' = [status EXCEPT ![e] = s]
    BY <1>1 DEF CreateExport, CountInFlight, CreateRow, EnqueueJob, EnqueueFails, UndoCreate, SetStatus,
                rowVars
  <2>4. \/ faults' = faults \/ faults' = faults \cup {k \in {"overlapping_creates"} : Creating # {}}
        \/ \E kind : Occurs(kind)
    BY <1>1 DEF CreateExport, CountInFlight, CreateRow, EnqueueJob, EnqueueFails, UndoCreate
  <2>5. faults' \subseteq EventKinds \cup {"overlapping_creates", "unreported"}
    BY <1>0, <2>4, OccursTypes DEF RowTypes
  <2> QED BY <1>0, <2>1, <2>2, <2>3, <2>5 DEF RowTypes
<1>2. ASSUME NEW e \in Exports,
             CallerCrashes(e) \/ Redeliver(e) \/ RetentionPasses(e) \/ GrowStale(e) \/ \E w \in Workers : TakeJob(w, e)
      PROVE  RowTypes'
  <2>1. UNCHANGED <<status, object, sweeper, batch>>
    BY <1>2 DEF CallerCrashes, Redeliver, RetentionPasses, GrowStale, TakeJob, rowVars, sweepVars
  <2>2. caller' = caller \/ caller' = [caller EXCEPT ![e] = "crashed"]
    BY <1>2 DEF CallerCrashes, Redeliver, RetentionPasses, GrowStale, TakeJob
  <2>3. started' = started \/ started' = [started EXCEPT ![e] = "stale"]
    BY <1>2 DEF CallerCrashes, Redeliver, RetentionPasses, GrowStale, TakeJob, rowVars
  <2>4. due' = due \/ due' = [due EXCEPT ![e] = TRUE]
    BY <1>2 DEF CallerCrashes, Redeliver, RetentionPasses, GrowStale, TakeJob, rowVars
  <2>5. faults' = faults \/ \E kind : Occurs(kind)
    BY <1>2 DEF CallerCrashes, Redeliver, RetentionPasses, GrowStale, TakeJob
  <2>6. faults' \subseteq EventKinds \cup {"overlapping_creates", "unreported"}
    BY <1>0, <2>5, OccursTypes DEF RowTypes
  <2> QED BY <1>0, <2>1, <2>2, <2>3, <2>4, <2>6 DEF RowTypes
<1>3. ASSUME NEW w \in Workers, RunExport(w) PROVE RowTypes'
  <2>1. UNCHANGED <<caller, sweeper, batch>>
    BY <1>3 DEF RunExport, ReadJob, NothingToExport, MarkRunning, CountRows, UploadExport, CompleteExport,
                CompleteFails, NotifyRequester, DeletePartialObject, GiveUp, ReportAttempt, sweepVars
  <2>1a. PICK e : e = wjob[w]
    OBVIOUS
  <2>2a. status' = status
         \/ \E s \in {"RUNNING", "COMPLETED"} : status' = [status EXCEPT ![e] = s]
         \/ status' = [status EXCEPT ![e] = IF status[e] \in {"QUEUED", "RUNNING"} THEN "FAILED" ELSE status[e]]
    BY <1>3, <2>1a DEF RunExport, ReadJob, NothingToExport, MarkRunning, CountRows, UploadExport,
                CompleteExport, CompleteFails, NotifyRequester, DeletePartialObject, GiveUp, ReportAttempt, rowVars,
                SetStatus, MarkFailed, ThrowEarly
  <2>2. status' \in [Exports -> {"none", "QUEUED", "RUNNING", "COMPLETED", "FAILED", "EXPIRED"}]
    <3>1. CASE status' = status
      BY <1>0, <3>1 DEF RowTypes
    <3>2. CASE \E s \in {"RUNNING", "COMPLETED"} : status' = [status EXCEPT ![e] = s]
      BY <1>0, <3>2 DEF RowTypes
    <3>3. ASSUME status' = [status EXCEPT ![e] = IF status[e] \in {"QUEUED", "RUNNING"} THEN "FAILED" ELSE status[e]]
          PROVE  status' \in [Exports -> {"none", "QUEUED", "RUNNING", "COMPLETED", "FAILED", "EXPIRED"}]
      BY <1>0, <3>3 DEF RowTypes
    <3> QED BY <2>2a, <3>1, <3>2, <3>3
  <2>3. started' = started
        \/ started' = [started EXCEPT ![wjob[w]] =
                          IF wread[w].started = "never" THEN "recent" ELSE wread[w].started]
    BY <1>3 DEF RunExport, ReadJob, NothingToExport, MarkRunning, CountRows, UploadExport, CompleteExport,
                CompleteFails, NotifyRequester, DeletePartialObject, GiveUp, ReportAttempt, rowVars
  <2>4. wread[w] \in Reads
    BY DEF Base, TypeOK, Reads
  <2>5. started' \in [Exports -> {"never", "recent", "stale"}]
    BY <1>0, <2>3, <2>4 DEF RowTypes, Reads
  <2>6. due' = due \/ due' = [due EXCEPT ![wjob[w]] = FALSE]
    BY <1>3 DEF RunExport, ReadJob, NothingToExport, MarkRunning, CountRows, UploadExport, CompleteExport,
                CompleteFails, NotifyRequester, DeletePartialObject, GiveUp, ReportAttempt, rowVars
  <2>7. object' = object \/ \E o \in {"whole", "partial", "absent"} : object' = [object EXCEPT ![wjob[w]] = o]
    BY <1>3 DEF RunExport, ReadJob, NothingToExport, MarkRunning, CountRows, UploadExport, CompleteExport,
                CompleteFails, NotifyRequester, DeletePartialObject, GiveUp, ReportAttempt
  <2>8. faults' = faults \/ \E kind : Occurs(kind)
    BY <1>3 DEF RunExport, ReadJob, NothingToExport, MarkRunning, CountRows, UploadExport, CompleteExport,
                CompleteFails, NotifyRequester, DeletePartialObject, GiveUp, ReportAttempt, ThrowEarly
  <2>9. faults' \subseteq EventKinds \cup {"overlapping_creates", "unreported"}
    BY <1>0, <2>8, OccursTypes DEF RowTypes
  <2>10. due' \in [Exports -> BOOLEAN]
    BY <1>0, <2>6 DEF RowTypes
  <2>11. object' \in [Exports -> {"absent", "partial", "whole"}]
    BY <1>0, <2>7 DEF RowTypes
  <2> QED BY <1>0, <2>1, <2>2, <2>5, <2>9, <2>10, <2>11 DEF RowTypes
<1>4. ASSUME NEW w \in Workers, WorkerCrashes(w) \/ LoseLock(w) PROVE RowTypes'
  <2>1. UNCHANGED <<caller, rowVars, object, sweepVars>>
    BY <1>4 DEF WorkerCrashes, LoseLock
  <2>2. faults' \subseteq EventKinds \cup {"overlapping_creates", "unreported"}
    <3>1. CASE WorkerCrashes(w)
      BY <1>0, <3>1, ExportAssumption DEF WorkerCrashes, RowTypes
    <3>2. CASE LoseLock(w)
      BY <3>2, OccursTypes DEF LoseLock
    <3> QED BY <1>4, <3>1, <3>2
  <2> QED BY <1>0, <2>1, <2>2 DEF RowTypes, rowVars, sweepVars
<1>5. ASSUME Sweep PROVE RowTypes'
  <2>1. UNCHANGED <<caller, started, due>>
    BY <1>5 DEF Sweep, FindDue, FailStaleRunning, SweepThrows, SweepObject, SweepObjectFails, SweepRow, rowVars
  <2>2. sweeper' \in {"idle", "sweep"} /\ batch' \in [Exports -> {"none", "due", "deleted"}]
    BY <1>0, <1>5 DEF Sweep, FindDue, FailStaleRunning, SweepThrows, SweepObject, SweepObjectFails, SweepRow,
                      RowTypes
  <2>3. status' \in [Exports -> {"none", "QUEUED", "RUNNING", "COMPLETED", "FAILED", "EXPIRED"}]
    BY <1>0, <1>5 DEF Sweep, FindDue, FailStaleRunning, SweepThrows, SweepObject, SweepObjectFails, SweepRow,
                      RowTypes, rowVars
  <2>4. object' = object \/ \E e \in Exports : object' = [object EXCEPT ![e] = "absent"]
    BY <1>5 DEF Sweep, FindDue, FailStaleRunning, SweepThrows, SweepObject, SweepObjectFails, SweepRow
  <2>5. faults' = faults \/ \E kind : Occurs(kind)
    BY <1>5 DEF Sweep, FindDue, FailStaleRunning, SweepThrows, SweepObject, SweepObjectFails, SweepRow
  <2>6. faults' \subseteq EventKinds \cup {"overlapping_creates", "unreported"}
    BY <1>0, <2>5, OccursTypes DEF RowTypes
  <2> QED BY <1>0, <2>1, <2>2, <2>3, <2>4, <2>6 DEF RowTypes
<1>6. UNCHANGED vars => RowTypes'
  BY <1>0 DEF vars, rowVars, sweepVars, RowTypes
<1> QED BY <1>1, <1>2, <1>3, <1>4, <1>5, <1>6 DEF Next
\* A step of a caller, of the sweeper or of time touches no job.
LEMMA QuietKeeps ==
    ASSUME Base, SameJobs,
           \A e \in Exports : caller'[e] \in {"count", "create", "enqueue"}
                              => caller[e] \in {"count", "create", "enqueue"},
           \A e \in Exports : caller'[e] \in {"count", "create"}
                              => caller[e] \in {"count", "create"} /\ status'[e] = status[e]
    PROVE  JobTypes' /\ LockInv'
<1>1. JobTypes'
  BY TypeParts DEF Base, JobTypes, SameJobs, queueVars, workerVars
<1>2. UNCHANGED <<queue, tries, stalls, wpc, wjob, wread, holds>>
  BY DEF SameJobs, queueVars, workerVars
<1>3. LockInv
  BY DEF Base
<1>4. \A w \in Workers : wpc'[w] # "idle" => caller'[wjob'[w]] \notin {"count", "create", "enqueue"}
  BY <1>2, <1>3 DEF LockInv
<1> QED BY <1>1, <1>2, <1>3, <1>4 DEF LockInv

LEMMA EnqueueKeeps ==
    ASSUME Base, NEW e \in Exports, EnqueueJob(e) PROVE JobTypes' /\ LockInv'
<1>1. /\ queue' = [queue EXCEPT ![e] = "waiting"] /\ caller[e] = "enqueue"
      /\ UNCHANGED <<status, tries, stalls, wpc, wjob, wread, holds>>
      /\ \E to \in {"accepted", "undo"} : caller' = [caller EXCEPT ![e] = to]
  BY DEF EnqueueJob, Call, rowVars, workerVars
<1>2. JobTypes'
  BY <1>1, TypeParts DEF Base, JobTypes, QueueStates
<1>3. /\ caller'[e] \notin {"count", "create", "enqueue"} /\ queue'[e] = "waiting"
      /\ \A x \in Exports \ {e} : caller'[x] = caller[x] /\ queue'[x] = queue[x]
  BY <1>1 DEF Base, TypeOK
<1>4. \A w \in Workers : holds[w] => wjob[w] # e
  BY <1>1 DEF Base, LockInv
<1>5. tries[e] < Attempts
  BY <1>1 DEF Base, LockInv
<1> QED BY <1>1, <1>2, <1>3, <1>4, <1>5 DEF Base, LockInv

LEMMA RedeliverKeeps ==
    ASSUME Base, NEW e \in Exports, Redeliver(e) PROVE JobTypes' /\ LockInv'
<1>1. /\ UNCHANGED <<caller, status, tries, wpc, wjob, wread, holds>>
      /\ queue[e] = "active" /\ \A w \in Workers : ~(wjob[w] = e /\ holds[w])
      /\ \E q \in {"waiting", "failed"} : queue' = [queue EXCEPT ![e] = q]
  BY DEF Redeliver, rowVars, workerVars
<1>2. stalls' \in [Exports -> 0 .. MaxStalls]
  <2>1. stalls[e] \in 0 .. MaxStalls /\ MaxStalls \in Nat
    BY ExportAssumption DEF Base, TypeOK
  <2>2. CASE stalls[e] < MaxStalls
    <3>1. stalls' = [stalls EXCEPT ![e] = stalls[e] + 1] /\ stalls[e] + 1 \in 0 .. MaxStalls
      BY <2>1, <2>2 DEF Redeliver
    <3> QED BY <3>1 DEF Base, TypeOK
  <2>3. CASE ~(stalls[e] < MaxStalls)
    BY <2>3 DEF Redeliver, Base, TypeOK
  <2> QED BY <2>2, <2>3
<1>3. JobTypes'
  BY <1>1, <1>2, TypeParts DEF Base, JobTypes, QueueStates
<1>4. /\ queue'[e] \in {"waiting", "failed"}
      /\ \A x \in Exports \ {e} : queue'[x] = queue[x]
  BY <1>1 DEF Base, TypeOK
<1>5. tries[e] < Attempts /\ caller[e] \notin {"count", "create", "enqueue"}
  BY <1>1 DEF Base, LockInv
<1> QED BY <1>1, <1>3, <1>4, <1>5 DEF Base, LockInv

LEMMA TakeKeeps ==
    ASSUME Base, NEW e \in Exports, NEW w \in Workers, TakeJob(w, e) PROVE JobTypes' /\ LockInv'
<1>1. /\ UNCHANGED <<caller, status, tries, stalls>>
      /\ wpc[w] = "idle" /\ queue[e] = "waiting"
      /\ queue' = [queue EXCEPT ![e] = "active"] /\ wpc' = [wpc EXCEPT ![w] = "read"]
      /\ wjob' = [wjob EXCEPT ![w] = e] /\ holds' = [holds EXCEPT ![w] = TRUE]
      /\ wread' = [wread EXCEPT ![w].tries = tries[e]]
  BY DEF TakeJob, rowVars
<1>2. [wread[w] EXCEPT !.tries = tries[e]] \in Reads
      /\ [wread[w] EXCEPT !.tries = tries[e]].tries = tries[e]
  BY DEF Base, TypeOK, Reads
<1>3. wread' = [wread EXCEPT ![w] = [wread[w] EXCEPT !.tries = tries[e]]]
  BY <1>1
<1>4. wread \in [Workers -> Reads]
  BY DEF Base, TypeOK, Reads
<1>5. wread' \in [Workers -> Reads] /\ wread'[w].tries = tries[e]
      /\ \A v \in Workers \ {w} : wread'[v] = wread[v]
  BY <1>2, <1>3, <1>4
<1>6. JobTypes'
  BY <1>1, <1>5, TypeParts DEF Base, JobTypes, QueueStates, WorkerPCs
<1>7. /\ wpc'[w] = "read" /\ wjob'[w] = e /\ holds'[w]
      /\ \A v \in Workers \ {w} : wpc'[v] = wpc[v] /\ wjob'[v] = wjob[v] /\ holds'[v] = holds[v]
      /\ queue'[e] = "active" /\ \A x \in Exports \ {e} : queue'[x] = queue[x]
  BY <1>1 DEF Base, TypeOK
<1>8. \A v \in Workers : holds[v] => wjob[v] # e /\ v # w
  BY <1>1 DEF Base, LockInv
<1>9. tries[e] < Attempts /\ caller[e] \notin {"count", "create", "enqueue"}
  BY <1>1 DEF Base, LockInv
<1>10. \A v \in Workers : holds'[v] =>
          wpc'[v] # "idle" /\ queue'[wjob'[v]] = "active" /\ wread'[v].tries = tries'[wjob'[v]]
  BY <1>1, <1>5, <1>7, <1>8 DEF Base, LockInv
<1>11. \A u, v \in Workers : holds'[u] /\ holds'[v] /\ wjob'[u] = wjob'[v] => u = v
  BY <1>7, <1>8 DEF Base, LockInv
<1>12. /\ \A v \in Workers : wpc'[v] # "idle" => wjob'[v] \in Exports
       /\ \A v \in Workers : wpc'[v] = "idle" => wjob'[v] = NoExport
       /\ \A v \in Workers : wpc'[v] # "idle" => caller'[wjob'[v]] \notin {"count", "create", "enqueue"}
  BY <1>1, <1>7, <1>9 DEF Base, LockInv
<1>13. /\ \A x \in Exports : queue'[x] \in {"absent", "waiting", "active"} => tries'[x] < Attempts
       /\ \A x \in Exports : caller'[x] \in {"count", "create", "enqueue"} => queue'[x] = "absent"
       /\ \A x \in Exports : caller'[x] \in {"count", "create"} => status'[x] = "none"
  BY <1>1, <1>7, <1>9 DEF Base, LockInv
<1> QED BY <1>6, <1>10, <1>11, <1>12, <1>13 DEF LockInv

LEMMA LoseLockKeeps ==
    ASSUME Base, NEW w \in Workers, LoseLock(w) PROVE JobTypes' /\ LockInv'
<1>1. /\ UNCHANGED <<caller, status, queue, tries, stalls, wpc, wjob, wread>>
      /\ holds' = [holds EXCEPT ![w] = FALSE]
  BY DEF LoseLock, rowVars, queueVars
<1>2. JobTypes'
  BY <1>1, TypeParts DEF Base, JobTypes
<1>3. \A v \in Workers : holds'[v] => holds[v]
  BY <1>1 DEF Base, TypeOK
<1> QED BY <1>1, <1>2, <1>3 DEF Base, LockInv

\* What an attempt writes: the row of its own export only.
LEMMA RunWrites ==
    ASSUME Base, NEW w \in Workers, RunExport(w)
    PROVE  /\ UNCHANGED caller
           /\ wjob[w] \in Exports
           /\ \A x \in Exports \ {wjob[w]} :
                 /\ status'[x] = status[x] /\ started'[x] = started[x]
                 /\ due'[x] = due[x] /\ object'[x] = object[x]
<1>1. UNCHANGED caller /\ wpc[w] # "idle"
  BY DEF RunExport, ReadJob, NothingToExport, MarkRunning, CountRows, UploadExport, CompleteExport,
         CompleteFails, NotifyRequester, DeletePartialObject, GiveUp, ReportAttempt, ThrowEarly, EndAttempt, Goto
<1>2. wjob[w] \in Exports
  BY <1>1 DEF Base, LockInv
<1>3. PICK e \in Exports : e = wjob[w]
  BY <1>2
<1>4. \/ status' = status \/ \E s : status' = [status EXCEPT ![e] = s]
  BY <1>3 DEF RunExport, ReadJob, NothingToExport, MarkRunning, CountRows, UploadExport, CompleteExport,
         CompleteFails, NotifyRequester, DeletePartialObject, GiveUp, ReportAttempt, ThrowEarly, SetStatus, MarkFailed,
         rowVars
<1>5. \/ started' = started \/ \E s : started' = [started EXCEPT ![e] = s]
  BY <1>3 DEF RunExport, ReadJob, NothingToExport, MarkRunning, CountRows, UploadExport, CompleteExport,
         CompleteFails, NotifyRequester, DeletePartialObject, GiveUp, ReportAttempt, rowVars
<1>6. \/ due' = due \/ due' = [due EXCEPT ![e] = FALSE]
  BY <1>3 DEF RunExport, ReadJob, NothingToExport, MarkRunning, CountRows, UploadExport, CompleteExport,
         CompleteFails, NotifyRequester, DeletePartialObject, GiveUp, ReportAttempt, rowVars
<1>7. \/ object' = object \/ \E o : object' = [object EXCEPT ![e] = o]
  BY <1>3 DEF RunExport, ReadJob, NothingToExport, MarkRunning, CountRows, UploadExport, CompleteExport,
         CompleteFails, NotifyRequester, DeletePartialObject, GiveUp, ReportAttempt
<1>8. \A x \in Exports \ {e} : status'[x] = status[x] /\ started'[x] = started[x]
  BY <1>4, <1>5 DEF Base, TypeOK
<1>9. \A x \in Exports \ {e} : due'[x] = due[x] /\ object'[x] = object[x]
  BY <1>6, <1>7 DEF Base, TypeOK
<1> QED BY <1>1, <1>2, <1>3, <1>8, <1>9

LEMMA BaseStep == ASSUME Base, [Next]_vars PROVE Base'
<1>1. ASSUME NEW e \in Exports, CreateExport(e) PROVE JobTypes' /\ LockInv'
  <2>1. CASE EnqueueJob(e)
    BY <2>1, EnqueueKeeps
  <2>2. CASE ~EnqueueJob(e)
    <3>1. SameJobs
      BY <1>1, <2>2 DEF CreateExport, CountInFlight, CreateRow, EnqueueFails, UndoCreate, SameJobs
    <3>2. \/ /\ caller[e] = "count" /\ status' = status
             /\ \E to \in {"refused", "create"} : caller' = [caller EXCEPT ![e] = to]
          \/ /\ caller[e] = "create" /\ caller' = [caller EXCEPT ![e] = "enqueue"]
             /\ status' = [status EXCEPT ![e] = "QUEUED"]
          \/ /\ \E to \in {"undo", "refused"} : caller' = [caller EXCEPT ![e] = to]
             /\ status' = status \/ status' = [status EXCEPT ![e] = "FAILED"]
      BY <1>1, <2>2 DEF CreateExport, CountInFlight, CreateRow, EnqueueFails, UndoCreate, Call,
                        SetStatus, rowVars
    <3>3. /\ \A x \in Exports : caller'[x] \in {"count", "create", "enqueue"}
                                => caller[x] \in {"count", "create", "enqueue"}
          /\ \A x \in Exports : caller'[x] \in {"count", "create"}
                                => caller[x] \in {"count", "create"} /\ status'[x] = status[x]
      BY <3>2 DEF Base, TypeOK
    <3> QED BY <3>1, <3>3, QuietKeeps
  <2> QED BY <2>1, <2>2
<1>2. ASSUME NEW e \in Exports, CallerCrashes(e) \/ RetentionPasses(e) \/ GrowStale(e)
      PROVE  JobTypes' /\ LockInv'
  <2>1. SameJobs /\ status' = status /\ (caller' = caller \/ caller' = [caller EXCEPT ![e] = "crashed"])
    BY <1>2 DEF CallerCrashes, RetentionPasses, GrowStale, SameJobs, rowVars
  <2>2. \A x \in Exports : caller'[x] = caller[x] \/ caller'[x] = "crashed"
    BY <2>1 DEF Base, TypeOK
  <2> QED BY <2>1, <2>2, QuietKeeps
<1>3. ASSUME Sweep PROVE JobTypes' /\ LockInv'
  <2>1. SameJobs /\ caller' = caller
    BY <1>3 DEF Sweep, FindDue, FailStaleRunning, SweepThrows, SweepObject, SweepObjectFails, SweepRow, SameJobs
  <2>2. \A x \in Exports : status[x] = "none" => status'[x] = "none"
    BY <1>3 DEF Sweep, FindDue, FailStaleRunning, SweepThrows, SweepObject, SweepObjectFails, SweepRow, rowVars,
                Base, TypeOK
  <2>3. \A x \in Exports : caller[x] \in {"count", "create"} => status'[x] = status[x]
    BY <2>2 DEF Base, LockInv
  <2> QED BY <2>1, <2>3, QuietKeeps
<1>4. ASSUME NEW w \in Workers, RunExport(w) PROVE JobTypes' /\ LockInv'
  <2>1. UNCHANGED caller /\ wpc[w] # "idle"
    BY <1>4 DEF RunExport, ReadJob, NothingToExport, MarkRunning, CountRows, UploadExport, CompleteExport,
         CompleteFails, NotifyRequester, DeletePartialObject, GiveUp, ReportAttempt, ThrowEarly, EndAttempt, Goto
  <2>2. \A x \in Exports : caller[x] \in {"count", "create"} => status'[x] = status[x]
    BY <1>4, <2>1, RunWrites DEF Base, LockInv
  <2> QED BY <1>4, <2>1, <2>2, RunExportShape, EndKeeps, MoveKeeps
<1>5. ASSUME NEW w \in Workers, WorkerCrashes(w) PROVE JobTypes' /\ LockInv'
  <2>1. Ends(w) /\ UNCHANGED <<caller, status>>
    BY <1>5 DEF WorkerCrashes, Ends, Base, LockInv, queueVars, rowVars
  <2> QED BY <2>1, EndKeeps
<1>6. ASSUME UNCHANGED vars PROVE JobTypes' /\ LockInv'
  BY <1>6, QuietKeeps DEF vars, rowVars, SameJobs
<1>7. JobTypes' /\ LockInv'
  BY <1>1, <1>2, <1>3, <1>4, <1>5, <1>6, RedeliverKeeps, TakeKeeps, LoseLockKeeps DEF Next
<1> QED BY <1>7, RowsTyped, TypeParts DEF Base, TypeOK, JobTypes, RowTypes, QueueStates, WorkerPCs, Reads

\* The types and the bookkeeping of jobs and locks hold in every run.
THEOREM BaseAlways == Spec => []Base
<1> QED BY BaseInit, BaseStep, PTL DEF Spec

\* Every variable keeps its type; a job's attempts and stalls stay within the
\* queue's limits.
THEOREM TypeCorrect == Spec => []TypeOK
<1>1. Base => TypeOK
  BY DEF Base
<1> QED BY <1>1, BaseAlways, PTL
-----------------------------------------------------------------------------
(* While no lock and no reply is lost, a job has one worker at most, and    *)
(* the row, the object and the sweep agree.                                *)

Busy == {"noForms", "running", "total", "upload", "complete", "cleanup", "giveUp"}

\* A row its caller still has to enqueue is QUEUED and without a job; a row past
\* its retention has no job left; the sweeper works on such rows only; and a
\* finished row within its retention has its object.
RowInv(e) ==
    /\ caller[e] \in {"enqueue", "undo"} => status[e] = "QUEUED" /\ queue[e] = "absent"
    /\ due[e] => status[e] \in {"COMPLETED", "EXPIRED"} /\ queue[e] \notin {"waiting", "active"}
    /\ batch[e] # "none" => due[e]
    /\ status[e] = "COMPLETED" /\ ~due[e] => object[e] = "whole"

\* A worker holds its lock; until it completes the row, the row is not COMPLETED,
\* and it completes the row only after the upload.
AttemptInv(w) ==
    wpc[w] # "idle" =>
       /\ holds[w]
       /\ wpc[w] \in Busy => status[wjob[w]] # "COMPLETED"
       /\ wpc[w] = "complete" => object[wjob[w]] = "whole"

Agreement == (\A e \in Exports : RowInv(e)) /\ (\A w \in Workers : AttemptInv(w))

OneWorker == Never({"lock_lost", "lost_reply"})

SameRow(e) == UNCHANGED <<caller[e], status[e], queue[e], due[e], batch[e], object[e]>>
SameWorker(w) == UNCHANGED <<wpc[w], wjob[w], holds[w], wread[w]>>

LEMMA FaultsGrow == ASSUME [Next]_vars PROVE faults \subseteq faults'
<1>1. ASSUME NEW e \in Exports, CreateExport(e) PROVE faults \subseteq faults'
  BY <1>1 DEF CreateExport, CountInFlight, CreateRow, EnqueueJob, EnqueueFails, UndoCreate, Occurs
<1>2. ASSUME NEW e \in Exports,
             CallerCrashes(e) \/ Redeliver(e) \/ RetentionPasses(e) \/ GrowStale(e) \/ \E w \in Workers : TakeJob(w, e)
      PROVE  faults \subseteq faults'
  BY <1>2 DEF CallerCrashes, Redeliver, RetentionPasses, GrowStale, TakeJob, Occurs
<1>3. ASSUME NEW w \in Workers, RunExport(w) \/ WorkerCrashes(w) \/ LoseLock(w)
      PROVE  faults \subseteq faults'
  BY <1>3 DEF RunExport, ReadJob, NothingToExport, MarkRunning, CountRows, UploadExport, CompleteExport,
              CompleteFails, NotifyRequester, DeletePartialObject, GiveUp, ReportAttempt, ThrowEarly, WorkerCrashes,
              LoseLock, Occurs
<1>4. ASSUME Sweep PROVE faults \subseteq faults'
  BY <1>4 DEF Sweep, FindDue, FailStaleRunning, SweepThrows, SweepObject, SweepObjectFails, SweepRow, Occurs
<1> QED BY <1>1, <1>2, <1>3, <1>4 DEF Next, vars

LEMMA RowKept ==
    ASSUME NEW e, RowInv(e), SameRow(e) PROVE RowInv(e)'
BY DEF RowInv, SameRow

\* An attempt's step leaves the other workers and the other jobs alone.
LEMMA RunOthers ==
    ASSUME Base, NEW w \in Workers, RunExport(w) \/ WorkerCrashes(w)
    PROVE  /\ \A v \in Workers \ {w} : SameWorker(v)
           /\ \A x \in Exports \ {wjob[w]} : queue'[x] = queue[x]
           /\ wpc[w] # "idle" /\ UNCHANGED <<caller, batch>>
           /\ wpc'[w] = "idle" \/ (wjob'[w] = wjob[w] /\ holds'[w] = holds[w])
<1>1. Ends(w) \/ \E to \in WorkerPCs : Moves(w, to)
  <2>1. CASE RunExport(w)
    BY <2>1, RunExportShape
  <2>2. CASE WorkerCrashes(w)
    BY <2>2 DEF WorkerCrashes, Ends, Base, LockInv, queueVars
  <2> QED BY <2>1, <2>2
<1>2. UNCHANGED <<caller, batch>>
  BY DEF RunExport, ReadJob, NothingToExport, MarkRunning, CountRows, UploadExport, CompleteExport,
         CompleteFails, NotifyRequester, DeletePartialObject, GiveUp, ReportAttempt, WorkerCrashes, sweepVars
<1>3. CASE Ends(w)
  <2>1. \A x \in Exports \ {wjob[w]} : queue'[x] = queue[x]
    BY <1>3 DEF Ends, Base, TypeOK
  <2>2. \A v \in Workers \ {w} : SameWorker(v)
    BY <1>3 DEF Ends, Base, TypeOK, SameWorker
  <2> QED BY <1>2, <1>3, <2>1, <2>2 DEF Ends, Base, TypeOK
<1>4. ASSUME NEW to \in WorkerPCs, Moves(w, to)
      PROVE  /\ \A v \in Workers \ {w} : SameWorker(v)
             /\ \A x \in Exports \ {wjob[w]} : queue'[x] = queue[x]
             /\ wpc[w] # "idle"
             /\ wjob'[w] = wjob[w] /\ holds'[w] = holds[w]
  <2>1. UNCHANGED <<queue, wjob, holds>> /\ wpc[w] # "idle"
    BY <1>4 DEF Moves, queueVars
  <2>2. \A v \in Workers \ {w} : wpc'[v] = wpc[v] /\ wread'[v] = wread[v]
    BY <1>4 DEF Moves, Base, TypeOK
  <2> QED BY <2>1, <2>2 DEF SameWorker
<1> QED BY <1>1, <1>2, <1>3, <1>4

\* What an attempt's step does to its own row and object.
LEMMA RunOutcome ==
    ASSUME Base, Agreement, NEW w \in Workers, RunExport(w), OneWorker', NEW e \in Exports, e = wjob[w]
    PROVE  /\ due'[e] => due[e]
           /\ status'[e] = "COMPLETED" /\ ~due[e] => object'[e] = "whole"
           /\ wpc'[w] \in Busy => status'[e] # "COMPLETED"
           /\ wpc'[w] = "complete" => object'[e] = "whole"
<1>0. /\ wpc \in [Workers -> WorkerPCs] /\ status \in [Exports -> {"none", "QUEUED", "RUNNING",
                                                           "COMPLETED", "FAILED", "EXPIRED"}]
      /\ due \in [Exports -> BOOLEAN] /\ object \in [Exports -> {"absent", "partial", "whole"}]
  BY DEF Base, TypeOK, WorkerPCs
<1>1. wpc[w] \in Busy => status[e] # "COMPLETED"
  BY DEF Agreement, AttemptInv, Busy
<1>2. wpc[w] = "complete" => object[e] = "whole"
  BY DEF Agreement, AttemptInv
<1>3. status[e] = "COMPLETED" /\ ~due[e] => object[e] = "whole"
  BY DEF Agreement, RowInv
<1>4. {"idle", "notify", "read", "dropped", "thrown"} \cap Busy = {}
  BY DEF Busy
<1>5. "lost_reply" \notin faults'
  BY DEF OneWorker, Never
<1>6. CASE ReadJob(w)
  <2>1. UNCHANGED <<status, due, object>>
    BY <1>6 DEF ReadJob, ThrowEarly, rowVars
  <2>2. \/ wpc'[w] = "idle"
        \/ wpc'[w] \in {"running", "noForms"} /\ status[e] # "COMPLETED"
    BY <1>0, <1>6 DEF ReadJob, ThrowEarly, EndAttempt, Goto
  <2> QED BY <1>3, <1>4, <2>1, <2>2
<1>7. CASE NothingToExport(w)
  <2>1. UNCHANGED <<due, object>> /\ wpc'[w] \in {"idle", "dropped", "thrown"} /\ wpc[w] \in Busy
    BY <1>0, <1>7 DEF NothingToExport, ThrowEarly, EndAttempt, Goto, Busy
  <2>2. status' = status \/ MarkFailed(e)
    BY <1>7 DEF NothingToExport, ThrowEarly
  <2>3. status'[e] # "COMPLETED"
    BY <1>0, <1>1, <2>1, <2>2 DEF MarkFailed
  <2> QED BY <1>4, <2>1, <2>3
<1>8. CASE MarkRunning(w)
  <2>1. UNCHANGED <<due, object>> /\ wpc'[w] \in {"idle", "total"} /\ wpc[w] \in Busy
    BY <1>0, <1>8 DEF MarkRunning, ThrowEarly, EndAttempt, Goto, Busy
  <2>2. status' = status \/ status' = [status EXCEPT ![e] = "RUNNING"]
    BY <1>8 DEF MarkRunning, ThrowEarly, SetStatus
  <2>3. status'[e] # "COMPLETED"
    BY <1>0, <1>1, <2>1, <2>2
  <2> QED BY <2>1, <2>3
<1>9. CASE CountRows(w)
  <2>1. UNCHANGED <<status, due, object>> /\ wpc'[w] \in {"idle", "upload"} /\ wpc[w] \in Busy
    BY <1>0, <1>9 DEF CountRows, ThrowEarly, EndAttempt, Goto, Busy
  <2> QED BY <1>1, <2>1
<1>10. CASE UploadExport(w)
  <2>1. UNCHANGED <<status, due>> /\ wpc[w] \in Busy
    BY <1>0, <1>10 DEF UploadExport, Goto, Busy, rowVars
  <2>2. \/ wpc'[w] = "complete" /\ object' = [object EXCEPT ![e] = "whole"]
        \/ wpc'[w] = "cleanup"
    BY <1>0, <1>10 DEF UploadExport, Goto
  <2> QED BY <1>0, <1>1, <2>1, <2>2
<1>11. CASE CompleteExport(w)
  <2>1. UNCHANGED object /\ due' = [due EXCEPT ![e] = FALSE] /\ wpc[w] = "complete"
    BY <1>11 DEF CompleteExport, Goto
  <2>2. wpc'[w] = "notify"
    BY <1>0, <1>5, <1>11 DEF CompleteExport, Goto, Occurs
  <2> QED BY <1>0, <1>2, <1>4, <2>1, <2>2
<1>12. CASE CompleteFails(w)
  <2>1. UNCHANGED <<status, due, object>> /\ wpc[w] = "complete" /\ wpc'[w] = "cleanup"
    BY <1>0, <1>12 DEF CompleteFails, Goto, rowVars
  <2> QED BY <1>1, <2>1 DEF Busy
<1>13. CASE NotifyRequester(w)
  <2>1. UNCHANGED <<status, due, object>> /\ wpc'[w] = "idle"
    BY <1>0, <1>13 DEF NotifyRequester, EndAttempt, Goto, rowVars
  <2> QED BY <1>3, <1>4, <2>1
<1>14. CASE DeletePartialObject(w)
  <2>1. UNCHANGED <<status, due>> /\ wpc[w] \in Busy /\ wpc'[w] = "giveUp"
    BY <1>0, <1>14 DEF DeletePartialObject, Goto, Busy, rowVars
  <2> QED BY <1>1, <2>1
<1>15. CASE GiveUp(w)
  <2>1. UNCHANGED <<due, object>> /\ wpc'[w] = "thrown" /\ wpc[w] \in Busy
    BY <1>0, <1>15 DEF GiveUp, Goto, Busy
  <2>2. status' = status \/ MarkFailed(e)
    BY <1>15 DEF GiveUp
  <2>3. status'[e] # "COMPLETED"
    BY <1>0, <1>1, <2>1, <2>2 DEF MarkFailed
  <2> QED BY <1>4, <2>1, <2>3
<1>16. CASE ReportAttempt(w)
  <2>1. UNCHANGED <<status, due, object>> /\ wpc'[w] = "idle"
    BY <1>0, <1>16 DEF ReportAttempt, EndAttempt, Goto, rowVars
  <2> QED BY <1>3, <1>4, <2>1
<1> QED BY <1>6, <1>7, <1>8, <1>9, <1>10, <1>11, <1>12, <1>13, <1>14, <1>15, <1>16 DEF RunExport
LEMMA WorkerKept ==
    ASSUME Base, NEW w \in Workers, AttemptInv(w), SameWorker(w),
           wpc[w] # "idle" => /\ status'[wjob[w]] = status[wjob[w]]
                              /\ object'[wjob[w]] = object[wjob[w]]
    PROVE  AttemptInv(w)'
<1>1. PICK e : e = wjob[w]
  OBVIOUS
<1>2. wjob'[w] = e /\ wpc'[w] = wpc[w] /\ holds'[w] = holds[w]
  BY <1>1 DEF SameWorker
<1> QED BY <1>1, <1>2 DEF AttemptInv

\* The row of an export some worker runs.
LEMMA RunningRow ==
    ASSUME Base, Agreement, NEW w \in Workers, wpc[w] # "idle", NEW e \in Exports, e = wjob[w]
    PROVE  /\ holds[w] /\ queue[e] = "active" /\ ~due[e] /\ batch[e] = "none"
           /\ caller[e] \notin {"count", "create", "enqueue", "undo"}
           /\ \A v \in Workers \ {w} : wpc[v] # "idle" => wjob[v] # e
<1>1. holds[w] /\ \A v \in Workers : wpc[v] # "idle" => holds[v]
  BY DEF Agreement, AttemptInv
<1>2. queue[e] = "active"
  BY <1>1 DEF Base, LockInv
<1>3. ~due[e]
  BY <1>2 DEF Agreement, RowInv
<1>4. batch[e] = "none"
  BY <1>3 DEF Agreement, RowInv
<1>5. caller[e] \notin {"count", "create", "enqueue", "undo"}
  BY <1>2 DEF Agreement, RowInv, Base, LockInv
<1> QED BY <1>1, <1>2, <1>3, <1>4, <1>5 DEF Base, LockInv

LEMMA RunAgrees ==
    ASSUME Base, Agreement, NEW w \in Workers, RunExport(w), OneWorker' PROVE Agreement'
<1>1. wpc[w] # "idle"
  BY RunOthers
<1>2. PICK e \in Exports : e = wjob[w]
  BY <1>1 DEF Base, LockInv
<1>3. /\ holds[w] /\ queue[e] = "active" /\ ~due[e] /\ batch[e] = "none"
      /\ caller[e] \notin {"count", "create", "enqueue", "undo"}
      /\ \A v \in Workers \ {w} : wpc[v] # "idle" => wjob[v] # e
  BY <1>1, <1>2, RunningRow
<1>4. /\ due'[e] => due[e]
      /\ status'[e] = "COMPLETED" /\ ~due[e] => object'[e] = "whole"
      /\ wpc'[w] \in Busy => status'[e] # "COMPLETED"
      /\ wpc'[w] = "complete" => object'[e] = "whole"
  BY <1>2, RunOutcome
<1>5. /\ \A v \in Workers \ {w} : SameWorker(v)
      /\ \A x \in Exports \ {e} : queue'[x] = queue[x]
      /\ UNCHANGED <<caller, batch>>
      /\ wpc'[w] = "idle" \/ (wjob'[w] = e /\ holds'[w])
  BY <1>2, <1>3, RunOthers
<1>6. /\ \A x \in Exports \ {e} :
            status'[x] = status[x] /\ due'[x] = due[x] /\ object'[x] = object[x]
  BY <1>2, RunWrites
<1>7. \A x \in Exports \ {e} : RowInv(x)'
  BY <1>5, <1>6, RowKept DEF Agreement, SameRow
<1>8. RowInv(e)'
  BY <1>3, <1>4, <1>5 DEF RowInv
<1>9. AttemptInv(w)'
  BY <1>4, <1>5 DEF AttemptInv
<1>10. ASSUME NEW v \in Workers \ {w} PROVE AttemptInv(v)'
  <2>1. wpc[v] # "idle" => wjob[v] \in Exports \ {e}
    BY <1>3 DEF Base, LockInv
  <2> QED BY <1>5, <1>6, <2>1, WorkerKept DEF Agreement
<1> QED BY <1>7, <1>8, <1>9, <1>10 DEF Agreement

LEMMA CrashAgrees ==
    ASSUME Base, Agreement, NEW w \in Workers, WorkerCrashes(w) PROVE Agreement'
<1>1. /\ UNCHANGED <<caller, status, started, due, object, queue, batch>>
      /\ wpc' = [wpc EXCEPT ![w] = "idle"]
  BY DEF WorkerCrashes, rowVars, queueVars, sweepVars
<1>2. wpc'[w] = "idle" /\ \A v \in Workers \ {w} : SameWorker(v)
  BY <1>1, RunOthers DEF Base, TypeOK
<1>3. \A v \in Workers \ {w} : AttemptInv(v)'
  BY <1>1, <1>2, WorkerKept DEF Agreement
<1>4. AttemptInv(w)'
  BY <1>2 DEF AttemptInv
<1>5. \A e \in Exports : RowInv(e)'
  BY <1>1 DEF Agreement, RowInv
<1> QED BY <1>3, <1>4, <1>5 DEF Agreement

\* A step of a caller, of a delivery or of time changes one export.
LEMMA OneAgrees ==
    ASSUME Base, Agreement, NEW e \in Exports, OneWorker',
           CreateExport(e) \/ CallerCrashes(e) \/ Redeliver(e) \/ RetentionPasses(e) \/ GrowStale(e)
    PROVE  Agreement'
<1>0. Base
  OBVIOUS
<1>1. UNCHANGED <<object, batch, wpc, wjob, holds, wread>>
  BY DEF CreateExport, CountInFlight, CreateRow, EnqueueJob, EnqueueFails, UndoCreate, CallerCrashes,
         Redeliver, RetentionPasses, GrowStale, workerVars, sweepVars
<1>2. \/ status' = status \/ \E s \in {"QUEUED", "FAILED"} : status' = [status EXCEPT ![e] = s]
  BY DEF CreateExport, CountInFlight, CreateRow, EnqueueJob, EnqueueFails, UndoCreate, CallerCrashes,
         Redeliver, RetentionPasses, GrowStale, rowVars, SetStatus
<1>3. \/ due' = due \/ due' = [due EXCEPT ![e] = TRUE]
  BY DEF CreateExport, CountInFlight, CreateRow, EnqueueJob, EnqueueFails, UndoCreate, CallerCrashes,
         Redeliver, RetentionPasses, GrowStale, rowVars
<1>4. \/ queue' = queue \/ \E q : queue' = [queue EXCEPT ![e] = q]
  BY DEF CreateExport, CountInFlight, CreateRow, EnqueueJob, EnqueueFails, UndoCreate, CallerCrashes,
         Redeliver, RetentionPasses, GrowStale, queueVars
<1>5. \/ caller' = caller \/ \E c : caller' = [caller EXCEPT ![e] = c]
  BY DEF CreateExport, CountInFlight, CreateRow, EnqueueJob, EnqueueFails, UndoCreate, CallerCrashes,
         Redeliver, RetentionPasses, GrowStale, Call
<1>6. \A x \in Exports \ {e} : status'[x] = status[x] /\ due'[x] = due[x]
  BY <1>2, <1>3 DEF Base, TypeOK
<1>7. \A x \in Exports \ {e} : queue'[x] = queue[x] /\ caller'[x] = caller[x]
  BY <1>4, <1>5 DEF Base, TypeOK
<1>8. \A x \in Exports \ {e} : RowInv(x)'
  BY <1>1, <1>6, <1>7, RowKept DEF Agreement, SameRow
<1>9. RowInv(e)
  BY DEF Agreement
<1>10. RowInv(e)' /\ (status'[e] = "COMPLETED" => status[e] = "COMPLETED")
  <2>1. CASE CountInFlight(e)
    <3>1. UNCHANGED <<status, due, queue, batch, object>> /\ caller'[e] \in {"refused", "create"}
      BY <2>1, <1>0 DEF CountInFlight, Call, rowVars, queueVars, sweepVars, Base, TypeOK
    <3> QED BY <1>9, <3>1 DEF RowInv
  <2>2. CASE CreateRow(e)
    <3>1. /\ UNCHANGED <<due, queue, batch, object>> /\ caller'[e] = "enqueue" /\ status'[e] = "QUEUED"
          /\ caller[e] = "create"
      BY <2>2, <1>0 DEF CreateRow, Call, SetStatus, queueVars, sweepVars, Base, TypeOK
    <3>2. queue[e] = "absent" /\ status[e] = "none"
      BY <3>1 DEF Base, LockInv
    <3> QED BY <1>9, <3>1, <3>2 DEF RowInv
  <2>3. CASE EnqueueJob(e)
    <3>1. "lost_reply" \notin faults'
      BY DEF OneWorker, Never
    <3>2. /\ UNCHANGED <<status, due, batch, object>> /\ caller[e] = "enqueue" /\ caller'[e] = "accepted"
      BY <2>3, <1>0, <3>1 DEF EnqueueJob, Call, Occurs, rowVars, sweepVars, Base, TypeOK
    <3> QED BY <1>9, <3>2 DEF RowInv
  <2>4. CASE EnqueueFails(e)
    <3>1. /\ UNCHANGED <<status, due, queue, batch, object>> /\ caller[e] = "enqueue" /\ caller'[e] = "undo"
      BY <2>4, <1>0 DEF EnqueueFails, Call, rowVars, queueVars, sweepVars, Base, TypeOK
    <3> QED BY <1>9, <3>1 DEF RowInv
  <2>5. CASE UndoCreate(e)
    <3>1. /\ UNCHANGED <<due, queue, batch, object>> /\ caller[e] = "undo" /\ caller'[e] = "refused"
          /\ status'[e] = "FAILED" \/ status' = status
      BY <2>5, <1>0 DEF UndoCreate, Call, SetStatus, queueVars, sweepVars, Base, TypeOK
    <3> QED BY <1>9, <3>1 DEF RowInv
  <2>6. CASE CallerCrashes(e)
    <3>1. /\ UNCHANGED <<status, due, queue, batch, object>> /\ caller'[e] = "crashed"
      BY <2>6, <1>0 DEF CallerCrashes, rowVars, queueVars, sweepVars, Base, TypeOK
    <3> QED BY <1>9, <3>1 DEF RowInv
  <2>7. CASE Redeliver(e)
    <3>1. /\ UNCHANGED <<caller, status, due, batch, object>> /\ queue[e] = "active"
      BY <2>7 DEF Redeliver, rowVars, sweepVars
    <3> QED BY <1>9, <3>1 DEF RowInv
  <2>8. CASE RetentionPasses(e)
    <3>1. /\ UNCHANGED <<caller, status, queue, batch, object>> /\ due'[e] /\ status[e] = "COMPLETED"
          /\ queue[e] \notin {"waiting", "active"}
      BY <2>8, <1>0 DEF RetentionPasses, Idle, queueVars, sweepVars, Base, TypeOK
    <3> QED BY <1>9, <3>1 DEF RowInv
  <2>9. CASE GrowStale(e)
    BY <1>9, <2>9 DEF GrowStale, RowInv, queueVars, sweepVars
  <2> QED BY <2>1, <2>2, <2>3, <2>4, <2>5, <2>6, <2>7, <2>8, <2>9 DEF CreateExport
<1>11. \A x \in Exports : status'[x] = "COMPLETED" => status[x] = "COMPLETED"
  BY <1>6, <1>10
<1>12. \A w \in Workers : AttemptInv(w)'
  BY <1>1, <1>11 DEF Agreement, AttemptInv, Base, LockInv
<1> QED BY <1>8, <1>10, <1>12 DEF Agreement

LEMMA TakeAgrees ==
    ASSUME Base, Agreement, NEW e \in Exports, NEW w \in Workers, TakeJob(w, e) PROVE Agreement'
<1>1. /\ UNCHANGED <<caller, status, due, batch, object>> /\ queue[e] = "waiting"
      /\ queue' = [queue EXCEPT ![e] = "active"] /\ wpc' = [wpc EXCEPT ![w] = "read"]
      /\ holds' = [holds EXCEPT ![w] = TRUE] /\ wjob' = [wjob EXCEPT ![w] = e]
  BY DEF TakeJob, rowVars, sweepVars
<1>2. \A x \in Exports : queue'[x] = queue[x] \/ (x = e /\ queue'[x] = "active")
  BY <1>1 DEF Base, TypeOK
<1>3. \A x \in Exports : RowInv(x)'
  BY <1>1, <1>2 DEF Agreement, RowInv
<1>4. /\ wpc'[w] = "read" /\ holds'[w]
      /\ \A v \in Workers \ {w} : wpc'[v] = wpc[v] /\ holds'[v] = holds[v] /\ wjob'[v] = wjob[v]
  BY <1>1 DEF Base, TypeOK
<1>5. AttemptInv(w)'
  BY <1>4 DEF AttemptInv, Busy
<1>6. \A v \in Workers \ {w} : AttemptInv(v)'
  BY <1>1, <1>4 DEF Agreement, AttemptInv
<1> QED BY <1>3, <1>5, <1>6 DEF Agreement

\* What a sweep writes: rows and objects past their retention, and stale rows.
LEMMA SweepWrites ==
    ASSUME Base, Agreement, Sweep
    PROVE  /\ UNCHANGED <<caller, started, due, queue, wpc, wjob, holds, wread>>
           /\ \A e \in Exports : /\ status'[e] = status[e]
                                    \/ (status[e] = "COMPLETED" /\ status'[e] = "EXPIRED" /\ due[e])
                                    \/ (status[e] = "RUNNING" /\ started[e] = "stale" /\ status'[e] = "FAILED")
                                 /\ object'[e] = object[e] \/ due[e]
                                 /\ batch'[e] # "none" => due[e]
<1>1. \A e \in Exports : batch[e] # "none" => due[e]
  BY DEF Agreement, RowInv
<1>2. UNCHANGED <<caller, started, due, queue, wpc, wjob, holds, wread>>
  BY DEF Sweep, FindDue, FailStaleRunning, SweepThrows, SweepObject, SweepObjectFails, SweepRow,
         rowVars, queueVars, workerVars
<1>3. CASE FindDue
  BY <1>1, <1>2, <1>3 DEF FindDue, rowVars
<1>4. CASE FailStaleRunning
  BY <1>1, <1>2, <1>4 DEF FailStaleRunning
<1>5. CASE SweepThrows
  BY <1>1, <1>2, <1>5 DEF SweepThrows, rowVars
<1>6. ASSUME NEW x \in Exports, SweepObject(x) \/ SweepObjectFails(x)
      PROVE  \A e \in Exports : /\ status'[e] = status[e]
                                /\ object'[e] = object[e] \/ due[e]
                                /\ batch'[e] # "none" => due[e]
  BY <1>1, <1>6 DEF SweepObject, SweepObjectFails, rowVars, Base, TypeOK
<1>7. ASSUME NEW x \in Exports, SweepRow(x)
      PROVE  \A e \in Exports : /\ status'[e] = status[e]
                                   \/ (status[e] = "COMPLETED" /\ status'[e] = "EXPIRED" /\ due[e])
                                /\ object'[e] = object[e]
                                /\ batch'[e] # "none" => due[e]
  BY <1>1, <1>7 DEF SweepRow, Base, TypeOK
<1> QED BY <1>2, <1>3, <1>4, <1>5, <1>6, <1>7 DEF Sweep

LEMMA SweepAgrees == ASSUME Base, Agreement, Sweep PROVE Agreement'
<1>1. ASSUME NEW e \in Exports PROVE RowInv(e)'
  BY SweepWrites DEF Agreement, RowInv
<1>2. ASSUME NEW w \in Workers PROVE AttemptInv(w)'
  <2>1. CASE wpc[w] = "idle"
    BY <2>1, SweepWrites DEF AttemptInv
  <2>2. CASE wpc[w] # "idle"
    <3>1. PICK e \in Exports : e = wjob[w]
      BY <2>2 DEF Base, LockInv
    <3>2. ~due[e]
      BY <2>2, <3>1, RunningRow
    <3>3. object'[e] = object[e] /\ (status'[e] = "COMPLETED" => status[e] = "COMPLETED")
      BY <3>1, <3>2, SweepWrites
    <3>4. UNCHANGED <<wpc, holds>> /\ wjob'[w] = e
      BY <3>1, SweepWrites
    <3> QED BY <3>1, <3>3, <3>4 DEF Agreement, AttemptInv
  <2> QED BY <2>1, <2>2
<1> QED BY <1>1, <1>2 DEF Agreement

LEMMA AgreementStep ==
    ASSUME Base, OneWorker => Agreement, [Next]_vars PROVE OneWorker' => Agreement'
<1> SUFFICES ASSUME OneWorker' PROVE Agreement'
  OBVIOUS
<1>1. Agreement
  BY FaultsGrow DEF OneWorker, Never
<1>2. ~(\E w \in Workers : LoseLock(w))
  BY DEF LoseLock, Occurs, OneWorker, Never
<1>3. UNCHANGED vars => Agreement'
  BY <1>1 DEF vars, rowVars, queueVars, workerVars, sweepVars, Agreement, RowInv, AttemptInv
<1> QED BY <1>1, <1>2, <1>3, RunAgrees, CrashAgrees, OneAgrees, TakeAgrees, SweepAgrees DEF Next

\* Rows, objects, jobs and the sweep agree in every run without a lost lock or
\* a lost reply: the inductive invariant behind CompletedIsDownloadable.
THEOREM AgreementAlways == Spec => [](Base /\ (OneWorker => Agreement))
<1>1. Init => Agreement
  BY DEF Init, Agreement, RowInv, AttemptInv
<1> QED BY <1>1, BaseInit, BaseStep, AgreementStep, PTL DEF Spec

\* CompletedIsDownloadable: a COMPLETED row within its retention has its whole
\* object, for any number of exports, workers, attempts and crashes.
THEOREM CompletedCorrect == Spec => []CompletedIsDownloadable
<1>1. Base /\ (OneWorker => Agreement) => CompletedIsDownloadable
  BY DEF OneWorker, Agreement, RowInv, CompletedIsDownloadable
<1> QED BY <1>1, AgreementAlways, PTL
-----------------------------------------------------------------------------
(* While, besides, no job outlasts the stale window, a job that is not over *)
(* has a row that is not FAILED.                                           *)

OnTime == Never({"lock_lost", "lost_reply", "overdue", "unreported"})

\* A worker has marked the row of export e FAILED, on the job's last attempt, and
\* is about to tell the queue.
Over(e) ==
    \E w \in Workers : /\ wjob[w] = e /\ wpc[w] \in {"dropped", "thrown"}
                       /\ wpc[w] = "thrown" => wread[w].tries + 1 >= Attempts

\* A row starts with its first attempt; the row of a job that is not over is
\* neither EXPIRED nor stale, and is FAILED only while its worker has still to
\* tell the queue.
AliveInv(e) ==
    /\ status[e] \in {"none", "QUEUED"} => started[e] = "never"
    /\ queue[e] \in {"waiting", "active"} =>
          /\ started[e] # "stale"
          /\ \/ status[e] \in {"QUEUED", "RUNNING", "COMPLETED"}
             \/ status[e] = "FAILED" /\ Over(e)

Timely == /\ \A e \in Exports : AliveInv(e)
          /\ \A w \in Workers : wread[w].started # "stale"

LEMMA AliveKept ==
    ASSUME NEW e, AliveInv(e), UNCHANGED <<status[e], started[e], queue[e]>>, Over(e) => Over(e)'
    PROVE  AliveInv(e)'
BY DEF AliveInv

\* A worker that is over with an export goes on being so while it does nothing.
LEMMA OverKept ==
    ASSUME NEW e, NEW w \in Workers, \A v \in Workers \ {w} : SameWorker(v), wjob[w] # e
    PROVE  Over(e) => Over(e)'
BY DEF Over, SameWorker

LEMMA OverSame == ASSUME UNCHANGED <<wpc, wjob, wread>>, NEW e PROVE Over(e)' <=> Over(e)
BY DEF Over

\* Of the row that a worker runs, only that worker may be over with it.
LEMMA OverHere ==
    ASSUME Base, Agreement, NEW w \in Workers, wpc[w] # "idle", NEW e \in Exports, e = wjob[w], Over(e)
    PROVE  wpc[w] \in {"dropped", "thrown"} /\ (wpc[w] = "thrown" => wread[w].tries + 1 >= Attempts)
<1>1. \A v \in Workers \ {w} : wpc[v] # "idle" => wjob[v] # e
  BY RunningRow
<1> QED BY <1>1 DEF Over

LEMMA RunAlive ==
    ASSUME Base, Agreement, Timely, NEW w \in Workers, RunExport(w), NEW e \in Exports, e = wjob[w],
           ~ReportAttempt(w), OnTime'
    PROVE  AliveInv(e)' /\ wread'[w].started # "stale"
<1>0. /\ wpc \in [Workers -> WorkerPCs] /\ status \in [Exports -> {"none", "QUEUED", "RUNNING",
                                                           "COMPLETED", "FAILED", "EXPIRED"}]
      /\ started \in [Exports -> {"never", "recent", "stale"}]
      /\ queue \in [Exports -> QueueStates] /\ wread \in [Workers -> Reads]
  BY DEF Base, TypeOK, WorkerPCs, QueueStates, Reads
<1>1. holds[w] /\ queue[e] = "active" /\ wread[w].tries = tries[e] /\ tries[e] \in Nat /\ Attempts \in Nat
  <2>1. wpc[w] # "idle"
    BY RunOthers
  <2> QED BY <2>1, RunningRow, ExportAssumption DEF Base, LockInv, TypeOK
<1>2. started[e] \in {"never", "recent"} /\ status[e] \in {"QUEUED", "RUNNING", "COMPLETED"}
  <2>1. wpc[w] \notin {"idle", "dropped", "thrown"}
    BY DEF RunExport, ReadJob, NothingToExport, MarkRunning, CountRows, UploadExport, CompleteExport,
           CompleteFails, NotifyRequester, DeletePartialObject, GiveUp, ThrowEarly, EndAttempt, Goto
  <2>2. ~Over(e)
    BY <2>1, OverHere
  <2> QED BY <1>0, <1>1, <2>2 DEF Timely, AliveInv
<1>4. wread[w].started \in {"never", "recent"}
  BY <1>0 DEF Timely, Reads
<1>2a. ASSUME KeepJob, wpc' = [wpc EXCEPT ![w] = "thrown"], wread[w].tries + 1 >= Attempts
       PROVE  Over(e)'
  BY <1>0, <1>2a DEF KeepJob, Over
<1>2b. ASSUME KeepJob, wpc' = [wpc EXCEPT ![w] = "dropped"] PROVE Over(e)'
  BY <1>0, <1>2b DEF KeepJob, Over
<1>2c. ASSUME KeepJob, UNCHANGED started, MarkFailed(e), Over(e)'
       PROVE  AliveInv(e)' /\ wread'[w].started # "stale"
  <2>1. status'[e] \in {"FAILED", "COMPLETED"}
    BY <1>0, <1>2, <1>2c DEF MarkFailed
  <2> QED BY <1>2, <1>4, <1>2c, <2>1 DEF KeepJob, AliveInv
<1>3. status[e] = "QUEUED" => started[e] = "never"
  BY DEF Timely, AliveInv
<1>5. ASSUME NEW from, NEW threw \in BOOLEAN, EndAttempt(w, from, threw)
      PROVE  /\ wread'[w].started = "never"
             /\ queue'[e] = IF ~threw THEN "done" ELSE IF tries[e] + 1 >= Attempts THEN "failed" ELSE "waiting"
  <2>1. wread' = [wread EXCEPT ![w] = NothingRead]
    BY <1>5 DEF EndAttempt
  <2>2. wread'[w].started = "never"
    BY <1>0, <2>1 DEF NothingRead
  <2>3. queue' = [queue EXCEPT ![e] =
                     IF ~threw THEN "done" ELSE IF tries[e] + 1 >= Attempts THEN "failed" ELSE "waiting"]
    BY <1>1, <1>5 DEF EndAttempt
  <2> QED BY <1>0, <2>2, <2>3
<1>6. CASE UNCHANGED <<status, started>>
           /\ \E from \in WorkerPCs, threw \in BOOLEAN : EndAttempt(w, from, threw)
  BY <1>2, <1>3, <1>5, <1>6 DEF AliveInv
<1>7. ASSUME ThrowEarly(w, "read") \/ ThrowEarly(w, "noForms") \/ ThrowEarly(w, "running")
                \/ ThrowEarly(w, "total"), UNCHANGED started
      PROVE  AliveInv(e)' /\ wread'[w].started # "stale"
  BY <1>2, <1>3, <1>5, <1>7 DEF ThrowEarly, AliveInv
<1>8. ASSUME KeepJob, UNCHANGED started, status' = status \/ status'[e] = "COMPLETED"
      PROVE  AliveInv(e)' /\ wread'[w].started # "stale"
  BY <1>2, <1>3, <1>4, <1>8 DEF KeepJob, AliveInv
<1>9. CASE ReadJob(w)
  <2>1. UNCHANGED <<status, started>>
    BY <1>9 DEF ReadJob, rowVars
  <2>2. CASE UNCHANGED queueVars /\ wread' = [wread EXCEPT ![w].started = started[e]]
    <3>1. wread' = [wread EXCEPT ![w] = [wread[w] EXCEPT !.started = started[e]]]
      BY <2>2
    <3>2. wread'[w].started = started[e]
      BY <1>0, <3>1 DEF Reads
    <3> QED BY <1>2, <1>3, <2>1, <2>2, <3>2 DEF AliveInv, queueVars
  <2>3. CASE \E threw \in BOOLEAN : EndAttempt(w, "read", threw)
    BY <1>6, <2>1, <2>3 DEF WorkerPCs
  <2> QED BY <1>9, <2>2, <2>3 DEF ReadJob, ThrowEarly, queueVars
<1>10. CASE NothingToExport(w)
  <2>1. UNCHANGED started
    BY <1>10 DEF NothingToExport
  <2>2. CASE ThrowEarly(w, "noForms")
    BY <1>7, <2>1, <2>2
  <2>3. CASE Goto(w, "noForms", "dropped") /\ MarkFailed(e) /\ KeepJob
    BY <1>2b, <1>2c, <2>1, <2>3 DEF Goto
  <2>4. ~Occurs("lost_reply")
    BY DEF Occurs, OnTime, Never
  <2> QED BY <1>10, <2>2, <2>3, <2>4 DEF NothingToExport
<1>11. CASE MarkRunning(w)
  <2>1. CASE ThrowEarly(w, "running") /\ UNCHANGED started
    BY <1>7, <2>1
  <2>2. CASE KeepJob /\ status' = [status EXCEPT ![e] = "RUNNING"]
             /\ started' = [started EXCEPT ![e] =
                   IF wread[w].started = "never" THEN "recent" ELSE wread[w].started]
    <3>1. status'[e] = "RUNNING" /\ started'[e] \in {"never", "recent"}
      BY <1>0, <1>4, <2>2
    <3> QED BY <1>4, <2>2, <3>1 DEF KeepJob, AliveInv
  <2> QED BY <1>11, <2>1, <2>2 DEF MarkRunning, SetStatus
<1>12. CASE CountRows(w)
  <2>1. UNCHANGED started
    BY <1>12 DEF CountRows
  <2> QED BY <1>7, <1>8, <1>12, <2>1 DEF CountRows
<1>13. CASE UploadExport(w) \/ CompleteFails(w) \/ DeletePartialObject(w)
  BY <1>8, <1>13 DEF UploadExport, CompleteFails, DeletePartialObject, rowVars
<1>14. CASE CompleteExport(w)
  <2>1. status'[e] = "COMPLETED"
    BY <1>0, <1>14 DEF CompleteExport, SetStatus
  <2> QED BY <1>8, <1>14, <2>1 DEF CompleteExport
<1>15. CASE NotifyRequester(w)
  BY <1>6, <1>15 DEF NotifyRequester, rowVars, WorkerPCs
<1>16. CASE GiveUp(w)
  <2>1. UNCHANGED started /\ KeepJob /\ wpc' = [wpc EXCEPT ![w] = "thrown"]
    BY <1>16 DEF GiveUp, Goto
  <2>2. CASE UNCHANGED status
    BY <1>8, <2>1, <2>2
  <2>3. CASE ~(wread[w].tries + 1 < Attempts) /\ MarkFailed(e)
    <3>1. wread[w].tries + 1 >= Attempts
      BY <1>1, <2>3
    <3> QED BY <1>2a, <1>2c, <2>1, <2>3, <3>1
  <2> QED BY <1>16, <2>2, <2>3 DEF GiveUp
<1> QED BY <1>9, <1>10, <1>11, <1>12, <1>13, <1>14, <1>15, <1>16 DEF RunExport

\* A failed last attempt ends the job, and an earlier one leaves the row alive.
LEMMA ReportAlive ==
    ASSUME Base, Agreement, Timely, NEW w \in Workers, ReportAttempt(w), NEW e \in Exports, e = wjob[w]
    PROVE  AliveInv(e)' /\ wread'[w].started # "stale"
<1>0. /\ wpc \in [Workers -> WorkerPCs] /\ queue \in [Exports -> QueueStates]
      /\ wread \in [Workers -> Reads]
  BY DEF Base, TypeOK, WorkerPCs, QueueStates, Reads
<1>1. wpc[w] \in {"dropped", "thrown"} /\ UNCHANGED <<status, started>>
  BY DEF ReportAttempt, EndAttempt, Goto, rowVars
<1>2. holds[w] /\ queue[e] = "active" /\ wread[w].tries = tries[e] /\ tries[e] \in Nat /\ Attempts \in Nat
  BY <1>1, RunningRow, ExportAssumption DEF Base, LockInv, TypeOK
<1>3. wread' = [wread EXCEPT ![w] = NothingRead] /\ wread'[w].started # "stale"
  BY <1>0 DEF ReportAttempt, EndAttempt, NothingRead
<1>4. AliveInv(e)
  BY DEF Timely
<1>5. CASE EndAttempt(w, "dropped", FALSE)
  <2>1. queue'[e] = "done"
    BY <1>0, <1>2, <1>5 DEF EndAttempt
  <2> QED BY <1>1, <1>3, <1>4, <2>1 DEF AliveInv
<1>6. CASE EndAttempt(w, "thrown", TRUE)
  <2>1. wpc[w] = "thrown"
    BY <1>6 DEF EndAttempt, Goto
  <2>2. queue'[e] = IF tries[e] + 1 >= Attempts THEN "failed" ELSE "waiting"
    BY <1>0, <1>2, <1>6 DEF EndAttempt
  <2>3. CASE tries[e] + 1 >= Attempts
    BY <1>1, <1>3, <1>4, <2>2, <2>3 DEF AliveInv
  <2>4. CASE ~(tries[e] + 1 >= Attempts)
    <3>1. ~Over(e)
      BY <1>2, <2>1, <2>4, OverHere
    <3> QED BY <1>1, <1>2, <1>3, <1>4, <3>1 DEF AliveInv
  <2> QED BY <2>3, <2>4
<1> QED BY <1>5, <1>6 DEF ReportAttempt

LEMMA RunTimely ==
    ASSUME Base, Agreement, Timely, NEW w \in Workers, RunExport(w), OnTime' PROVE Timely'
<1>1. wpc[w] # "idle"
  BY RunOthers
<1>2. PICK e \in Exports : e = wjob[w]
  BY <1>1 DEF Base, LockInv
<1>3. AliveInv(e)' /\ wread'[w].started # "stale"
  BY <1>2, RunAlive, ReportAlive
<1>4. \A v \in Workers \ {w} : wread'[v] = wread[v]
  BY RunOthers DEF SameWorker
<1>5. \A x \in Exports \ {e} : queue'[x] = queue[x] /\ status'[x] = status[x] /\ started'[x] = started[x]
  BY <1>2, RunOthers, RunWrites
<1>5a. \A x \in Exports \ {e} : Over(x) => Over(x)'
  BY <1>2, RunOthers, OverKept
<1>6. \A x \in Exports \ {e} : AliveInv(x)'
  BY <1>5, <1>5a, AliveKept DEF Timely
<1> QED BY <1>3, <1>4, <1>6 DEF Timely

LEMMA OneTimely ==
    ASSUME Base, Agreement, Timely, NEW e \in Exports, OnTime',
           CreateExport(e) \/ CallerCrashes(e) \/ Redeliver(e) \/ RetentionPasses(e) \/ GrowStale(e)
    PROVE  Timely'
<1>0. Base
  OBVIOUS
<1>1. UNCHANGED <<wpc, wjob, wread>>
  BY DEF CreateExport, CountInFlight, CreateRow, EnqueueJob, EnqueueFails, UndoCreate, CallerCrashes,
         Redeliver, RetentionPasses, GrowStale, workerVars
<1>2. \/ status' = status \/ \E s \in {"QUEUED", "FAILED"} : status' = [status EXCEPT ![e] = s]
  BY DEF CreateExport, CountInFlight, CreateRow, EnqueueJob, EnqueueFails, UndoCreate, CallerCrashes,
         Redeliver, RetentionPasses, GrowStale, rowVars, SetStatus
<1>3. \/ started' = started \/ started' = [started EXCEPT ![e] = "stale"]
  BY DEF CreateExport, CountInFlight, CreateRow, EnqueueJob, EnqueueFails, UndoCreate, CallerCrashes,
         Redeliver, RetentionPasses, GrowStale, rowVars
<1>4. \/ queue' = queue \/ \E q : queue' = [queue EXCEPT ![e] = q]
  BY DEF CreateExport, CountInFlight, CreateRow, EnqueueJob, EnqueueFails, UndoCreate, CallerCrashes,
         Redeliver, RetentionPasses, GrowStale, queueVars
<1>5. \A x \in Exports \ {e} : status'[x] = status[x] /\ started'[x] = started[x] /\ queue'[x] = queue[x]
  BY <1>2, <1>3, <1>4 DEF Base, TypeOK
<1>5a. \A x \in Exports : Over(x)' <=> Over(x)
  BY <1>1, OverSame
<1>6. \A x \in Exports \ {e} : AliveInv(x)'
  BY <1>5, <1>5a, AliveKept DEF Timely
<1>7. AliveInv(e) /\ RowInv(e)
  BY DEF Timely, Agreement
<1>8. AliveInv(e)'
  <2>1. CASE CountInFlight(e) \/ EnqueueFails(e) \/ CallerCrashes(e) \/ RetentionPasses(e)
    BY <1>5a, <1>7, <2>1 DEF CountInFlight, EnqueueFails, CallerCrashes, RetentionPasses, rowVars, queueVars, AliveInv
  <2>2. CASE CreateRow(e)
    <3>1. /\ UNCHANGED <<started, queue>> /\ status'[e] = "QUEUED" /\ caller[e] = "create"
      BY <2>2, <1>0 DEF CreateRow, Call, SetStatus, queueVars, Base, TypeOK
    <3>2. queue[e] = "absent" /\ status[e] = "none"
      BY <3>1 DEF Base, LockInv
    <3> QED BY <1>5a, <1>7, <3>1, <3>2 DEF AliveInv
  <2>3. CASE EnqueueJob(e)
    <3>1. UNCHANGED <<status, started>> /\ caller[e] = "enqueue"
      BY <2>3 DEF EnqueueJob, Call, rowVars
    <3> QED BY <1>5a, <1>7, <3>1 DEF AliveInv, RowInv
  <2>4. CASE UndoCreate(e)
    <3>1. /\ UNCHANGED <<started, queue>> /\ caller[e] = "undo"
          /\ status'[e] = "FAILED" \/ status' = status
      BY <2>4, <1>0 DEF UndoCreate, Call, SetStatus, queueVars, Base, TypeOK
    <3> QED BY <1>5a, <1>7, <3>1 DEF AliveInv, RowInv
  <2>5. CASE Redeliver(e)
    BY <1>5a, <1>7, <2>5 DEF Redeliver, AliveInv, rowVars
  <2>6. CASE GrowStale(e)
    <3>1. UNCHANGED <<status, queue>> /\ status[e] = "RUNNING"
      BY <2>6 DEF GrowStale, queueVars
    <3>2. queue[e] \notin {"waiting", "active"}
      BY <2>6 DEF GrowStale, Idle, OnTime, Never, Occurs
    <3> QED BY <3>1, <3>2 DEF AliveInv
  <2> QED BY <2>1, <2>2, <2>3, <2>4, <2>5, <2>6 DEF CreateExport
<1> QED BY <1>1, <1>6, <1>8 DEF Timely

LEMMA TakeTimely ==
    ASSUME Base, Timely, NEW e \in Exports, NEW w \in Workers, TakeJob(w, e) PROVE Timely'
<1>1. /\ UNCHANGED <<status, started>> /\ queue[e] = "waiting"
      /\ queue' = [queue EXCEPT ![e] = "active"]
      /\ wread' = [wread EXCEPT ![w] = [wread[w] EXCEPT !.tries = tries[e]]]
  BY DEF TakeJob, rowVars
<1>2. \A x \in Exports : queue'[x] \in {"waiting", "active"} => queue[x] \in {"waiting", "active"}
  BY <1>1 DEF Base, TypeOK
<1>3. \A v \in Workers : wread'[v].started = wread[v].started
  BY <1>1 DEF Base, TypeOK
<1>4. ASSUME NEW x \in Exports PROVE Over(x) => Over(x)'
  <2>1. wpc[w] = "idle" /\ \A v \in Workers \ {w} : wpc'[v] = wpc[v] /\ wjob'[v] = wjob[v] /\ wread'[v] = wread[v]
    BY <1>1 DEF TakeJob, Base, TypeOK
  <2> QED BY <2>1 DEF Over
<1> QED BY <1>1, <1>2, <1>3, <1>4 DEF Timely, AliveInv

LEMMA TimelyStep ==
    ASSUME Base, OneWorker => Agreement, OnTime => Timely, [Next]_vars PROVE OnTime' => Timely'
<1> SUFFICES ASSUME OnTime' PROVE Timely'
  OBVIOUS
<1>1. Agreement /\ Timely
  BY FaultsGrow DEF OneWorker, OnTime, Never
<1>2. ~(\E w \in Workers : LoseLock(w))
  BY DEF LoseLock, Occurs, OnTime, Never
<1>3. UNCHANGED vars => Timely'
  <2>1. SUFFICES ASSUME UNCHANGED vars PROVE Timely'
    OBVIOUS
  <2>2. UNCHANGED <<status, started, queue, wpc, wjob, wread>>
    BY <2>1 DEF vars, rowVars, queueVars, workerVars
  <2> QED BY <1>1, <2>2, OverSame, AliveKept DEF Timely
<1>4. ASSUME NEW w \in Workers, WorkerCrashes(w) PROVE Timely'
  <2>1. UNCHANGED <<status, started, queue>> /\ wread' = [wread EXCEPT ![w] = NothingRead]
    BY <1>4 DEF WorkerCrashes, rowVars, queueVars
  <2>2. \A v \in Workers : wread'[v].started # "stale"
    BY <1>1, <2>1 DEF Timely, NothingRead, Base, TypeOK
  <2>3. ~Unreported(w)
    BY <1>4 DEF WorkerCrashes, OnTime, Never
  <2>4. ASSUME NEW x \in Exports, status[x] = "FAILED" PROVE Over(x) => Over(x)'
    <3>1. CASE wjob[w] # x
      BY <1>4, <3>1, RunOthers, OverKept
    <3>2. CASE wjob[w] = x
      <4>1. wpc[w] # "idle"
        BY <1>4 DEF WorkerCrashes
      <4> QED BY <1>1, <2>3, <2>4, <3>2, <4>1, OverHere DEF Unreported
    <3> QED BY <3>1, <3>2
  <2> QED BY <1>1, <2>1, <2>2, <2>4 DEF Timely, AliveInv
<1>5. ASSUME Sweep PROVE Timely'
  <2>1. ASSUME NEW e \in Exports PROVE AliveInv(e)'
    <3>1. AliveInv(e) /\ RowInv(e)
      BY <1>1 DEF Timely, Agreement
    <3>2. UNCHANGED <<wpc, wjob, wread>>
      BY <1>1, <1>5, SweepWrites
    <3>3. Over(e)' <=> Over(e)
      BY <3>2, OverSame
    <3> QED BY <1>1, <1>5, <3>1, <3>3, SweepWrites DEF AliveInv, RowInv
  <2> QED BY <1>1, <1>5, <2>1, SweepWrites DEF Timely
<1> QED BY <1>1, <1>2, <1>3, <1>4, <1>5, RunTimely, OneTimely, TakeTimely DEF Next

\* If no job outlasts the stale window either, what is still to run is alive: the
\* inductive invariant behind FailedIsFinal and ConcurrencyRespected.
THEOREM TimelyAlways ==
    Spec => [](Base /\ (OneWorker => Agreement) /\ (OnTime => Timely))
<1>1. Init => Timely
  BY DEF Init, Timely, AliveInv, NothingRead
<1>2. Init => Agreement
  BY DEF Init, Agreement, RowInv, AttemptInv
<1> QED BY <1>1, <1>2, BaseInit, BaseStep, AgreementStep, TimelyStep, PTL DEF Spec
\* A step that no lost lock, lost reply or overdue job disturbs: a row that ended
\* in FAILED stays there, and no row comes back in flight.
LEMMA RowsEnd ==
    ASSUME Base, Agreement, Timely, [Next]_vars, OnTime', NEW x \in Exports, status'[x] # status[x]
    PROVE  /\ status[x] # "FAILED"
           /\ status[x] \in {"QUEUED", "RUNNING"} \/ status'[x] \notin {"QUEUED", "RUNNING"} \/ CreateRow(x)
<1>1. ASSUME NEW w \in Workers, RunExport(w)
      PROVE  status[x] \in {"QUEUED", "RUNNING"} \/ (status[x] = "COMPLETED" /\ status'[x] \notin {"QUEUED", "RUNNING"})
  <2>1. wpc[w] # "idle" /\ x = wjob[w]
    BY <1>1, RunOthers, RunWrites
  <2>2. queue[x] = "active"
    BY <2>1, RunningRow
  <2>2a. ~ReportAttempt(w)
    BY DEF ReportAttempt, rowVars
  <2>2b. wpc[w] \notin {"dropped", "thrown"}
    BY <1>1, <2>2a DEF RunExport, ReadJob, NothingToExport, MarkRunning, CountRows, UploadExport,
           CompleteExport, CompleteFails, NotifyRequester, DeletePartialObject, GiveUp, ThrowEarly,
           EndAttempt, Goto
  <2>2c. ~Over(x)
    BY <2>1, <2>2b, OverHere
  <2>3. status[x] \in {"QUEUED", "RUNNING", "COMPLETED"}
    BY <2>2, <2>2c DEF Timely, AliveInv
  <2>4. CASE status[x] = "COMPLETED"
    <3>1. wpc[w] \notin Busy
      BY <2>1, <2>4 DEF Agreement, AttemptInv
    <3>2. ReadJob(w) \/ NotifyRequester(w) \/ ReportAttempt(w)
      BY <1>1, <3>1 DEF RunExport, NothingToExport, MarkRunning, CountRows, UploadExport, CompleteExport,
             CompleteFails, DeletePartialObject, GiveUp, ReportAttempt, ThrowEarly, EndAttempt, Goto, Busy
    <3>3. UNCHANGED status
      BY <3>2 DEF ReadJob, NotifyRequester, ReportAttempt, rowVars
    <3> QED BY <3>3
  <2> QED BY <2>3, <2>4
<1>2. ASSUME NEW e \in Exports, CreateExport(e) PROVE status[x] = "QUEUED" \/ CreateRow(x)
  <2>1. CreateRow(e) \/ UndoCreate(e)
    BY <1>2 DEF CreateExport, CountInFlight, EnqueueJob, EnqueueFails, rowVars
  <2>2. x = e
    BY <2>1 DEF CreateRow, UndoCreate, SetStatus, Base, TypeOK
  <2>3. UndoCreate(e) => status[e] = "QUEUED"
    BY DEF UndoCreate, Call, Agreement, RowInv
  <2> QED BY <2>1, <2>2, <2>3
<1>3. CreateRow(x) => status[x] = "none"
  BY DEF CreateRow, Call, Base, LockInv
<1>4. ASSUME Sweep
      PROVE  status[x] = "RUNNING" \/ (status[x] = "COMPLETED" /\ status'[x] = "EXPIRED")
  BY <1>4, SweepWrites
<1>5. \/ \E e \in Exports : CreateExport(e)
      \/ \E w \in Workers : RunExport(w)
      \/ Sweep
  BY DEF Next, vars, rowVars, CallerCrashes, Redeliver, RetentionPasses, GrowStale, TakeJob, WorkerCrashes,
         LoseLock
<1> QED BY <1>1, <1>2, <1>3, <1>4, <1>5

\* FailedIsFinal: a row once FAILED stays FAILED.
THEOREM FailedCorrect == Spec => FailedIsFinal
<1> DEFINE Inv == Base /\ (OneWorker => Agreement) /\ (OnTime => Timely)
<1>1. ASSUME Inv, [Next]_vars, NEW e \in Exports, status[e] = "FAILED", status'[e] # "FAILED", OnTime'
      PROVE  FALSE
  <2>1. Agreement /\ Timely
    BY <1>1, FaultsGrow DEF OneWorker, OnTime, Never
  <2> QED BY <1>1, <2>1, RowsEnd
<1>2. Inv /\ [Next]_vars =>
      [\A e \in Exports :
          /\ status[e] = "FAILED" /\ status'[e] # "FAILED"
          => ~Never({"lock_lost", "lost_reply", "overdue", "unreported"})']_vars
  BY <1>1 DEF OnTime
<1> QED BY <1>2, TimelyAlways, PTL DEF Spec, FailedIsFinal

-----------------------------------------------------------------------------
(* The count of createExport.                                              *)

Counted == Never({"overlapping_creates", "lock_lost", "lost_reply", "overdue",
                  "unreported"})

\* One caller at most is between its count and its row, and while one is, there
\* is room for that row.
Room ==
    /\ Cardinality(InFlight) <= MaxConcurrent
    /\ Creating # {} => Cardinality(InFlight) < MaxConcurrent
    /\ \A e, f \in Creating : e = f

LEMMA InFlightFinite == /\ IsFiniteSet(InFlight) /\ Cardinality(InFlight) \in Nat
                        /\ MaxConcurrent \in Nat \ {0}
<1>1. IsFiniteSet(Exports) /\ InFlight \subseteq Exports
  BY ExportAssumption DEF InFlight
<1> QED BY <1>1, FS_Subset, FS_CardinalityType, ExportAssumption

LEMMA RoomStep ==
    ASSUME Base, Agreement, Timely, Room, [Next]_vars, Counted' PROVE Room'
<1>1. OnTime' /\ "overlapping_creates" \notin faults'
  BY DEF Counted, OnTime, Never
<1>2. ASSUME NEW e \in Exports, CreateRow(e) PROVE Room'
  <2>1. caller[e] = "create" /\ caller' = [caller EXCEPT ![e] = "enqueue"]
        /\ status' = [status EXCEPT ![e] = "QUEUED"]
    BY <1>2 DEF CreateRow, Call, SetStatus
  <2>2. Creating = {e}
    BY <2>1 DEF Room, Creating
  <2>3. Creating' = {}
    BY <2>1, <2>2 DEF Creating, Base, TypeOK
  <2>4. InFlight' = InFlight \cup {e}
    BY <2>1 DEF InFlight, Base, TypeOK
  <2>5. Cardinality(InFlight') <= Cardinality(InFlight) + 1
    <3>1. Cardinality(InFlight \cup {e}) =
             IF e \in InFlight THEN Cardinality(InFlight) ELSE Cardinality(InFlight) + 1
      BY InFlightFinite, FS_AddElement
    <3> QED BY <2>4, <3>1, InFlightFinite
  <2>6. IsFiniteSet(InFlight') /\ Cardinality(InFlight') \in Nat
    BY <2>4, InFlightFinite, FS_AddElement, FS_CardinalityType
  <2> QED BY <2>2, <2>3, <2>5, <2>6, InFlightFinite DEF Room
<1>3. ASSUME \A e \in Exports : ~CreateRow(e) PROVE InFlight' \subseteq InFlight
  <2>1. ASSUME NEW x \in Exports, status'[x] \in {"QUEUED", "RUNNING"}
        PROVE  status[x] \in {"QUEUED", "RUNNING"}
    BY <1>1, <1>3, <2>1, RowsEnd
  <2> QED BY <2>1 DEF InFlight
<1>4. ASSUME \A e \in Exports : ~CreateRow(e)
      PROVE  Cardinality(InFlight') <= Cardinality(InFlight) /\ Cardinality(InFlight') \in Nat
  BY <1>3, <1>4, InFlightFinite, FS_Subset, FS_CardinalityType
<1>5. ASSUME NEW e \in Exports, CountInFlight(e) PROVE Room'
  <2>1. Creating = {}
    BY <1>1, <1>5 DEF CountInFlight
  <2>2. UNCHANGED status /\ InFlight' = InFlight
    BY <1>5 DEF CountInFlight, rowVars, InFlight
  <2>3. caller' = [caller EXCEPT ![e] = IF Cardinality(InFlight) >= MaxConcurrent THEN "refused" ELSE "create"]
    BY <1>5 DEF CountInFlight, Call
  <2>4. CASE Cardinality(InFlight) >= MaxConcurrent
    <3>1. Creating' = {}
      BY <2>1, <2>3, <2>4 DEF Creating, Base, TypeOK
    <3> QED BY <2>2, <3>1 DEF Room
  <2>5. CASE ~(Cardinality(InFlight) >= MaxConcurrent)
    <3>1. Creating' = {e}
      BY <2>1, <2>3, <2>5 DEF Creating, Base, TypeOK
    <3>2. Cardinality(InFlight) < MaxConcurrent
      BY <2>5, InFlightFinite
    <3> QED BY <2>2, <3>1, <3>2 DEF Room
  <2> QED BY <2>4, <2>5
<1>6. ASSUME \A e \in Exports : ~CreateRow(e) /\ ~CountInFlight(e) PROVE Creating' \subseteq Creating
  <2>1. \/ UNCHANGED caller
        \/ \E e \in Exports, to \in {"accepted", "undo", "refused", "crashed"} :
              caller' = [caller EXCEPT ![e] = to]
    <3>1. ASSUME NEW e \in Exports, CreateExport(e)
          PROVE  \E to \in {"accepted", "undo", "refused"} : caller' = [caller EXCEPT ![e] = to]
      BY <1>6, <3>1 DEF CreateExport, EnqueueJob, EnqueueFails, UndoCreate, Call
    <3>2. ASSUME NEW w \in Workers, RunExport(w) PROVE UNCHANGED caller
      BY <3>2, RunWrites
    <3>3. Sweep => UNCHANGED caller
      BY SweepWrites
    <3> QED BY <3>1, <3>2, <3>3 DEF Next, vars, CallerCrashes, Redeliver, RetentionPasses, GrowStale, TakeJob,
               WorkerCrashes, LoseLock
  <2> QED BY <2>1 DEF Creating, Base, TypeOK
<1>7. ASSUME \A e \in Exports : ~CreateRow(e) /\ ~CountInFlight(e) PROVE Room'
  BY <1>4, <1>6, <1>7, InFlightFinite DEF Room
<1> QED BY <1>2, <1>5, <1>7

LEMMA RoomInit == Init => Room
<1> SUFFICES ASSUME Init PROVE Room
  OBVIOUS
<1>1. InFlight = {} /\ Creating = {}
  BY DEF Init, InFlight, Creating
<1> QED BY <1>1, FS_EmptySet, InFlightFinite DEF Room

\* ConcurrencyRespected: an organization never has more exports in flight than it
\* may, whatever the number of exports, workers, attempts, crashes and sweeps.
THEOREM ConcurrencyCorrect == Spec => []ConcurrencyRespected
<1> DEFINE Inv == Base /\ (OneWorker => Agreement) /\ (OnTime => Timely)
           RInv == Counted => Room
<1>1. ASSUME Inv, RInv, [Next]_vars, Counted' PROVE Room'
  <2>1. Agreement /\ Timely /\ Room
    BY <1>1, FaultsGrow DEF OneWorker, OnTime, Counted, Never
  <2> QED BY <1>1, <2>1, RoomStep
<1>2. Inv /\ RInv /\ [Next]_vars => RInv'
  BY <1>1
<1>3. Init => RInv
  BY RoomInit
<1>4. RInv => ConcurrencyRespected
  BY DEF Counted, Room, ConcurrencyRespected
<1> HIDE DEF Inv, RInv
<1>5. Spec => []Inv
  BY TimelyAlways DEF Inv
<1> QED BY <1>2, <1>3, <1>4, <1>5, PTL DEF Spec
=============================================================================
