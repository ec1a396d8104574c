----------------------- MODULE FileVerificationProofs -----------------------
(***************************************************************************)
(* Theorems about FileVerification, for any number of files and workers,   *)
(* any sizes and quota, and any set of events.                             *)
(***************************************************************************)
EXTENDS FileVerification, FiniteSetTheorems, TLAPS

Kinds == {"presign", "submission"}
Early == {"form", "quota", "create"}

\* Jobs exist only for issued URLs and are added once; the scheduled one runs
\* after the URL has expired; a job that is not over has an attempt left.
QueueInv ==
    /\ \A j \in Jobs : queue[j] \in {"none", "delayed", "waiting", "active"} => tries[j] < Attempts
    /\ \A f \in Files : ~claimed[f] => queue[<<"submission", f>>] = "none"
    /\ \A f \in Files : caller[f] # "issued" =>
          /\ \A k \in Kinds : queue[<<k, f>>] = "none"
          /\ ~claimed[f] /\ object[f] = Absent
    /\ \A f \in Files : caller[f] \in Early => status[f] = "none"
    /\ \A f \in Files : queue[<<"presign", f>>] \notin {"none", "delayed"} => ~usable[f]

Base == TypeOK /\ QueueInv

LEMMA JobParts ==
    /\ \A k \in Kinds, f \in Files : <<k, f>> \in Jobs
    /\ \A j \in Jobs : j[1] \in Kinds /\ j[2] \in Files /\ j = <<j[1], j[2]>>
BY DEF Jobs, Kinds

LEMMA AbsentShape == Absent \in [size : Nat, type : Types]
BY DEF Absent, Types

\* A worker that is not idle runs the active job of an issued URL.
LEMMA WorkerRuns ==
    ASSUME Base, NEW w \in Workers, wpc[w] # "idle"
    PROVE  /\ wjob[w] \in Jobs /\ queue[wjob[w]] = "active" /\ tries[wjob[w]] < Attempts
           /\ \A v \in Workers \ {w} : wjob[v] # wjob[w]
           /\ FileOf(w) \in Files /\ caller[FileOf(w)] = "issued"
           /\ wjob[w][1] = "presign" => ~usable[FileOf(w)]
<1>1. wjob[w] \in Jobs /\ queue[wjob[w]] = "active"
  BY DEF Base, TypeOK
<1>2. tries[wjob[w]] < Attempts
  BY <1>1 DEF Base, QueueInv
<1>3. wjob[w] # NoJob
  BY <1>1, UploadAssumption DEF Jobs
<1>4. \A v \in Workers \ {w} : wjob[v] # wjob[w]
  BY <1>3 DEF Base, TypeOK
<1>5. PICK k \in Kinds, f \in Files : wjob[w] = <<k, f>>
  BY <1>1, JobParts
<1>6. caller[f] = "issued"
  BY <1>1, <1>5 DEF Base, QueueInv
<1>7. k = "presign" => ~usable[f]
  BY <1>1, <1>5 DEF Base, QueueInv
<1> QED BY <1>1, <1>2, <1>4, <1>5, <1>6, <1>7 DEF FileOf

\* What an attempt that ends leaves of the jobs.
LEMMA EndKeeps ==
    ASSUME Base, UploadAssumption, NEW w \in Workers, wpc[w] # "idle",
           NEW threw \in BOOLEAN, EndAttempt(w, threw)
    PROVE  /\ queue' \in [Jobs -> {"none", "delayed", "waiting", "active", "done", "failed"}]
           /\ tries' \in [Jobs -> 0..Attempts]
           /\ wpc' \in [Workers -> {"idle", "read", "link", "stat", "delete", "quarantine", "commit", "done"}]
           /\ wjob' \in [Workers -> Jobs \cup {NoJob}]
           /\ found' \in [Workers -> [size : Nat, type : Types]]
           /\ \A v \in Workers : IF wpc'[v] = "idle" THEN wjob'[v] = NoJob
                                 ELSE wjob'[v] \in Jobs /\ queue'[wjob'[v]] = "active"
           /\ \A u, v \in Workers : wjob'[v] = wjob'[u] /\ u # v => wjob'[v] = NoJob
           /\ \A j \in Jobs : queue'[j] \in {"none", "delayed", "waiting", "active"} => tries'[j] < Attempts
           /\ \A j \in Jobs : queue'[j] = queue[j]
                 \/ (queue[j] = "active" /\ queue'[j] \in {"waiting", "done", "failed"})
           /\ \A v \in Workers \ {w} : wpc'[v] = wpc[v] /\ wjob'[v] = wjob[v] /\ found'[v] = found[v]
           /\ wpc'[w] = "idle"
           /\ \A j \in Jobs : j # wjob[w] => queue'[j] = queue[j]
           /\ threw => queue'[wjob[w]] # "done"
<1> DEFINE j == wjob[w]
           result == IF ~threw THEN "done"
                     ELSE IF tries[j] + 1 >= Attempts THEN "failed" ELSE "waiting"
<1>1. /\ wpc' = [wpc EXCEPT ![w] = "idle"] /\ wjob' = [wjob EXCEPT ![w] = NoJob]
      /\ found' = [found EXCEPT ![w] = Absent] /\ queue' = [queue EXCEPT ![j] = result]
      /\ tries' = IF threw THEN [tries EXCEPT ![j] = @ + 1] ELSE tries
  BY DEF EndAttempt
<1>2. /\ j \in Jobs /\ queue[j] = "active" /\ tries[j] < Attempts
      /\ \A v \in Workers \ {w} : wjob[v] # j
  BY WorkerRuns
<1>3. tries[j] \in Nat /\ Attempts \in Nat
  BY <1>2, UploadAssumption DEF Base, TypeOK
<1>4. tries[j] + 1 \in 0..Attempts
  BY <1>2, <1>3
<1>5. tries' \in [Jobs -> 0..Attempts]
  BY <1>1, <1>4 DEF Base, TypeOK
<1>6. result \in {"waiting", "done", "failed"} /\ (result = "waiting" => threw /\ tries[j] + 1 < Attempts)
      /\ (threw => result # "done")
  BY <1>3
<1> HIDE DEF result
<1>7. /\ queue' \in [Jobs -> {"none", "delayed", "waiting", "active", "done", "failed"}]
      /\ wpc' \in [Workers -> {"idle", "read", "link", "stat", "delete", "quarantine", "commit", "done"}]
      /\ wjob' \in [Workers -> Jobs \cup {NoJob}]
      /\ found' \in [Workers -> [size : Nat, type : Types]]
  BY <1>1, <1>6, AbsentShape DEF Base, TypeOK
<1>8. /\ wpc'[w] = "idle" /\ wjob'[w] = NoJob
      /\ \A v \in Workers \ {w} : wpc'[v] = wpc[v] /\ wjob'[v] = wjob[v] /\ found'[v] = found[v]
  BY <1>1 DEF Base, TypeOK
<1>9. queue'[j] = result /\ \A k \in Jobs \ {j} : queue'[k] = queue[k] /\ tries'[k] = tries[k]
  BY <1>1, <1>2 DEF Base, TypeOK
<1>10. ASSUME NEW v \in Workers
       PROVE  IF wpc'[v] = "idle" THEN wjob'[v] = NoJob
              ELSE wjob'[v] \in Jobs /\ queue'[wjob'[v]] = "active"
  BY <1>2, <1>8, <1>9 DEF Base, TypeOK
<1>11. \A u, v \in Workers : wjob'[v] = wjob'[u] /\ u # v => wjob'[v] = NoJob
  BY <1>2, <1>8 DEF Base, TypeOK
<1>12. ASSUME NEW k \in Jobs, queue'[k] \in {"none", "delayed", "waiting", "active"}
       PROVE  tries'[k] < Attempts
  <2>1. CASE k = j
    <3>1. threw /\ tries[j] + 1 < Attempts
      BY <1>6, <1>9, <1>12, <2>1
    <3>2. tries'[j] = tries[j] + 1
      BY <1>1, <1>2, <3>1 DEF Base, TypeOK
    <3> QED BY <2>1, <3>1, <3>2
  <2>2. CASE k # j
    BY <1>9, <1>12, <2>2 DEF Base, QueueInv
  <2> QED BY <2>1, <2>2
<1> QED BY <1>2, <1>5, <1>6, <1>7, <1>8, <1>9, <1>10, <1>11, <1>12
-----------------------------------------------------------------------------
(* Base is an invariant.                                                   *)

LEMMA BaseInit ==
    ASSUME UploadAssumption, Init PROVE Base
<1>1. TypeOK
  BY AbsentShape DEF Init, TypeOK, UploadAssumption, Jobs
<1>2. QueueInv
  <2>1. \A j \in Jobs : queue[j] = "none" /\ tries[j] = 0
    BY DEF Init
  <2>2. \A f \in Files : \A k \in Kinds : queue[<<k, f>>] = "none"
    BY <2>1, JobParts
  <2>3. \A f \in Files : caller[f] = "form" /\ ~claimed[f] /\ object[f] = Absent /\ status[f] = "none"
    BY DEF Init
  <2>4. 0 < Attempts
    BY UploadAssumption
  <2> QED BY <2>1, <2>2, <2>3, <2>4 DEF QueueInv, Kinds
<1> QED BY <1>1, <1>2 DEF Base

LEMMA BaseFile ==
    ASSUME Base, UploadAssumption, NEW f \in Files,
           GeneratePresignedUrl(f) \/ Upload(f) \/ ExpireUrl(f) \/ ClaimFile(f) \/ VerifyIsDue(f)
    PROVE  Base'
<1>0. <<"presign", f>> \in Jobs /\ <<"submission", f>> \in Jobs
  BY DEF Jobs
<1>1. ASSUME ReadForm(f) \/ CheckQuota(f) PROVE Base'
  <2>1. PICK from \in Early, to \in {"quota", "create", "refused"} : Call(f, from, to)
    BY <1>1 DEF ReadForm, CheckQuota, Early
  <2>2. /\ UNCHANGED <<rowVars, clientVars, jobVars, workerVars>>
        /\ seenUsed' = seenUsed \/ seenUsed' = [seenUsed EXCEPT ![f] = used]
    BY <1>1 DEF ReadForm, CheckQuota
  <2>3. caller' = [caller EXCEPT ![f] = to] /\ caller[f] = from
    BY <2>1 DEF Call
  <2>4. TypeOK'
    BY <2>2, <2>3 DEF Base, TypeOK, rowVars, clientVars, jobVars, workerVars
  <2>5. QueueInv'
    BY <2>2, <2>3 DEF Base, TypeOK, QueueInv, Early, rowVars, clientVars, jobVars
  <2> QED BY <2>4, <2>5 DEF Base
<1>2. ASSUME CreateRow(f) PROVE Base'
  <2>1. /\ caller[f] = "create" /\ caller' = [caller EXCEPT ![f] = "schedule"]
        /\ status' = [status EXCEPT ![f] = "PENDING_UPLOAD"]
        /\ bytes' = [bytes EXCEPT ![f] = Declared[f]]
        /\ usable' = [usable EXCEPT ![f] = TRUE]
        /\ UNCHANGED <<seenUsed, linked, used, charges, overruled, object, claimed, jobVars, workerVars>>
    BY <1>2 DEF CreateRow, Call
  <2>2. Declared[f] \in Nat
    BY UploadAssumption DEF UploadAssumption
  <2>3. TypeOK'
    BY <2>1, <2>2 DEF Base, TypeOK, Verdicts, jobVars, workerVars
  <2>4. queue[<<"presign", f>>] = "none"
    BY <2>1 DEF Base, QueueInv, Kinds
  <2>5. QueueInv'
    BY <2>1, <2>4 DEF Base, TypeOK, QueueInv, Early, jobVars
  <2> QED BY <2>3, <2>5 DEF Base
<1>3. ASSUME ScheduleVerify(f) PROVE Base'
  <2>1. PICK to \in {"issued", "refused"} :
          /\ caller[f] = "schedule" /\ caller' = [caller EXCEPT ![f] = to]
          /\ queue' = IF to = "issued" THEN [queue EXCEPT ![<<"presign", f>>] = "delayed"] ELSE queue
          /\ UNCHANGED <<seenUsed, rowVars, clientVars, tries, workerVars>>
    BY <1>3 DEF ScheduleVerify, Call
  <2>2. queue[<<"presign", f>>] = "none"
    BY <2>1 DEF Base, QueueInv, Kinds
  <2>3. \A w \in Workers : wpc[w] # "idle" => wjob[w] # <<"presign", f>>
    BY <2>2 DEF Base, TypeOK
  <2>4. TypeOK'
    BY <1>0, <2>1, <2>3 DEF Base, TypeOK, rowVars, clientVars, workerVars
  <2>5. QueueInv'
    <3>1. \A j \in Jobs : queue'[j] \in {"none", "delayed", "waiting", "active"} => tries[j] < Attempts
      BY <1>0, <2>1, <2>2 DEF Base, TypeOK, QueueInv
    <3>2. \A g \in Files : <<"submission", g>> # <<"presign", f>> /\ <<"submission", g>> \in Jobs
                           /\ <<"presign", g>> \in Jobs
      BY JobParts DEF Kinds
    <3>3. \A g \in Files : queue'[<<"submission", g>>] = queue[<<"submission", g>>]
      BY <2>1, <3>2 DEF Base, TypeOK
    <3>4. \A g \in Files : caller'[g] # "issued" =>
             /\ caller[g] # "issued" /\ queue'[<<"presign", g>>] = queue[<<"presign", g>>]
             /\ caller'[g] \in Early => caller[g] \in Early
      BY <2>1, <3>2 DEF Base, TypeOK, Early
    <3>5. \A g \in Files : queue'[<<"presign", g>>] = queue[<<"presign", g>>]
                           \/ queue'[<<"presign", g>>] = "delayed"
      BY <2>1, <3>2 DEF Base, TypeOK
    <3>6. \A g \in Files : caller'[g] \in Early => caller'[g] # "issued"
      BY DEF Early
    <3> QED BY <2>1, <3>1, <3>3, <3>4, <3>5, <3>6 DEF Base, QueueInv, rowVars, clientVars, Kinds
  <2> QED BY <2>4, <2>5 DEF Base
<1>4. ASSUME Upload(f) PROVE Base'
  <2>1. PICK n \in Nat, type \in Types : object' = [object EXCEPT ![f] = [size |-> n, type |-> type]]
    <3>1. Declared[f] \in Nat /\ Sizes \subseteq Nat
      BY UploadAssumption
    <3>2. PICK n \in Sizes \cup {Declared[f]},
               type \in Types \ {t \in {"other"} : "wrong_type" \notin Events} :
             object' = [object EXCEPT ![f] = [size |-> n, type |-> type]]
      BY <1>4 DEF Upload
    <3>3. n \in Nat /\ type \in Types
      BY <3>1, <3>2
    <3> QED BY <3>2, <3>3
  <2>2. caller[f] = "issued" /\ UNCHANGED <<callVars, rowVars, usable, claimed, jobVars, workerVars>>
    BY <1>4 DEF Upload
  <2>3. TypeOK'
    BY <2>1, <2>2 DEF Base, TypeOK, callVars, rowVars, jobVars, workerVars
  <2>4. QueueInv'
    BY <2>1, <2>2 DEF Base, TypeOK, QueueInv, callVars, rowVars, jobVars
  <2> QED BY <2>3, <2>4 DEF Base
<1>5. ASSUME ExpireUrl(f) PROVE Base'
  <2>1. usable' = [usable EXCEPT ![f] = FALSE]
        /\ UNCHANGED <<callVars, rowVars, object, claimed, jobVars, workerVars>>
    BY <1>5 DEF ExpireUrl
  <2>2. TypeOK'
    BY <2>1 DEF Base, TypeOK, callVars, rowVars, jobVars, workerVars
  <2>3. QueueInv'
    BY <2>1 DEF Base, TypeOK, QueueInv, callVars, rowVars, jobVars
  <2> QED BY <2>2, <2>3 DEF Base
<1>6. ASSUME ClaimFile(f) PROVE Base'
  <2>1. /\ caller[f] = "issued" /\ ~claimed[f] /\ claimed' = [claimed EXCEPT ![f] = TRUE]
        /\ linked' = linked \/ linked' = [linked EXCEPT ![f] = TRUE]
        /\ queue' = queue \/ queue' = [queue EXCEPT ![<<"submission", f>>] = "waiting"]
        /\ UNCHANGED <<callVars, status, bytes, used, charges, overruled, usable, object, tries, workerVars>>
    BY <1>6 DEF ClaimFile
  <2>2. queue[<<"submission", f>>] = "none"
    BY <2>1 DEF Base, QueueInv
  <2>3. \A w \in Workers : wpc[w] # "idle" => wjob[w] # <<"submission", f>>
    BY <2>2 DEF Base, TypeOK
  <2>4. TypeOK'
    <3>0. claimed' \in [Files -> BOOLEAN] /\ linked' \in [Files -> BOOLEAN]
      BY <2>1 DEF Base, TypeOK
    <3>1. queue' \in [Jobs -> {"none", "delayed", "waiting", "active", "done", "failed"}]
      BY <2>1 DEF Base, TypeOK
    <3>2. UNCHANGED <<caller, seenUsed, wpc, wjob, found>>
      BY <2>1 DEF callVars, workerVars
    <3>3. \A w \in Workers : IF wpc'[w] = "idle" THEN wjob'[w] = NoJob
                             ELSE wjob'[w] \in Jobs /\ queue'[wjob'[w]] = "active"
      BY <2>1, <2>3, <3>2 DEF Base, TypeOK
    <3> QED BY <2>1, <3>0, <3>1, <3>2, <3>3 DEF Base, TypeOK
  <2>5. QueueInv'
    <3>1. \A j \in Jobs : queue'[j] \in {"none", "delayed", "waiting", "active"} => tries[j] < Attempts
      BY <1>0, <2>1, <2>2 DEF Base, TypeOK, QueueInv
    <3>2. \A g \in Files : <<"presign", g>> # <<"submission", f>> /\ <<"presign", g>> \in Jobs
                           /\ <<"submission", g>> \in Jobs
      BY JobParts DEF Kinds
    <3>3. \A g \in Files : queue'[<<"presign", g>>] = queue[<<"presign", g>>]
      BY <2>1, <3>2 DEF Base, TypeOK
    <3>4. \A g \in Files : g # f => /\ queue'[<<"submission", g>>] = queue[<<"submission", g>>]
                                    /\ claimed'[g] = claimed[g]
      BY <2>1, <3>2 DEF Base, TypeOK
    <3>5. claimed'[f]
      BY <2>1 DEF Base, TypeOK
    <3> QED BY <2>1, <3>1, <3>3, <3>4, <3>5 DEF Base, QueueInv, callVars, Kinds
  <2> QED BY <2>4, <2>5 DEF Base
<1>7. ASSUME VerifyIsDue(f) PROVE Base'
  <2>1. /\ queue[<<"presign", f>>] = "delayed" /\ ~usable[f]
        /\ queue' = [queue EXCEPT ![<<"presign", f>>] = "waiting"]
        /\ UNCHANGED <<callVars, rowVars, clientVars, tries, workerVars>>
    BY <1>7 DEF VerifyIsDue
  <2>2. \A w \in Workers : wpc[w] # "idle" => wjob[w] # <<"presign", f>>
    BY <2>1 DEF Base, TypeOK
  <2>3. TypeOK'
    BY <1>0, <2>1, <2>2 DEF Base, TypeOK, callVars, rowVars, clientVars, workerVars
  <2>4. QueueInv'
    <3>1. \A j \in Jobs : queue'[j] \in {"none", "delayed", "waiting", "active"} => tries[j] < Attempts
      BY <1>0, <2>1 DEF Base, TypeOK, QueueInv
    <3>2. \A g \in Files : \A k \in Kinds : queue'[<<k, g>>] = queue[<<k, g>>] \/ (g = f /\ k = "presign")
      BY <1>0, <2>1, JobParts DEF Base, TypeOK
    <3>3. caller[f] = "issued"
      BY <2>1 DEF Base, QueueInv, Kinds
    <3> QED BY <2>1, <3>1, <3>2, <3>3 DEF Base, QueueInv, callVars, rowVars, clientVars, Kinds
  <2> QED BY <2>3, <2>4 DEF Base
<1> QED BY <1>1, <1>2, <1>3, <1>4, <1>5, <1>6, <1>7 DEF GeneratePresignedUrl

\* A step that moves jobs which are not over, and no call, object or URL, keeps
\* QueueInv.
LEMMA QueueKept ==
    ASSUME Base, UNCHANGED <<caller, claimed, object, usable>>,
           \A j \in Jobs : queue'[j] \in {"none", "delayed", "waiting", "active"} => tries'[j] < Attempts,
           \A j \in Jobs : queue'[j] = queue[j] \/ queue[j] \in {"waiting", "active"},
           \A f \in Files : caller[f] # "issued" => status'[f] = status[f]
    PROVE  QueueInv'
<1>1. \A f \in Files : \A k \in Kinds : <<k, f>> \in Jobs
  BY JobParts
<1>2. \A f \in Files : caller[f] \in Early => caller[f] # "issued"
  BY DEF Early
<1>3. \A f \in Files : ~claimed'[f] => queue'[<<"submission", f>>] = "none"
  BY <1>1 DEF Base, QueueInv, Kinds
<1>4. \A f \in Files : caller'[f] # "issued" =>
        /\ \A k \in Kinds : queue'[<<k, f>>] = "none"
        /\ ~claimed'[f] /\ object'[f] = Absent
  BY <1>1 DEF Base, QueueInv
<1>5. \A f \in Files : caller'[f] \in Early => status'[f] = "none"
  BY <1>2 DEF Base, QueueInv
<1>6. \A f \in Files : queue'[<<"presign", f>>] \notin {"none", "delayed"} => ~usable'[f]
  BY <1>1 DEF Base, QueueInv, Kinds
<1> QED BY <1>3, <1>4, <1>5, <1>6 DEF QueueInv

LEMMA BaseWorker ==
    ASSUME Base, UploadAssumption, NEW w \in Workers,
           Verify(w) \/ AttemptFails(w) \/ \E j \in Jobs : TakeJob(w, j)
    PROVE  Base'
<1>0. wpc[w] # "idle" => FileOf(w) \in Files /\ caller[FileOf(w)] = "issued"
  BY WorkerRuns
<1>1. ASSUME NEW j \in Jobs, TakeJob(w, j) PROVE Base'
  <2>1. /\ queue[j] = "waiting" /\ wpc[w] = "idle" /\ wpc' = [wpc EXCEPT ![w] = "read"]
        /\ queue' = [queue EXCEPT ![j] = "active"] /\ wjob' = [wjob EXCEPT ![w] = j]
        /\ UNCHANGED <<callVars, rowVars, clientVars, tries, found>>
    BY <1>1 DEF TakeJob, Goto
  <2>2. \A v \in Workers : wpc[v] # "idle" => wjob[v] # j
    BY <2>1 DEF Base, TypeOK
  <2>3. j # NoJob
    BY UploadAssumption DEF UploadAssumption, Jobs
  <2>4. \A v \in Workers \ {w} : wpc'[v] = wpc[v] /\ wjob'[v] = wjob[v] /\ wjob[v] # j
    BY <2>1, <2>2, <2>3 DEF Base, TypeOK
  <2>5. wpc'[w] = "read" /\ wjob'[w] = j /\ queue'[j] = "active"
    BY <2>1 DEF Base, TypeOK
  <2>6. \A v \in Workers : IF wpc'[v] = "idle" THEN wjob'[v] = NoJob
                           ELSE wjob'[v] \in Jobs /\ queue'[wjob'[v]] = "active"
    BY <2>1, <2>4, <2>5 DEF Base, TypeOK
  <2>7. \A u, v \in Workers : wjob'[v] = wjob'[u] /\ u # v => wjob'[v] = NoJob
    BY <2>4, <2>5 DEF Base, TypeOK
  <2>8. TypeOK'
    BY <2>1, <2>6, <2>7 DEF Base, TypeOK, callVars, rowVars, clientVars
  <2>9. QueueInv'
    <3>1. \A k \in Jobs : queue'[k] \in {"none", "delayed", "waiting", "active"} => tries'[k] < Attempts
      BY <2>1 DEF Base, TypeOK, QueueInv
    <3>2. \A k \in Jobs : queue'[k] = queue[k] \/ queue[k] \in {"waiting", "active"}
      BY <2>1 DEF Base, TypeOK
    <3>3. UNCHANGED <<caller, claimed, object, usable, status>>
      BY <2>1 DEF callVars, rowVars, clientVars
    <3> QED BY <3>1, <3>2, <3>3, QueueKept
  <2> QED BY <2>8, <2>9 DEF Base
<1>2. ASSUME ReadFile(w) \/ StatObject(w) PROVE Base'
  <2>1. PICK to \in {"link", "stat", "delete", "quarantine", "commit"} :
          wpc[w] # "idle" /\ wpc' = [wpc EXCEPT ![w] = to]
    BY <1>2 DEF ReadFile, StatObject, Goto
  <2>2. UNCHANGED <<jobVars, wjob, callVars, rowVars, clientVars>>
    BY <1>2 DEF ReadFile, StatObject, KeepJob
  <2>3. found' \in [Workers -> [size : Nat, type : Types]]
    <3>1. object[FileOf(w)] \in [size : Nat, type : Types]
      BY <1>0, <2>1 DEF Base, TypeOK
    <3>2. found' = found \/ found' = [found EXCEPT ![w] = object[FileOf(w)]]
      BY <1>2 DEF ReadFile, StatObject, KeepJob
    <3> QED BY <3>1, <3>2 DEF Base, TypeOK
  <2>4. TypeOK'
    BY <2>1, <2>2, <2>3 DEF Base, TypeOK, jobVars, callVars, rowVars, clientVars
  <2>5. QueueInv'
    BY <2>2 DEF Base, QueueInv, jobVars, callVars, rowVars, clientVars
  <2> QED BY <2>4, <2>5 DEF Base
<1>3. ASSUME wpc[w] # "idle", NEW threw \in BOOLEAN, EndAttempt(w, threw),
             UNCHANGED <<callVars, rowVars, clientVars>>
      PROVE  Base'
  <2>1. /\ queue' \in [Jobs -> {"none", "delayed", "waiting", "active", "done", "failed"}]
        /\ tries' \in [Jobs -> 0..Attempts]
        /\ wpc' \in [Workers -> {"idle", "read", "link", "stat", "delete", "quarantine", "commit", "done"}]
        /\ wjob' \in [Workers -> Jobs \cup {NoJob}]
        /\ found' \in [Workers -> [size : Nat, type : Types]]
        /\ \A v \in Workers : IF wpc'[v] = "idle" THEN wjob'[v] = NoJob
                              ELSE wjob'[v] \in Jobs /\ queue'[wjob'[v]] = "active"
        /\ \A u, v \in Workers : wjob'[v] = wjob'[u] /\ u # v => wjob'[v] = NoJob
        /\ \A j \in Jobs : queue'[j] \in {"none", "delayed", "waiting", "active"} => tries'[j] < Attempts
        /\ \A j \in Jobs : queue'[j] = queue[j] \/ queue[j] \in {"waiting", "active"}
    BY <1>3, EndKeeps
  <2>2. TypeOK'
    BY <1>3, <2>1 DEF Base, TypeOK, callVars, rowVars, clientVars
  <2>3. QueueInv'
    BY <1>3, <2>1, QueueKept DEF callVars, rowVars, clientVars
  <2> QED BY <2>2, <2>3 DEF Base
<1>4. ASSUME AttemptFails(w) \/ CompleteJob(w) PROVE Base'
  BY <1>3, <1>4 DEF AttemptFails, CompleteJob
<1>f. ASSUME NEW from \in {"link", "delete", "quarantine", "commit"}, Finish(w, from),
             UNCHANGED <<callVars, clientVars>>,
             used' \in Nat, bytes' \in [Files -> Nat], charges' \in [Files -> Nat],
             linked' \in [Files -> BOOLEAN], overruled' \subseteq Settled,
             status' = status \/ \E v \in Verdicts : status' = [status EXCEPT ![FileOf(w)] = v]
      PROVE  Base'
  <2>1. /\ wpc[w] # "idle" /\ wpc' = [wpc EXCEPT ![w] = "done"]
        /\ found' = [found EXCEPT ![w] = Absent] /\ UNCHANGED <<queue, tries, wjob>>
    BY <1>f DEF Finish, Goto, jobVars
  <2>2. status' \in [Files -> Verdicts \cup {"none"}]
    BY <1>f DEF Base, TypeOK
  <2>3. \A f \in Files : caller[f] # "issued" => status'[f] = status[f]
    BY <1>0, <1>f, <2>1 DEF Base, TypeOK
  <2>4. found' \in [Workers -> [size : Nat, type : Types]]
    BY <2>1, AbsentShape DEF Base, TypeOK
  <2>5. TypeOK'
    BY <1>f, <2>1, <2>2, <2>4 DEF Base, TypeOK, callVars, clientVars
  <2>6. QueueInv'
    <3>1. \A j \in Jobs : queue'[j] \in {"none", "delayed", "waiting", "active"} => tries'[j] < Attempts
      BY <2>1 DEF Base, QueueInv
    <3> QED BY <1>f, <2>1, <2>3, <3>1, QueueKept DEF callVars, clientVars
  <2> QED BY <2>5, <2>6 DEF Base
<1>p. ASSUME NEW from \in {"link", "delete", "quarantine", "commit"}, Finish(w, from)
      PROVE  wpc[w] # "idle"
  BY <1>p DEF Finish, Goto
<1>5. ASSUME LinkVerified(w) PROVE Base'
  <2>1. Finish(w, "link") /\ UNCHANGED <<callVars, clientVars>>
    BY <1>5 DEF LinkVerified
  <2>2. \A b \in BOOLEAN : linked[FileOf(w)] \/ b \in BOOLEAN
    OBVIOUS
  <2>3. linked' \in [Files -> BOOLEAN]
    BY <1>5 DEF LinkVerified, Base, TypeOK
  <2>4. /\ used' \in Nat /\ bytes' \in [Files -> Nat] /\ charges' \in [Files -> Nat]
        /\ overruled' \subseteq Settled /\ status' = status
    BY <1>5 DEF LinkVerified, Base, TypeOK
  <2> QED BY <1>f, <2>1, <2>3, <2>4
<1>6. ASSUME MarkDeleted(w) \/ Quarantine(w) PROVE Base'
  <2>1. /\ \E from \in {"delete", "quarantine"} : Finish(w, from)
        /\ UNCHANGED <<callVars, clientVars>>
        /\ UNCHANGED <<linked, used, charges>>
        /\ \E v \in Verdicts : status' = [status EXCEPT ![FileOf(w)] = v]
        /\ overruled' = overruled \cup ({<<status[FileOf(w)], FileOf(w)>>} \cap Settled)
        /\ bytes' = bytes \/ bytes' = [bytes EXCEPT ![FileOf(w)] = found[w].size]
    BY <1>6 DEF MarkDeleted, Quarantine, Overrule, Verdicts
  <2>2. found[w] \in [size : Nat, type : Types]
    BY DEF Base, TypeOK
  <2>3. bytes' \in [Files -> Nat]
    BY <2>1, <2>2 DEF Base, TypeOK
  <2>4. /\ used' \in Nat /\ charges' \in [Files -> Nat]
        /\ linked' \in [Files -> BOOLEAN] /\ overruled' \subseteq Settled
    BY <2>1 DEF Base, TypeOK
  <2> QED BY <1>f, <2>1, <2>3, <2>4
<1>7. ASSUME CommitVerified(w) PROVE Base'
  <2>1. Finish(w, "commit") /\ UNCHANGED <<callVars, clientVars, overruled>>
    BY <1>7 DEF CommitVerified
  <2>2. found[w] \in [size : Nat, type : Types]
    BY DEF Base, TypeOK
  <2>3. /\ linked' \in [Files -> BOOLEAN]
        /\ used' \in Nat /\ bytes' \in [Files -> Nat] /\ charges' \in [Files -> Nat]
    <3>1. linked' = [linked EXCEPT ![FileOf(w)] = @ \/ ForSubmission(w)]
      BY <1>7 DEF CommitVerified
    <3>2. /\ used' = used \/ used' = used + found[w].size
          /\ bytes' = bytes \/ bytes' = [bytes EXCEPT ![FileOf(w)] = found[w].size]
          /\ charges' = charges \/ charges' = [charges EXCEPT ![FileOf(w)] = @ + 1]
      BY <1>7 DEF CommitVerified
    <3>3. ForSubmission(w) \in BOOLEAN
      BY DEF ForSubmission
    <3>4. linked' \in [Files -> BOOLEAN]
      BY <3>1, <3>3 DEF Base, TypeOK
    <3>5. used \in Nat /\ used + found[w].size \in Nat
      BY <2>2 DEF Base, TypeOK
    <3>6. used' \in Nat
      BY <3>2, <3>5
    <3>7. bytes' \in [Files -> Nat] /\ charges' \in [Files -> Nat]
      <4>1. FileOf(w) \in Files
        BY <1>0, <1>p, <2>1
      <4>2. charges \in [Files -> Nat] /\ bytes \in [Files -> Nat] /\ found[w].size \in Nat
        BY <2>2 DEF Base, TypeOK
      <4> QED BY <3>2, <4>1, <4>2
    <3> QED BY <3>4, <3>6, <3>7
  <2>4. status' = status \/ \E v \in Verdicts : status' = [status EXCEPT ![FileOf(w)] = v]
    BY <1>7 DEF CommitVerified, Verdicts
  <2> QED BY <1>f, <2>1, <2>3, <2>4 DEF Base, TypeOK
<1> QED BY <1>1, <1>2, <1>4, <1>5, <1>6, <1>7 DEF Verify

LEMMA BaseStep ==
    ASSUME Base, UploadAssumption, [Next]_vars PROVE Base'
<1>1. ASSUME UNCHANGED vars PROVE Base'
  <2>1. TypeOK'
    BY <1>1 DEF Base, TypeOK, vars, callVars, rowVars, clientVars, jobVars, workerVars
  <2>2. QueueInv'
    BY <1>1 DEF Base, QueueInv, vars, callVars, rowVars, clientVars, jobVars, workerVars
  <2> QED BY <2>1, <2>2 DEF Base
<1> QED BY <1>1, BaseFile, BaseWorker DEF Next

\* The types, and which worker runs which job, hold in every run.
THEOREM BaseAlways == Spec => []Base
<1>1. Init => Base
  BY UploadAssumption, BaseInit
<1>2. Base /\ [Next]_vars => Base'
  BY UploadAssumption, BaseStep
<1> QED BY <1>1, <1>2, PTL DEF Spec

\* The types hold, and no job is run by two workers.
THEOREM TypeCorrect == Spec => []TypeOK
<1>1. Base => TypeOK
  BY DEF Base
<1> QED BY <1>1, BaseAlways, PTL
-----------------------------------------------------------------------------
(* What a worker found, and what became of it.                             *)

Late(f) == Happened({"upload_late"}, f)
On(w, f) == wjob[w][2] = f

VerdictOf(f) ==
    IF object[f] = Absent THEN "DELETED"
    ELSE IF Refused(object[f]) THEN "QUARANTINED" ELSE "VERIFIED"

\* The scheduled job has written its verdict.
Judged(f) ==
    \/ queue[<<"presign", f>>] = "done"
    \/ \E w \in Workers : wpc[w] = "done" /\ wjob[w] = <<"presign", f>>

\* No fault and no older reading blurs the verdict on f.
Clear(f) ==
    /\ ~Happened({"storage_error", "upload_late"}, f)
    /\ \A v \in Verdicts : <<v, f>> \notin overruled

\* What a worker is about to write is of an object that is there; a worker that
\* passed it, or that runs the scheduled job, has read the object as it is,
\* unless the client uploaded again after a check.
FoundFits(w, f) ==
    wpc[w] \in {"commit", "quarantine"} /\ On(w, f) =>
        /\ found[w] # Absent /\ object[f] # Absent
        /\ Refused(found[w]) <=> wpc[w] = "quarantine"
        /\ wpc[w] = "commit" \/ wjob[w] = <<"presign", f>> => Late(f) \/ object[f] = found[w]

\* So does a verified row.
RowFits(f) ==
    status[f] = "VERIFIED" /\ ~Late(f) =>
        object[f] # Absent /\ ~Refused(object[f]) /\ object[f].size = bytes[f]

\* The scheduled job sees what is final; a worker that found the row verified
\* leaves it so; and once the scheduled job is done, the verdict is final.
FinalFits(w, f) ==
    wpc[w] = "delete" /\ wjob[w] = <<"presign", f>> /\ Clear(f) => object[f] = Absent
LinkFits(w, f) ==
    wpc[w] = "link" /\ On(w, f) /\ <<"VERIFIED", f>> \notin overruled => status[f] = "VERIFIED"
VerdictFits(f) ==
    Judged(f) /\ Clear(f) => status[f] = VerdictOf(f)

JudgeInv ==
    /\ \A w \in Workers, f \in Files : FoundFits(w, f) /\ FinalFits(w, f) /\ LinkFits(w, f)
    /\ \A f \in Files : RowFits(f) /\ VerdictFits(f)

\* Faults and withdrawn verdicts are only ever added.
Grows == faults \subseteq faults' /\ overruled \subseteq overruled'

LEMMA StepGrows == [Next]_vars => Grows
<1>1. \A f \in Files : GeneratePresignedUrl(f) \/ Upload(f) \/ ExpireUrl(f) \/ ClaimFile(f)
                       \/ VerifyIsDue(f) => Grows
  BY DEF GeneratePresignedUrl, ReadForm, CheckQuota, CreateRow, ScheduleVerify, Upload, ExpireUrl,
         ClaimFile, VerifyIsDue, Grows, Occurs, Occur, rowVars
<1>2. \A w \in Workers : Verify(w) \/ AttemptFails(w) \/ (\E j \in Jobs : TakeJob(w, j)) => Grows
  BY DEF Verify, ReadFile, LinkVerified, StatObject, MarkDeleted, Quarantine, CommitVerified, CompleteJob,
         Overrule, AttemptFails, TakeJob, Grows, Occurs, Occur, rowVars
<1>3. UNCHANGED vars => Grows
  BY DEF vars, rowVars, Grows
<1> QED BY <1>1, <1>2, <1>3 DEF Next

LEMMA GrowsClears ==
    ASSUME Grows, NEW f
    PROVE  /\ Late(f) => Late(f)'
           /\ Clear(f)' => Clear(f)
           /\ <<"VERIFIED", f>> \notin overruled' => <<"VERIFIED", f>> \notin overruled
BY DEF Grows, Late, Clear, Happened

\* What the step leaves as it is keeps what is known of it.
SameWorker(w) == wpc'[w] = wpc[w] /\ wjob'[w] = wjob[w] /\ found'[w] = found[w]
SameFile(f) == status'[f] = status[f] /\ bytes'[f] = bytes[f] /\ object'[f] = object[f]

LEMMA SameKeeps ==
    ASSUME Grows, JudgeInv, NEW f \in Files
    PROVE  /\ \A w \in Workers : SameWorker(w) /\ object'[f] = object[f] =>
                 FoundFits(w, f)' /\ FinalFits(w, f)'
           /\ \A w \in Workers : SameWorker(w) /\ status'[f] = status[f] => LinkFits(w, f)'
           /\ SameFile(f) => RowFits(f)'
           /\ SameFile(f) /\ (Judged(f)' => Judged(f)) => VerdictFits(f)'
<1>1. ASSUME NEW w \in Workers, SameWorker(w), object'[f] = object[f]
      PROVE  FoundFits(w, f)' /\ FinalFits(w, f)'
  <2>1. FoundFits(w, f) /\ FinalFits(w, f)
    BY DEF JudgeInv
  <2>2. FoundFits(w, f)'
    BY <1>1, <2>1, GrowsClears DEF SameWorker, FoundFits, On, Refused
  <2>3. FinalFits(w, f)'
    BY <1>1, <2>1, GrowsClears DEF SameWorker, FinalFits
  <2> QED BY <2>2, <2>3
<1>2. ASSUME NEW w \in Workers, SameWorker(w), status'[f] = status[f] PROVE LinkFits(w, f)'
  <2>1. LinkFits(w, f)
    BY DEF JudgeInv
  <2> QED BY <1>2, <2>1, GrowsClears DEF SameWorker, LinkFits, On
<1>3. ASSUME SameFile(f) PROVE RowFits(f)'
  <2>1. RowFits(f)
    BY DEF JudgeInv
  <2> QED BY <1>3, <2>1, GrowsClears DEF SameFile, RowFits, Refused
<1>4. ASSUME SameFile(f), Judged(f)' => Judged(f)
      PROVE  VerdictFits(f)'
  <2>1. VerdictFits(f)
    BY DEF JudgeInv
  <2>2. VerdictOf(f)' = VerdictOf(f)
    BY <1>4 DEF VerdictOf, Refused, SameFile
  <2> QED BY <1>4, <2>1, <2>2, GrowsClears DEF SameFile, VerdictFits
<1> QED BY <1>1, <1>2, <1>3, <1>4

\* A worker is idle or at a step that writes nothing.
LEMMA QuietFits ==
    ASSUME NEW w, NEW f, wpc'[w] \in {"idle", "read", "stat", "done"}
    PROVE  FoundFits(w, f)' /\ FinalFits(w, f)' /\ LinkFits(w, f)'
BY DEF FoundFits, FinalFits, LinkFits

\* A verdict counts once it is written, and still when the job is reported done.
LEMMA JudgedSame ==
    ASSUME NEW f, \A w \in Workers : SameWorker(w),
           queue'[<<"presign", f>>] = "done" => queue[<<"presign", f>>] = "done"
    PROVE  Judged(f)' => Judged(f)
BY DEF Judged, SameWorker

LEMMA JudgeFile ==
    ASSUME Base, UploadAssumption, JudgeInv, Grows, NEW f \in Files,
           GeneratePresignedUrl(f) \/ Upload(f) \/ ExpireUrl(f) \/ ClaimFile(f) \/ VerifyIsDue(f)
    PROVE  JudgeInv'
<1>0. \A g \in Files : <<"presign", g>> \in Jobs /\ <<"submission", g>> \in Jobs
                       /\ <<"submission", g>> # <<"presign", f>> /\ <<"presign", g>> # <<"submission", f>>
  BY JobParts DEF Kinds
<1>w. \A w \in Workers : SameWorker(w)
  BY DEF GeneratePresignedUrl, ReadForm, CheckQuota, CreateRow, ScheduleVerify, Upload, ExpireUrl,
         ClaimFile, VerifyIsDue, workerVars, SameWorker
<1>1. ASSUME ReadForm(f) \/ CheckQuota(f) \/ ScheduleVerify(f) \/ ExpireUrl(f) \/ ClaimFile(f) \/ VerifyIsDue(f)
      PROVE  JudgeInv'
  <2>1. \A g \in Files : SameFile(g)
    BY <1>1 DEF ReadForm, CheckQuota, ScheduleVerify, ExpireUrl, ClaimFile, VerifyIsDue,
                rowVars, clientVars, SameFile
  <2>2. \/ queue' = queue \/ queue' = [queue EXCEPT ![<<"presign", f>>] = "delayed"]
        \/ queue' = [queue EXCEPT ![<<"presign", f>>] = "waiting"]
        \/ queue' = [queue EXCEPT ![<<"submission", f>>] = "waiting"]
    BY <1>1 DEF ReadForm, CheckQuota, ScheduleVerify, ExpireUrl, ClaimFile, VerifyIsDue, jobVars
  <2>3. \A g \in Files : queue'[<<"presign", g>>] = "done" => queue[<<"presign", g>>] = "done"
    BY <1>0, <2>2 DEF Base, TypeOK
  <2> QED BY <1>w, <2>1, <2>3, SameKeeps, JudgedSame DEF JudgeInv, SameFile
<1>2. ASSUME CreateRow(f) PROVE JudgeInv'
  <2>1. /\ caller[f] = "create"
        /\ status' = [status EXCEPT ![f] = "PENDING_UPLOAD"]
        /\ bytes' = [bytes EXCEPT ![f] = Declared[f]]
        /\ UNCHANGED <<object, queue, wpc, wjob, found>>
    BY <1>2 DEF CreateRow, Call, jobVars, workerVars
  <2>2. \A w \in Workers : wpc[w] # "idle" => ~On(w, f)
    BY <2>1, WorkerRuns DEF FileOf, On
  <2>3. queue[<<"presign", f>>] = "none"
    BY <2>1 DEF Base, QueueInv, Kinds
  <2>4. \A g \in Files \ {f} : SameFile(g)
    BY <2>1 DEF Base, TypeOK, SameFile
  <2>5. status'[f] = "PENDING_UPLOAD"
    BY <2>1 DEF Base, TypeOK
  <2>6. RowFits(f)' /\ VerdictFits(f)'
    <3>1. ~Judged(f)'
      BY <2>1, <2>2, <2>3 DEF Judged, On
    <3> QED BY <2>5, <3>1 DEF RowFits, VerdictFits
  <2>7. \A w \in Workers : LinkFits(w, f)'
    BY <2>1, <2>2 DEF LinkFits, On
  <2>8. \A g \in Files : g # f => RowFits(g)' /\ VerdictFits(g)' /\ \A w \in Workers : LinkFits(w, g)'
    BY <1>w, <2>1, <2>4, SameKeeps, JudgedSame DEF SameFile
  <2>9. \A g \in Files : \A w \in Workers : FoundFits(w, g)' /\ FinalFits(w, g)'
    BY <1>w, <2>1, SameKeeps
  <2> QED BY <2>6, <2>7, <2>8, <2>9 DEF JudgeInv
<1>3. ASSUME Upload(f) PROVE JudgeInv'
  <2>1. /\ usable[f] /\ object' = [object EXCEPT ![f] = object'[f]] /\ object'[f] # Absent
        /\ Passed(f) => Late(f)'
        /\ UNCHANGED <<status, bytes, queue, wpc, wjob, found>>
    <3>1. PICK n \in Sizes \cup {Declared[f]}, type \in Types :
             /\ object' = [object EXCEPT ![f] = [size |-> n, type |-> type]]
             /\ Occur({k \in {"other_length"} : n # Declared[f]}
                      \cup {k \in {"no_type"} : type = "none"}
                      \cup {k \in {"upload_again"} : object[f] # Absent /\ ~Passed(f)}
                      \cup {k \in {"upload_late"} : Passed(f)}, f)
      BY <1>3 DEF Upload
    <3>2. n # 0
      BY <3>1, UploadAssumption
    <3>3. object' = [object EXCEPT ![f] = object'[f]] /\ object'[f] # Absent
      BY <3>1, <3>2 DEF Base, TypeOK, Absent
    <3>4. Passed(f) => <<"upload_late", f>> \in faults'
      BY <3>1 DEF Occur
    <3> QED BY <1>3, <3>3, <3>4 DEF Upload, Late, Happened, rowVars, jobVars, workerVars
  <2>2. \A g \in Files \ {f} : SameFile(g)
    BY <2>1 DEF Base, TypeOK, SameFile
  <2>3. queue[<<"presign", f>>] \in {"none", "delayed"}
    BY <2>1 DEF Base, QueueInv
  <2>4. \A w \in Workers : wpc[w] # "idle" => wjob[w] # <<"presign", f>>
    BY <2>3 DEF Base, TypeOK
  <2>5. ASSUME NEW w \in Workers PROVE FoundFits(w, f)'
    <3>1. FoundFits(w, f)
      BY DEF JudgeInv
    <3>2. wpc[w] = "commit" /\ On(w, f) => Late(f)'
      BY <2>1 DEF Passed, On
    <3>3. wpc[w] = "quarantine" => wjob[w] # <<"presign", f>>
      BY <2>4
    <3> QED BY <2>1, <3>1, <3>2, <3>3, GrowsClears DEF FoundFits, On, Refused
  <2>6. \A w \in Workers : FinalFits(w, f)' /\ LinkFits(w, f)'
    BY <1>w, <2>1, <2>4, SameKeeps DEF FinalFits
  <2>7. RowFits(f)'
    <3>1. status[f] = "VERIFIED" => Late(f)'
      BY <2>1 DEF Passed
    <3> QED BY <2>1, <3>1 DEF RowFits
  <2>8. VerdictFits(f)'
    <3>1. ~Judged(f)'
      BY <2>1, <2>3, <2>4 DEF Judged
    <3> QED BY <3>1 DEF VerdictFits
  <2>9. \A g \in Files : g # f =>
           /\ RowFits(g)' /\ VerdictFits(g)'
           /\ \A w \in Workers : LinkFits(w, g)' /\ FoundFits(w, g)' /\ FinalFits(w, g)'
    BY <1>w, <2>1, <2>2, SameKeeps, JudgedSame DEF SameFile
  <2> QED BY <2>5, <2>6, <2>7, <2>8, <2>9 DEF JudgeInv
<1> QED BY <1>1, <1>2, <1>3 DEF GeneratePresignedUrl

\* A worker's step on one file: what is left to show is about both.
LEMMA JudgeWorker ==
    ASSUME JudgeInv, Grows, NEW w \in Workers, NEW f \in Files,
           UNCHANGED object,
           \A v \in Workers \ {w} : SameWorker(v),
           \A g \in Files \ {f} : SameFile(g),
           \A g \in Files \ {f} : Judged(g)' => Judged(g),
           \A g \in Files : FoundFits(w, g)' /\ FinalFits(w, g)' /\ LinkFits(w, g)',
           \A v \in Workers \ {w} : LinkFits(v, f)',
           RowFits(f)', VerdictFits(f)'
    PROVE  JudgeInv'
<1>1. \A v \in Workers, g \in Files : v # w => FoundFits(v, g)' /\ FinalFits(v, g)'
  BY SameKeeps
<1>2. \A v \in Workers, g \in Files : v # w /\ g # f => LinkFits(v, g)'
  BY SameKeeps DEF SameFile
<1>3. \A g \in Files : g # f => RowFits(g)' /\ VerdictFits(g)'
  BY SameKeeps
<1> QED BY <1>1, <1>2, <1>3 DEF JudgeInv

\* A worker that goes on: taking a job, reading the row, looking at the object.
LEMMA JudgeMove ==
    ASSUME Base, UploadAssumption, JudgeInv, Grows, NEW w \in Workers,
           ReadFile(w) \/ StatObject(w) \/ \E j \in Jobs : TakeJob(w, j)
    PROVE  JudgeInv'
<1>0. /\ \A g \in Files : SameFile(g)
      /\ UNCHANGED object
      /\ \A v \in Workers \ {w} : SameWorker(v)
      /\ \A g \in Files : Judged(g)' => Judged(g)
  <2>1. UNCHANGED <<status, bytes, object>>
    BY DEF ReadFile, StatObject, TakeJob, rowVars, clientVars
  <2>2. \A v \in Workers \ {w} : SameWorker(v)
    BY DEF ReadFile, StatObject, TakeJob, Goto, KeepJob, SameWorker, Base, TypeOK
  <2>3. queue' = queue \/ \E j \in Jobs : queue' = [queue EXCEPT ![j] = "active"]
    BY DEF ReadFile, StatObject, TakeJob, KeepJob, jobVars
  <2>4. \A g \in Files : queue'[<<"presign", g>>] = "done" => queue[<<"presign", g>>] = "done"
    BY <2>3, JobParts DEF Base, TypeOK, Kinds
  <2>5. wpc'[w] # "done"
    BY DEF ReadFile, StatObject, TakeJob, Goto, Base, TypeOK
  <2>6. \A g \in Files : Judged(g)' => Judged(g)
    BY <2>2, <2>4, <2>5 DEF Judged, SameWorker
  <2> QED BY <2>1, <2>2, <2>6 DEF SameFile
<1>1. /\ \A g \in Files : RowFits(g)' /\ VerdictFits(g)'
      /\ \A v \in Workers, g \in Files : v # w => FoundFits(v, g)' /\ FinalFits(v, g)' /\ LinkFits(v, g)'
  BY <1>0, SameKeeps DEF SameFile
<1>2. ASSUME \A g \in Files : FoundFits(w, g)' /\ FinalFits(w, g)' /\ LinkFits(w, g)' PROVE JudgeInv'
  BY <1>1, <1>2 DEF JudgeInv
<1>3. ASSUME NEW j \in Jobs, TakeJob(w, j) PROVE JudgeInv'
  <2>1. wpc'[w] = "read"
    BY <1>3 DEF TakeJob, Goto, Base, TypeOK
  <2> QED BY <1>2, <2>1, QuietFits
<1>4. ASSUME ReadFile(w) PROVE JudgeInv'
  <2>1. PICK f \in Files : wjob[w][2] = f /\ f = FileOf(w)
    BY <1>4, WorkerRuns DEF ReadFile, Goto, FileOf
  <2>2. /\ wpc'[w] = (IF status[f] = "VERIFIED" THEN "link" ELSE "stat")
        /\ wjob' = wjob /\ status' = status
    BY <1>4, <2>1 DEF ReadFile, Goto, KeepJob, rowVars, Base, TypeOK
  <2>3. CASE status[f] = "VERIFIED"
    <3>1. wpc'[w] = "link"
      BY <2>2, <2>3
    <3>2. \A g \in Files : FoundFits(w, g)' /\ FinalFits(w, g)'
      BY <3>1 DEF FoundFits, FinalFits
    <3>3. \A g \in Files : LinkFits(w, g)'
      BY <2>1, <2>2, <2>3 DEF LinkFits, On
    <3> QED BY <1>2, <3>2, <3>3
  <2>4. CASE status[f] # "VERIFIED"
    BY <1>2, <2>2, <2>4, QuietFits
  <2> QED BY <2>3, <2>4
<1>5. ASSUME StatObject(w) PROVE JudgeInv'
  <2>1. PICK f \in Files : wjob[w][2] = f /\ f = FileOf(w)
    BY <1>5, WorkerRuns DEF StatObject, Goto, FileOf
  <2>2. \/ /\ wpc'[w] = IF object[f] = Absent THEN "delete"
                        ELSE IF Refused(object[f]) THEN "quarantine" ELSE "commit"
           /\ found'[w] = object[f]
        \/ wpc'[w] = "delete" /\ <<"storage_error", f>> \in faults'
    <3>1. wpc \in [Workers -> {"idle", "read", "link", "stat", "delete", "quarantine", "commit", "done"}]
          /\ found \in [Workers -> [size : Nat, type : Types]]
      BY DEF Base, TypeOK
    <3> QED BY <1>5, <2>1, <3>1 DEF StatObject, Goto, Occurs, Occur
  <2>3. wjob' = wjob /\ object' = object
    BY <1>5 DEF StatObject, clientVars
  <2>4. wpc'[w] # "link"
    BY <2>2
  <2>5. \A g \in Files : LinkFits(w, g)'
    BY <2>4 DEF LinkFits
  <2>6. ASSUME NEW g \in Files, wpc'[w] \in {"commit", "quarantine"}, On(w, g)' PROVE FoundFits(w, g)'
    <3>1. g = f
      BY <2>1, <2>3, <2>6 DEF On
    <3>2. found'[w] = object[f] /\ object[f] # Absent /\ (Refused(object[f]) <=> wpc'[w] = "quarantine")
      BY <2>2, <2>6
    <3> QED BY <2>3, <3>1, <3>2 DEF FoundFits, Refused
  <2>7. \A g \in Files : FoundFits(w, g)'
    BY <2>6 DEF FoundFits
  <2>8. ASSUME NEW g \in Files, wpc'[w] = "delete", wjob'[w] = <<"presign", g>>, Clear(g)'
        PROVE  object'[g] = Absent
    <3>1. g = f
      BY <2>1, <2>3, <2>8
    <3>2. <<"storage_error", f>> \notin faults'
      BY <2>8, <3>1 DEF Clear, Happened
    <3> QED BY <2>2, <2>3, <2>8, <3>1, <3>2
  <2>9. \A g \in Files : FinalFits(w, g)'
    BY <2>8 DEF FinalFits
  <2> QED BY <1>2, <2>5, <2>7, <2>9
<1> QED BY <1>3, <1>4, <1>5

\* A worker whose attempt ends.
LEMMA JudgeEnd ==
    ASSUME Base, UploadAssumption, JudgeInv, Grows, NEW w \in Workers,
           AttemptFails(w) \/ CompleteJob(w)
    PROVE  JudgeInv'
<1>1. PICK threw \in BOOLEAN : /\ wpc[w] # "idle" /\ EndAttempt(w, threw)
                               /\ ~threw => wpc[w] = "done"
  BY DEF AttemptFails, CompleteJob
<1>2. /\ \A v \in Workers \ {w} : SameWorker(v)
      /\ wpc'[w] = "idle"
      /\ \A j \in Jobs : j # wjob[w] => queue'[j] = queue[j]
      /\ threw => queue'[wjob[w]] # "done"
  BY <1>1, EndKeeps DEF SameWorker
<1>3. \A g \in Files : SameFile(g) /\ object'[g] = object[g]
  BY DEF AttemptFails, CompleteJob, rowVars, clientVars, SameFile
<1>4. \A g \in Files : Judged(g)' => Judged(g)
  <2>1. \A g \in Files : <<"presign", g>> \in Jobs
    BY JobParts DEF Kinds
  <2> QED BY <1>1, <1>2, <2>1 DEF Judged, SameWorker
<1>5. \A g \in Files : FoundFits(w, g)' /\ FinalFits(w, g)' /\ LinkFits(w, g)'
  BY <1>2, QuietFits
<1>6. \A v \in Workers, g \in Files : v # w => FoundFits(v, g)' /\ FinalFits(v, g)' /\ LinkFits(v, g)'
  BY <1>2, <1>3, SameKeeps DEF SameFile
<1>7. \A g \in Files : RowFits(g)' /\ VerdictFits(g)'
  BY <1>3, <1>4, SameKeeps
<1> QED BY <1>5, <1>6, <1>7 DEF JudgeInv

\* A worker that writes what it has found.
LEMMA JudgeWrite ==
    ASSUME Base, UploadAssumption, JudgeInv, Grows, NEW w \in Workers,
           LinkVerified(w) \/ MarkDeleted(w) \/ Quarantine(w) \/ CommitVerified(w)
    PROVE  JudgeInv'
<1>1. wpc[w] \notin {"idle", "done"} /\ \E from \in {"link", "delete", "quarantine", "commit"} : Finish(w, from)
  BY DEF LinkVerified, MarkDeleted, Quarantine, CommitVerified, Overrule, Finish, Goto
<1>2. PICK f \in Files, k \in Kinds : wjob[w] = <<k, f>> /\ f = FileOf(w)
  BY <1>1, WorkerRuns, JobParts DEF FileOf
<1>3. /\ \A v \in Workers \ {w} : SameWorker(v)
      /\ wpc'[w] = "done" /\ UNCHANGED <<queue, wjob>>
  BY <1>1 DEF Finish, Goto, SameWorker, jobVars, Base, TypeOK
<1>4. /\ \A g \in Files \ {f} : Judged(g)' => Judged(g)
      /\ k # "presign" => (Judged(f)' => Judged(f))
  BY <1>2, <1>3 DEF Judged, SameWorker
<1>5. \A g \in Files \ {f} : SameFile(g)
  <2>1. status' = status \/ \E v \in Verdicts : status' = [status EXCEPT ![f] = v]
    BY <1>2 DEF LinkVerified, MarkDeleted, Quarantine, CommitVerified, Overrule, Verdicts
  <2>2. bytes' = bytes \/ bytes' = [bytes EXCEPT ![f] = found[w].size]
    BY <1>2 DEF LinkVerified, MarkDeleted, Quarantine, CommitVerified, Overrule
  <2>3. object' = object
    BY DEF LinkVerified, MarkDeleted, Quarantine, CommitVerified, Overrule, clientVars
  <2> QED BY <2>1, <2>2, <2>3 DEF SameFile, Base, TypeOK
<1>6. UNCHANGED object
  BY DEF LinkVerified, MarkDeleted, Quarantine, CommitVerified, Overrule, clientVars
<1>7. \A g \in Files : FoundFits(w, g)' /\ FinalFits(w, g)' /\ LinkFits(w, g)'
  BY <1>3, QuietFits
<1>9. /\ FoundFits(w, f) /\ FinalFits(w, f) /\ LinkFits(w, f) /\ RowFits(f) /\ VerdictFits(f)
      /\ On(w, f)
  BY <1>2 DEF JudgeInv, On
<1>10. VerdictOf(f)' = VerdictOf(f) /\ (Clear(f)' => Clear(f) /\ ~Late(f) /\ ~Late(f)')
       /\ (Late(f) => Late(f)')
  BY <1>6, GrowsClears DEF VerdictOf, Refused, Clear, Late, Happened
<1>11. SUFFICES ASSUME TRUE
               PROVE  /\ \A v \in Workers \ {w} : LinkFits(v, f)'
                      /\ RowFits(f)' /\ VerdictFits(f)'
  BY <1>3, <1>4, <1>5, <1>6, <1>7, JudgeWorker
<1>13. CASE LinkVerified(w)
  <2>1. SameFile(f) /\ wpc[w] = "link" /\ overruled' = overruled
    BY <1>13 DEF LinkVerified, Finish, Goto, clientVars, SameFile
  <2>2. \A v \in Workers \ {w} : LinkFits(v, f)'
    BY <1>3, <2>1, SameKeeps DEF SameFile
  <2>3. RowFits(f)'
    BY <2>1, SameKeeps
  <2>4. ASSUME Clear(f)' PROVE status'[f] = VerdictOf(f)'
    <3>1. <<"VERIFIED", f>> \notin overruled
      BY <1>10, <2>4 DEF Clear, Verdicts
    <3>2. status[f] = "VERIFIED"
      BY <1>9, <2>1, <3>1 DEF LinkFits
    <3>3. VerdictOf(f) = "VERIFIED"
      BY <1>9, <1>10, <2>4, <3>2 DEF RowFits, VerdictOf
    <3> QED BY <1>10, <2>1, <3>2, <3>3 DEF SameFile
  <2> QED BY <2>2, <2>3, <2>4 DEF VerdictFits
<1>14. CASE CommitVerified(w)
  <2>1. wpc[w] = "commit" /\ status'[f] = "VERIFIED"
    BY <1>2, <1>14 DEF CommitVerified, Finish, Goto, Base, TypeOK
  <2>2. \A v \in Workers \ {w} : LinkFits(v, f)'
    BY <2>1 DEF LinkFits
  <2>3. RowFits(f)'
    <3>1. CASE status[f] = "VERIFIED"
      <4>1. SameFile(f)
        BY <1>2, <1>6, <1>14, <3>1 DEF CommitVerified, SameFile
      <4> QED BY <4>1, SameKeeps
    <3>2. CASE status[f] # "VERIFIED"
      <4>1. bytes'[f] = found[w].size
        BY <1>2, <1>14, <3>2 DEF CommitVerified, Base, TypeOK
      <4>2. found[w] # Absent /\ ~Refused(found[w]) /\ (Late(f) \/ object[f] = found[w])
        BY <1>9, <2>1 DEF FoundFits
      <4> QED BY <1>6, <1>10, <4>1, <4>2 DEF RowFits, Refused
    <3> QED BY <3>1, <3>2
  <2>4. ASSUME Clear(f)' PROVE VerdictOf(f)' = "VERIFIED"
    BY <1>10, <2>1, <2>3, <2>4 DEF RowFits, VerdictOf
  <2> QED BY <2>1, <2>2, <2>3, <2>4 DEF VerdictFits
<1>15. CASE MarkDeleted(w) \/ Quarantine(w)
  <2>1. overruled' = overruled \cup ({<<status[f], f>>} \cap Settled)
    BY <1>2, <1>15 DEF MarkDeleted, Quarantine, Overrule
  <2>2. status'[f] \in {"DELETED", "QUARANTINED"}
    BY <1>2, <1>15 DEF MarkDeleted, Quarantine, Overrule, Base, TypeOK
  <2>3. status[f] \in {"VERIFIED", "QUARANTINED"} => <<status[f], f>> \in overruled'
    BY <2>1 DEF Settled
  <2>4. ASSUME NEW v \in Workers \ {w} PROVE LinkFits(v, f)'
    <3>1. LinkFits(v, f)
      BY DEF JudgeInv
    <3> QED BY <1>3, <2>1, <2>3, <2>4, <3>1 DEF LinkFits, SameWorker, On
  <2>5. RowFits(f)'
    BY <2>2 DEF RowFits
  <2>6. CASE Quarantine(w)
    <3>1. status'[f] = "QUARANTINED" /\ wpc[w] = "quarantine"
      BY <1>2, <2>6 DEF Quarantine, Overrule, Finish, Goto, Base, TypeOK
    <3>2. /\ object[f] # Absent /\ Refused(found[w])
          /\ k = "presign" => Late(f) \/ object[f] = found[w]
      BY <1>2, <1>9, <3>1 DEF FoundFits
    <3>3. ASSUME Clear(f)', Judged(f)' PROVE VerdictOf(f) = "QUARANTINED"
      <4>1. CASE k = "presign"
        BY <1>10, <3>2, <3>3, <4>1 DEF VerdictOf
      <4>2. CASE k # "presign"
        <5>1. status[f] = VerdictOf(f)
          BY <1>4, <1>9, <1>10, <3>3, <4>2 DEF VerdictFits
        <5>2. status[f] \notin {"VERIFIED", "QUARANTINED"}
          BY <2>3, <3>3 DEF Clear, Verdicts
        <5> QED BY <3>2, <5>1, <5>2 DEF VerdictOf
      <4> QED BY <4>1, <4>2
    <3> QED BY <1>10, <2>4, <2>5, <3>1, <3>3 DEF VerdictFits
  <2>7. CASE MarkDeleted(w)
    <3>1. status'[f] = "DELETED" /\ wpc[w] = "delete"
      BY <1>2, <2>7 DEF MarkDeleted, Overrule, Finish, Goto, Base, TypeOK
    <3>2. ASSUME Clear(f)', Judged(f)' PROVE VerdictOf(f) = "DELETED"
      <4>1. CASE k = "presign"
        BY <1>2, <1>9, <1>10, <3>1, <3>2, <4>1 DEF FinalFits, VerdictOf
      <4>2. CASE k # "presign"
        <5>1. status[f] = VerdictOf(f)
          BY <1>4, <1>9, <1>10, <3>2, <4>2 DEF VerdictFits
        <5>2. status[f] \notin {"VERIFIED", "QUARANTINED"}
          BY <2>3, <3>2 DEF Clear, Verdicts
        <5> QED BY <5>1, <5>2 DEF VerdictOf
      <4> QED BY <4>1, <4>2
    <3> QED BY <1>10, <2>4, <2>5, <3>1, <3>2 DEF VerdictFits
  <2> QED BY <1>15, <2>6, <2>7
<1> QED BY <1>13, <1>14, <1>15

LEMMA JudgeInit ==
    ASSUME UploadAssumption, Init PROVE JudgeInv
<1>1. /\ \A w \in Workers : wpc[w] = "idle"
      /\ \A f \in Files : status[f] = "none" /\ queue[<<"presign", f>>] = "none"
  BY JobParts DEF Init, Kinds
<1> QED BY <1>1 DEF JudgeInv, FoundFits, FinalFits, LinkFits, RowFits, VerdictFits, Judged

LEMMA JudgeStep ==
    ASSUME Base, UploadAssumption, JudgeInv, [Next]_vars PROVE JudgeInv'
<1>1. Grows
  BY StepGrows
<1>2. ASSUME UNCHANGED vars PROVE JudgeInv'
  <2>1. /\ \A w \in Workers : SameWorker(w)
        /\ \A f \in Files : SameFile(f)
        /\ queue' = queue
    BY <1>2 DEF vars, rowVars, clientVars, jobVars, workerVars, SameWorker, SameFile
  <2> QED BY <1>1, <2>1, SameKeeps, JudgedSame DEF JudgeInv, SameFile
<1> QED BY <1>1, <1>2, JudgeFile, JudgeMove, JudgeWrite, JudgeEnd DEF Next, Verify

\* What verify() saw, the row and the object fit each other in every run: the
\* inductive invariant behind the two properties below.
THEOREM JudgeAlways == Spec => []JudgeInv
<1>1. Init => JudgeInv
  BY UploadAssumption, JudgeInit
<1>2. Base /\ JudgeInv /\ [Next]_vars => JudgeInv'
  BY UploadAssumption, JudgeStep
<1> QED BY <1>1, <1>2, BaseAlways, PTL DEF Spec

\* Only a file that a submission claimed can be uploaded again after a check, and
\* can be verified while its URL is good.
ClaimInv ==
    \A f \in Files : (Late(f) => claimed[f]) /\ (status[f] = "VERIFIED" /\ usable[f] => claimed[f])

LEMMA ClaimStep ==
    ASSUME Base, UploadAssumption, ClaimInv, [Next]_vars PROVE ClaimInv'
<1>0. /\ status \in [Files -> Verdicts \cup {"none"}] /\ usable \in [Files -> BOOLEAN]
      /\ claimed \in [Files -> BOOLEAN]
  BY DEF Base, TypeOK
<1>1. ASSUME NEW f \in Files, ~Upload(f), ~CreateRow(f),
             GeneratePresignedUrl(f) \/ ExpireUrl(f) \/ ClaimFile(f) \/ VerifyIsDue(f)
      PROVE  ClaimInv'
  <2>1. /\ status' = status /\ \A g \in Files : Late(g)' => Late(g)
        /\ \A g \in Files : (usable'[g] => usable[g]) /\ (claimed[g] => claimed'[g])
    BY <1>0, <1>1 DEF GeneratePresignedUrl, ReadForm, CheckQuota, ScheduleVerify, ExpireUrl, ClaimFile,
                VerifyIsDue, Occurs, Occur, Late, Happened, rowVars, clientVars
  <2> QED BY <2>1 DEF ClaimInv
<1>2. ASSUME NEW f \in Files, CreateRow(f) PROVE ClaimInv'
  <2>1. /\ status'[f] # "VERIFIED" /\ UNCHANGED <<claimed, faults>>
        /\ \A g \in Files \ {f} : status'[g] = status[g] /\ usable'[g] = usable[g]
    BY <1>0, <1>2 DEF CreateRow, workerVars
  <2> QED BY <2>1 DEF ClaimInv, Late, Happened
<1>3. ASSUME NEW f \in Files, Upload(f) PROVE ClaimInv'
  <2>1. usable[f] /\ UNCHANGED <<status, usable, claimed>>
    BY <1>3 DEF Upload, rowVars
  <2>2. \A g \in Files : Late(g)' => Late(g) \/ (g = f /\ Passed(f))
    <3>1. PICK n \in Sizes \cup {Declared[f]}, type \in Types :
             Occur({k \in {"other_length"} : n # Declared[f]}
                   \cup {k \in {"no_type"} : type = "none"}
                   \cup {k \in {"upload_again"} : object[f] # Absent /\ ~Passed(f)}
                   \cup {k \in {"upload_late"} : Passed(f)}, f)
      BY <1>3 DEF Upload
    <3> QED BY <3>1 DEF Occur, Late, Happened
  <2>3. Passed(f) => claimed[f]
    <3>1. CASE status[f] = "VERIFIED"
      BY <2>1, <3>1 DEF ClaimInv
    <3>2. ASSUME NEW w \in Workers, wpc[w] = "commit", wjob[w][2] = f PROVE claimed[f]
      <4>1. PICK k \in Kinds : wjob[w] = <<k, f>>
        BY <3>2, WorkerRuns, JobParts
      <4>2. k # "presign" /\ queue[<<k, f>>] = "active"
        BY <2>1, <3>2, <4>1, WorkerRuns DEF FileOf
      <4> QED BY <4>1, <4>2 DEF Base, QueueInv, Kinds
    <3> QED BY <3>1, <3>2 DEF Passed
  <2> QED BY <2>1, <2>2, <2>3 DEF ClaimInv
<1>4. ASSUME NEW w \in Workers, CommitVerified(w) PROVE ClaimInv'
  <2>1. PICK f \in Files, k \in Kinds : wjob[w] = <<k, f>> /\ f = FileOf(w)
    BY <1>4, WorkerRuns, JobParts DEF CommitVerified, Finish, Goto, FileOf
  <2>2. queue[<<k, f>>] = "active" /\ (k = "presign" => ~usable[f])
    BY <1>4, <2>1, WorkerRuns DEF CommitVerified, Finish, Goto
  <2>3. UNCHANGED <<usable, claimed, faults>> /\ \A g \in Files \ {f} : status'[g] = status[g]
    BY <1>0, <1>4, <2>1 DEF CommitVerified, clientVars
  <2>4. usable[f] => claimed[f]
    BY <2>2 DEF Base, QueueInv, Kinds
  <2> QED BY <2>3, <2>4 DEF ClaimInv, Late, Happened
<1>5. ASSUME NEW w \in Workers, ~CommitVerified(w),
             Verify(w) \/ AttemptFails(w) \/ \E j \in Jobs : TakeJob(w, j)
      PROVE  ClaimInv'
  <2>1. UNCHANGED <<usable, claimed>> /\ \A g \in Files : Late(g)' => Late(g)
    BY <1>5 DEF Verify, ReadFile, LinkVerified, StatObject, MarkDeleted, Quarantine, CompleteJob, Overrule,
                AttemptFails, TakeJob, clientVars, Occurs, Occur, Late, Happened
  <2>2. status' = status \/ \E v \in {"DELETED", "QUARANTINED"} : status' = [status EXCEPT ![FileOf(w)] = v]
    BY <1>5 DEF Verify, ReadFile, LinkVerified, StatObject, MarkDeleted, Quarantine, CompleteJob, Overrule,
                AttemptFails, TakeJob, rowVars
  <2>3. \A g \in Files : status'[g] = "VERIFIED" => status[g] = "VERIFIED"
    BY <1>0, <2>2
  <2> QED BY <2>1, <2>3 DEF ClaimInv
<1>6. ASSUME UNCHANGED vars PROVE ClaimInv'
  BY <1>6 DEF vars, rowVars, clientVars, ClaimInv, Late, Happened
<1> QED BY <1>1, <1>2, <1>3, <1>4, <1>5, <1>6 DEF Next

THEOREM ClaimAlways == Spec => []ClaimInv
<1>1. Init => ClaimInv
  BY DEF Init, ClaimInv, Late, Happened
<1>2. Base /\ ClaimInv /\ [Next]_vars => ClaimInv'
  BY UploadAssumption, ClaimStep
<1> QED BY <1>1, <1>2, BaseAlways, PTL DEF Spec

\* What is offered for download is the object that was checked, however often it
\* was uploaded before the check, and whatever job checked it.
THEOREM CheckedCorrect == Spec => []VerifiedIsWhatWasChecked
<1>1. JudgeInv /\ ClaimInv => VerifiedIsWhatWasChecked
  BY DEF JudgeInv, RowFits, ClaimInv, Late, VerifiedIsWhatWasChecked
<1> QED BY <1>1, JudgeAlways, ClaimAlways, PTL

\* The scheduled job's outcome is final, whatever else is verified meanwhile.
THEOREM FinalCorrect == Spec => []VerdictIsFinal
<1>1. JudgeInv => VerdictIsFinal
  BY DEF JudgeInv, VerdictFits, Judged, Clear, VerdictOf, VerdictIsFinal
<1> QED BY <1>1, JudgeAlways, PTL

-----------------------------------------------------------------------------
(* A verified file is charged once.                                        *)

\* However the two jobs of a file overlap, the organization is charged once.
THEOREM ChargedOnceCorrect == Spec => []ChargedOnce
<1>1. Init => ChargedOnce
  BY DEF Init, ChargedOnce
<1>2. ASSUME Base, ChargedOnce, [Next]_vars PROVE ChargedOnce'
  <2>1. Grows
    BY <1>2, StepGrows
  <2>2. ASSUME UNCHANGED <<status, charges>> PROVE ChargedOnce'
    BY <1>2, <2>1, <2>2 DEF ChargedOnce, Grows
  <2>3. ASSUME NEW f \in Files, CreateRow(f) PROVE ChargedOnce'
    <3>1. status[f] = "none" /\ status' = [status EXCEPT ![f] = "PENDING_UPLOAD"]
          /\ charges' = charges
      BY <1>2, <2>3 DEF CreateRow, Call, Base, QueueInv, Early
    <3> QED BY <1>2, <2>1, <3>1 DEF ChargedOnce, Grows, Base, TypeOK
  <2>4. ASSUME NEW w \in Workers, MarkDeleted(w) \/ Quarantine(w) PROVE ChargedOnce'
    <3>1. PICK f \in Files : f = FileOf(w)
      BY <1>2, <2>4, WorkerRuns DEF MarkDeleted, Quarantine, Overrule, Finish, Goto
    <3>2. /\ \E v \in {"DELETED", "QUARANTINED"} : status' = [status EXCEPT ![f] = v]
          /\ overruled' = overruled \cup ({<<status[f], f>>} \cap Settled) /\ charges' = charges
      BY <2>4, <3>1 DEF MarkDeleted, Quarantine, Overrule
    <3>3. status[f] = "VERIFIED" => <<"VERIFIED", f>> \in overruled'
      BY <3>2 DEF Settled
    <3>4. status'[f] # "VERIFIED" /\ \A g \in Files \ {f} : status'[g] = status[g]
      BY <1>2, <3>2 DEF Base, TypeOK
    <3> QED BY <1>2, <2>1, <3>2, <3>3, <3>4 DEF ChargedOnce, Grows
  <2>5. ASSUME NEW w \in Workers, CommitVerified(w) PROVE ChargedOnce'
    <3>1. PICK f \in Files : f = FileOf(w)
      BY <1>2, <2>5, WorkerRuns DEF CommitVerified, Finish, Goto
    <3>2. \/ UNCHANGED <<status, charges>>
          \/ /\ status[f] # "VERIFIED" /\ status' = [status EXCEPT ![f] = "VERIFIED"]
             /\ charges' = [charges EXCEPT ![f] = @ + 1]
      BY <2>5, <3>1 DEF CommitVerified
    <3>3. CASE ~UNCHANGED <<status, charges>>
      <4>1. status'[f] = "VERIFIED" /\ charges'[f] = charges[f] + 1
        BY <1>2, <3>2, <3>3 DEF Base, TypeOK
      <4>2. <<"VERIFIED", f>> \notin overruled => charges[f] = 0
        BY <1>2, <3>2, <3>3 DEF ChargedOnce
      <4>3. <<"VERIFIED", f>> \notin overruled' => charges'[f] = 1
        BY <2>1, <4>1, <4>2 DEF Grows
      <4>4. \A g \in Files \ {f} : status'[g] = status[g] /\ charges'[g] = charges[g]
        BY <1>2, <3>2 DEF Base, TypeOK
      <4> QED BY <1>2, <2>1, <4>1, <4>3, <4>4 DEF ChargedOnce, Grows
    <3> QED BY <2>2, <3>3
  <2>6. ASSUME NEW f \in Files, GeneratePresignedUrl(f) \/ Upload(f) \/ ExpireUrl(f) \/ ClaimFile(f) \/ VerifyIsDue(f),
               ~CreateRow(f)
        PROVE  UNCHANGED <<status, charges>>
    BY <2>6 DEF GeneratePresignedUrl, ReadForm, CheckQuota, ScheduleVerify, Upload, ExpireUrl, ClaimFile,
                VerifyIsDue, rowVars
  <2>7. ASSUME NEW w \in Workers,
               ReadFile(w) \/ LinkVerified(w) \/ StatObject(w) \/ CompleteJob(w) \/ AttemptFails(w) \/ \E j \in Jobs : TakeJob(w, j)
        PROVE  UNCHANGED <<status, charges>>
    BY <2>7 DEF ReadFile, LinkVerified, StatObject, CompleteJob, AttemptFails, TakeJob, rowVars
  <2>8. UNCHANGED vars => UNCHANGED <<status, charges>>
    BY DEF vars, rowVars
  <2> QED BY <1>2, <2>2, <2>3, <2>4, <2>5, <2>6, <2>7, <2>8 DEF Next, Verify
<1> QED BY <1>1, <1>2, BaseAlways, PTL DEF Spec
-----------------------------------------------------------------------------
(* Sums over finite sets of files.  The fold that SumBytes uses is the one *)
(* function that Unfolds describes; that there is such a function, and     *)
(* what it computes, is shown by looking at a smallest set for which it    *)
(* would not be so.                                                        *)

Chosen(S) == CHOOSE x \in S : TRUE
Unfolds(b, S, g) ==
    g = [s \in SUBSET S |-> IF s = {} THEN 0 ELSE b[Chosen(s)] + g[s \ {Chosen(s)}]]
SumFun(b, S) == CHOOSE g : Unfolds(b, S, g)

\* The sum of the weights b of the members of S.
Sum(b, S) == SumFun(b, S)[S]

\* The fold of the model is such a sum.
LEMMA SumBytesIs == ASSUME NEW S PROVE SumBytes(S) = Sum(bytes, S)
BY DEF SumBytes, MapThenSumSet, MapThenFoldSet, Sum, SumFun, Unfolds, Chosen

\* A finite set that has subsets of some kind has a smallest one.
LEMMA Smallest ==
    ASSUME NEW S, IsFiniteSet(S), NEW Kind \in SUBSET SUBSET S, Kind # {}
    PROVE  \E T \in Kind : \A U \in Kind : U \subseteq T => U = T
<1>1. IsWellFoundedOn(StrictSubsetOrdering(S), SUBSET S)
  BY FS_StrictSubsetOrderingWellFounded, FS_FiniteSubsetsOfFinite
<1>2. PICK T \in Kind : \A U \in Kind : <<U, T>> \notin StrictSubsetOrdering(S)
  BY <1>1, WFMin
<1>3. \A U \in Kind : U \subseteq T => U = T
  BY <1>2 DEF StrictSubsetOrdering
<1> QED BY <1>3

\* What is chosen of a set is in it.
LEMMA ChosenIn == ASSUME NEW S, S # {} PROVE Chosen(S) \in S
BY DEF Chosen

\* How such a function goes on.
LEMMA UnfoldsAt ==
    ASSUME NEW b, NEW S, NEW g, Unfolds(b, S, g), NEW T \in SUBSET S
    PROVE  g[T] = IF T = {} THEN 0 ELSE b[Chosen(T)] + g[T \ {Chosen(T)}]
BY DEF Unfolds

\* Two of them agree where both are defined.
LEMMA UnfoldsAgree ==
    ASSUME NEW b, NEW S, NEW g, Unfolds(b, S, g), IsFiniteSet(S),
           NEW R, NEW h, Unfolds(b, R, h)
    PROVE  \A T \in (SUBSET S) \cap SUBSET R : g[T] = h[T]
<1> DEFINE Kind == {T \in SUBSET S : T \subseteq R /\ g[T] # h[T]}
<1> SUFFICES ASSUME Kind # {} PROVE FALSE
  OBVIOUS
<1>1. PICK T \in Kind : \A U \in Kind : U \subseteq T => U = T
  <2>1. Kind \in SUBSET SUBSET S
    OBVIOUS
  <2> HIDE DEF Kind
  <2> QED BY <2>1, Smallest
<1>2. CASE T = {}
  BY <1>2, UnfoldsAt
<1>3. CASE T # {}
  <2> DEFINE U == T \ {Chosen(T)}
  <2>1. Chosen(T) \in T
    BY <1>3, ChosenIn
  <2>2. U \subseteq T /\ U # T /\ U \in SUBSET S /\ U \subseteq R
    BY <2>1
  <2>3. g[U] = h[U]
    BY <1>1, <2>2
  <2>4. g[T] = b[Chosen(T)] + g[U]
    BY <1>3, UnfoldsAt
  <2>5. T \in SUBSET R
    OBVIOUS
  <2>6. h[T] = b[Chosen(T)] + h[U]
    BY <1>3, <2>5, UnfoldsAt
  <2> QED BY <2>3, <2>4, <2>6
<1> QED BY <1>2, <1>3

\* There is one for every finite set.
LEMMA UnfoldsExists ==
    ASSUME NEW b, NEW S, IsFiniteSet(S)
    PROVE  Unfolds(b, S, SumFun(b, S))
<1> DEFINE Kind == {T \in SUBSET S : ~ \E g : Unfolds(b, T, g)}
<1>1. ASSUME Kind # {} PROVE FALSE
  <2>1. PICK T \in Kind : \A U \in Kind : U \subseteq T => U = T
    <3>1. Kind \in SUBSET SUBSET S
      OBVIOUS
    <3> HIDE DEF Kind
    <3> QED BY <1>1, <3>1, Smallest
  <2>2. \A U \in SUBSET T : U # T => Unfolds(b, U, SumFun(b, U)) /\ IsFiniteSet(U)
    <3> SUFFICES ASSUME NEW U \in SUBSET T, U # T
                 PROVE  Unfolds(b, U, SumFun(b, U)) /\ IsFiniteSet(U)
      OBVIOUS
    <3>1. \E g : Unfolds(b, U, g)
      BY <2>1
    <3>2. IsFiniteSet(U)
      BY FS_Subset
    <3> HIDE DEF Kind
    <3> QED BY <3>1, <3>2 DEF SumFun
  <2> DEFINE next(s) == IF s = {} THEN 0
                        ELSE b[Chosen(s)] + SumFun(b, s \ {Chosen(s)})[s \ {Chosen(s)}]
             g == [s \in SUBSET T |-> next(s)]
  <2>3. \A s \in SUBSET T : s # {} =>
            g[s \ {Chosen(s)}] = SumFun(b, s \ {Chosen(s)})[s \ {Chosen(s)}]
    <3> SUFFICES ASSUME NEW s \in SUBSET T, s # {}
                 PROVE  g[s \ {Chosen(s)}] = SumFun(b, s \ {Chosen(s)})[s \ {Chosen(s)}]
      OBVIOUS
    <3> DEFINE U == s \ {Chosen(s)}
               V == U \ {Chosen(U)}
    <3>1. U \in SUBSET T /\ U # T
      BY ChosenIn
    <3>2. Unfolds(b, U, SumFun(b, U)) /\ IsFiniteSet(U)
      BY <2>2, <3>1
    <3>3. g[U] = next(U)
      BY <3>1
    <3> HIDE DEF g, U
    <3>4. CASE U = {}
      <4>1. SumFun(b, U)[U] = 0
        BY <3>2, <3>4, UnfoldsAt
      <4> QED BY <3>3, <3>4, <4>1 DEF U
    <3>5. CASE U # {}
      <4>1. SumFun(b, U)[U] = b[Chosen(U)] + SumFun(b, U)[V]
        BY <3>2, <3>5, UnfoldsAt
      <4>2. V \in SUBSET T /\ V # T /\ V \in SUBSET U
        BY <3>1
      <4>3. Unfolds(b, V, SumFun(b, V))
        BY <2>2, <4>2
      <4>4. SumFun(b, U)[V] = SumFun(b, V)[V]
        BY <3>2, <4>2, <4>3, UnfoldsAgree
      <4> QED BY <3>3, <3>5, <4>1, <4>4 DEF U
    <3> QED BY <3>4, <3>5
  <2>4. Unfolds(b, T, g)
    <3> SUFFICES g = [s \in SUBSET T |-> IF s = {} THEN 0
                                         ELSE b[Chosen(s)] + g[s \ {Chosen(s)}]]
      BY DEF Unfolds
    <3>1. \A s \in SUBSET T :
            next(s) = IF s = {} THEN 0 ELSE b[Chosen(s)] + g[s \ {Chosen(s)}]
      BY <2>3
    <3> QED BY <3>1
  <2> QED BY <2>1, <2>4
<1>2. S \in SUBSET S /\ S \notin Kind
  BY <1>1
<1>3. \E g : Unfolds(b, S, g)
  BY <1>2
<1> QED BY <1>3 DEF SumFun

\* The sum over nothing is zero.
LEMMA SumEmpty == ASSUME NEW b PROVE Sum(b, {}) = 0
<1>1. IsFiniteSet({})
  BY FS_EmptySet
<1> QED BY <1>1, UnfoldsExists, UnfoldsAt DEF Sum

\* The sum takes the chosen member first.
LEMMA SumChosen ==
    ASSUME NEW b, NEW S, IsFiniteSet(S), S # {}
    PROVE  Sum(b, S) = b[Chosen(S)] + Sum(b, S \ {Chosen(S)})
<1> DEFINE U == S \ {Chosen(S)}
<1>1. IsFiniteSet(U) /\ U \in SUBSET S /\ S \in SUBSET S /\ U \in SUBSET U
  BY FS_Subset
<1>2. Unfolds(b, S, SumFun(b, S)) /\ Unfolds(b, U, SumFun(b, U))
  BY <1>1, UnfoldsExists
<1>3. SumFun(b, S)[S] = b[Chosen(S)] + SumFun(b, S)[U]
  BY <1>1, <1>2, UnfoldsAt
<1>4. SumFun(b, S)[U] = SumFun(b, U)[U]
  BY <1>1, <1>2, UnfoldsAgree
<1> QED BY <1>3, <1>4 DEF Sum

\* The sum of natural numbers is one.
LEMMA SumNat ==
    ASSUME NEW b, NEW S, IsFiniteSet(S), \A x \in S : b[x] \in Nat
    PROVE  Sum(b, S) \in Nat
<1> DEFINE Kind == {T \in SUBSET S : Sum(b, T) \notin Nat}
<1>1. ASSUME Kind # {} PROVE FALSE
  <2>1. PICK T \in Kind : \A U \in Kind : U \subseteq T => U = T
    <3>1. Kind \in SUBSET SUBSET S
      OBVIOUS
    <3> HIDE DEF Kind
    <3> QED BY <1>1, <3>1, Smallest
  <2>2. T # {}
    BY SumEmpty
  <2>3. Chosen(T) \in T /\ IsFiniteSet(T)
    BY <2>2, ChosenIn, FS_Subset
  <2>4. Sum(b, T \ {Chosen(T)}) \in Nat
    BY <2>1, <2>3
  <2>5. Sum(b, T) = b[Chosen(T)] + Sum(b, T \ {Chosen(T)})
    BY <2>2, <2>3, SumChosen
  <2> QED BY <2>3, <2>4, <2>5
<1> QED BY <1>1

\* Any member can be taken out first.
LEMMA SumOut ==
    ASSUME NEW b, NEW S, IsFiniteSet(S), \A x \in S : b[x] \in Nat, NEW y \in S
    PROVE  Sum(b, S) = b[y] + Sum(b, S \ {y})
<1> DEFINE Kind == {T \in SUBSET S : \E z \in T : Sum(b, T) # b[z] + Sum(b, T \ {z})}
<1>1. ASSUME Kind # {} PROVE FALSE
  <2>1. PICK T \in Kind : \A U \in Kind : U \subseteq T => U = T
    <3>1. Kind \in SUBSET SUBSET S
      OBVIOUS
    <3> HIDE DEF Kind
    <3> QED BY <1>1, <3>1, Smallest
  <2>2. PICK z \in T : Sum(b, T) # b[z] + Sum(b, T \ {z})
    OBVIOUS
  <2> DEFINE x == Chosen(T)
             U == T \ {x}
             V == T \ {z}
             W == T \ {x, z}
  <2>3. x \in T /\ IsFiniteSet(T) /\ IsFiniteSet(V) /\ IsFiniteSet(W)
    BY <2>2, ChosenIn, FS_Subset
  <2>4. Sum(b, T) = b[x] + Sum(b, U)
    BY <2>2, <2>3, SumChosen
  <2>5. x # z
    BY <2>2, <2>4
  <2>6. U \in SUBSET S /\ U \notin Kind /\ V \in SUBSET S /\ V \notin Kind
    BY <2>1, <2>3
  <2>7. z \in U /\ U \ {z} = W /\ x \in V /\ V \ {x} = W
    BY <2>3, <2>5
  <2>8. Sum(b, U) = b[z] + Sum(b, W) /\ Sum(b, V) = b[x] + Sum(b, W)
    BY <2>6, <2>7
  <2>9. Sum(b, W) \in Nat /\ b[x] \in Nat /\ b[z] \in Nat
    <3>1. \A w \in W : b[w] \in Nat
      OBVIOUS
    <3> HIDE DEF W, x
    <3> QED BY <2>3, <3>1, SumNat
  <2> HIDE DEF x, U, V, W
  <2>10. Sum(b, T) = b[z] + Sum(b, V)
    BY <2>4, <2>8, <2>9
  <2> QED BY <2>2, <2>10 DEF V
<1>2. S \in SUBSET S /\ S \notin Kind
  BY <1>1
<1> QED BY <1>2

\* The sum depends on the weights of the members only.
LEMMA SumSame ==
    ASSUME NEW b, NEW c, NEW S, IsFiniteSet(S), \A x \in S : b[x] = c[x]
    PROVE  Sum(b, S) = Sum(c, S)
<1> DEFINE Kind == {T \in SUBSET S : Sum(b, T) # Sum(c, T)}
<1>1. ASSUME Kind # {} PROVE FALSE
  <2>1. PICK T \in Kind : \A U \in Kind : U \subseteq T => U = T
    <3>1. Kind \in SUBSET SUBSET S
      OBVIOUS
    <3> HIDE DEF Kind
    <3> QED BY <1>1, <3>1, Smallest
  <2>2. T # {}
    BY SumEmpty
  <2>3. Chosen(T) \in T /\ IsFiniteSet(T)
    BY <2>2, ChosenIn, FS_Subset
  <2>4. Sum(b, T \ {Chosen(T)}) = Sum(c, T \ {Chosen(T)})
    BY <2>1, <2>3
  <2>5. /\ Sum(b, T) = b[Chosen(T)] + Sum(b, T \ {Chosen(T)})
        /\ Sum(c, T) = c[Chosen(T)] + Sum(c, T \ {Chosen(T)})
    BY <2>2, <2>3, SumChosen
  <2> QED BY <2>3, <2>4, <2>5
<1> QED BY <1>1

\* Fewer files weigh no more.
LEMMA SumFewer ==
    ASSUME NEW b, NEW S, IsFiniteSet(S), \A x \in S : b[x] \in Nat, NEW R \in SUBSET S
    PROVE  Sum(b, R) <= Sum(b, S)
<1> DEFINE Kind == {T \in SUBSET S : R \subseteq T /\ ~(Sum(b, R) <= Sum(b, T))}
<1>1. ASSUME Kind # {} PROVE FALSE
  <2>1. PICK T \in Kind : \A U \in Kind : U \subseteq T => U = T
    <3>1. Kind \in SUBSET SUBSET S
      OBVIOUS
    <3> HIDE DEF Kind
    <3> QED BY <1>1, <3>1, Smallest
  <2>2. IsFiniteSet(T) /\ IsFiniteSet(R) /\ R \subseteq T
    BY FS_Subset
  <2>3. Sum(b, R) \in Nat
    BY <2>2, SumNat
  <2>4. PICK x \in T : x \notin R
    BY <2>2, <2>3
  <2>5. IsFiniteSet(T \ {x}) /\ \A y \in T : b[y] \in Nat
    BY <2>2, FS_Subset
  <2>6. Sum(b, T) = b[x] + Sum(b, T \ {x})
    BY <2>2, <2>5, SumOut
  <2>7. Sum(b, T \ {x}) \in Nat
    BY <2>5, SumNat
  <2>8. Sum(b, R) <= Sum(b, T \ {x})
    BY <2>1, <2>2, <2>4
  <2>9. b[x] \in Nat
    BY <2>5
  <2> HIDE DEF Kind
  <2>10. Sum(b, R) <= Sum(b, T)
    BY <2>3, <2>6, <2>7, <2>8, <2>9
  <2> QED BY <2>1, <2>10 DEF Kind
<1> QED BY <1>1
-----------------------------------------------------------------------------
(* The usage is what the verified files weigh.                             *)

Verified == WithStatus("VERIFIED")
UsageTold == NoneWithdrawn => used = Sum(bytes, Verified)

\* What a step may do to a file's row: it is created, judged or verified.
Creates(f) ==
    /\ CreateRow(f) /\ status[f] = "none" /\ caller[f] = "create"
    /\ status' = [status EXCEPT ![f] = "PENDING_UPLOAD"]
    /\ bytes' = [bytes EXCEPT ![f] = Declared[f]] /\ UNCHANGED <<used, object, blind>>
    /\ caller' = [caller EXCEPT ![f] = "schedule"] /\ usable' = [usable EXCEPT ![f] = TRUE]
Judges(f) ==
    /\ caller[f] = "issued"
    /\ \E v \in {"DELETED", "QUARANTINED"} : status' = [status EXCEPT ![f] = v]
    /\ \A g \in Files \ {f} : bytes'[g] = bytes[g]
    /\ UNCHANGED <<used, caller, usable, object, blind>>
    /\ status[f] = "VERIFIED" => <<"VERIFIED", f>> \in overruled'
Verifies(f) ==
    /\ caller[f] = "issued" /\ status[f] # "VERIFIED"
    /\ status' = [status EXCEPT ![f] = "VERIFIED"]
    /\ \E w \in Workers : /\ wpc[w] = "commit" /\ FileOf(w) = f /\ found[w].size \in Nat
                          /\ bytes' = [bytes EXCEPT ![f] = found[w].size]
                          /\ used' = used + found[w].size
    /\ UNCHANGED <<caller, usable, object, blind>>

\* Every step does one of these to one file, or leaves the rows and the usage.
LEMMA RowsStep ==
    ASSUME Base, UploadAssumption, [Next]_vars
    PROVE  \/ UNCHANGED <<status, bytes, used>>
           \/ \E f \in Files : Creates(f) \/ Judges(f) \/ Verifies(f)
<1>1. ASSUME NEW f \in Files, CreateRow(f) PROVE Creates(f)
  BY <1>1 DEF CreateRow, Creates, Call, Base, QueueInv, Early
<1>2. ASSUME NEW f \in Files, ~CreateRow(f),
             GeneratePresignedUrl(f) \/ Upload(f) \/ ExpireUrl(f) \/ ClaimFile(f) \/ VerifyIsDue(f)
      PROVE  UNCHANGED <<status, bytes, used>>
  BY <1>2 DEF GeneratePresignedUrl, ReadForm, CheckQuota, ScheduleVerify, Upload, ExpireUrl,
              ClaimFile, VerifyIsDue, rowVars
<1>3. ASSUME NEW w \in Workers,
             ReadFile(w) \/ LinkVerified(w) \/ StatObject(w) \/ CompleteJob(w) \/ AttemptFails(w) \/ \E j \in Jobs : TakeJob(w, j)
      PROVE  UNCHANGED <<status, bytes, used>>
  BY <1>3 DEF ReadFile, LinkVerified, StatObject, CompleteJob, AttemptFails, TakeJob, rowVars
<1>4. ASSUME NEW w \in Workers, MarkDeleted(w) \/ Quarantine(w)
      PROVE  \E f \in Files : Judges(f)
  <2>1. PICK f \in Files : f = FileOf(w) /\ caller[f] = "issued"
    BY <1>4, WorkerRuns DEF MarkDeleted, Quarantine, Overrule, Finish, Goto
  <2>2. /\ \E v \in {"DELETED", "QUARANTINED"} : status' = [status EXCEPT ![f] = v]
        /\ overruled' = overruled \cup ({<<status[f], f>>} \cap Settled)
        /\ UNCHANGED <<used, caller, usable, object, blind>>
    BY <1>4, <2>1 DEF MarkDeleted, Quarantine, Overrule, callVars, clientVars
  <2>3. \A g \in Files \ {f} : bytes'[g] = bytes[g]
    BY <1>4, <2>1 DEF MarkDeleted, Quarantine, Base, TypeOK
  <2>4. status[f] = "VERIFIED" => <<"VERIFIED", f>> \in overruled'
    BY <2>2 DEF Settled
  <2> QED BY <2>1, <2>2, <2>3, <2>4 DEF Judges
<1>5. ASSUME NEW w \in Workers, CommitVerified(w)
      PROVE  UNCHANGED <<status, bytes, used>> \/ \E f \in Files : Verifies(f)
  <2>1. PICK f \in Files : f = FileOf(w) /\ caller[f] = "issued"
    BY <1>5, WorkerRuns DEF CommitVerified, Finish, Goto
  <2>2. found[w].size \in Nat
    BY DEF Base, TypeOK
  <2> QED BY <1>5, <2>1, <2>2 DEF CommitVerified, Finish, Goto, Verifies, callVars, clientVars
<1>6. UNCHANGED vars => UNCHANGED <<status, bytes, used>>
  BY DEF vars, rowVars
<1> QED BY <1>1, <1>2, <1>3, <1>4, <1>5, <1>6 DEF Next, Verify

\* Each step preserves UsageTold: the update that counts charges what the row will hold.
LEMMA UsageStep ==
    ASSUME Base, UploadAssumption, UsageTold, [Next]_vars PROVE UsageTold'
<1> SUFFICES ASSUME NoneWithdrawn' PROVE used' = Sum(bytes', Verified')
  BY DEF UsageTold
<1>1. NoneWithdrawn
  BY StepGrows DEF NoneWithdrawn, Grows
<1>2. used = Sum(bytes, Verified)
  BY <1>1 DEF UsageTold
<1>3. /\ IsFiniteSet(Files) /\ IsFiniteSet(Verified) /\ Verified \subseteq Files
      /\ bytes \in [Files -> Nat] /\ status \in [Files -> Verdicts \cup {"none"}]
  BY FS_Subset, UploadAssumption DEF Verified, WithStatus, Base, TypeOK
<1>4. CASE UNCHANGED <<status, bytes, used>>
  <2>1. Verified' = Verified
    BY <1>4 DEF Verified, WithStatus
  <2> QED BY <1>2, <1>4, <2>1
<1>5. ASSUME NEW f \in Files, Creates(f) \/ Judges(f) PROVE used' = Sum(bytes', Verified')
  <2>1. f \notin Verified /\ f \notin Verified'
    BY <1>1, <1>3, <1>5 DEF Creates, Judges, Verified, WithStatus, NoneWithdrawn
  <2>2. Verified' = Verified
    BY <1>3, <1>5, <2>1 DEF Creates, Judges, Verified, WithStatus
  <2>3. \A g \in Verified : bytes'[g] = bytes[g]
    BY <1>3, <1>5, <2>1 DEF Creates, Judges
  <2>4. used' = used
    BY <1>5 DEF Creates, Judges
  <2> QED BY <1>2, <1>3, <2>2, <2>3, <2>4, SumSame
<1>6. ASSUME NEW f \in Files, Verifies(f) PROVE used' = Sum(bytes', Verified')
  <2>1. PICK n \in Nat : bytes' = [bytes EXCEPT ![f] = n] /\ used' = used + n
    BY <1>6 DEF Verifies
  <2>2. Verified' = Verified \cup {f} /\ f \notin Verified
    BY <1>3, <1>6 DEF Verifies, Verified, WithStatus
  <2>3. IsFiniteSet(Verified') /\ Verified' \ {f} = Verified
    BY <1>3, <2>2, FS_AddElement
  <2>4. bytes'[f] = n /\ \A g \in Verified' : bytes'[g] \in Nat
    BY <1>3, <2>1, <2>2
  <2>5. Sum(bytes', Verified') = n + Sum(bytes', Verified)
    BY <2>2, <2>3, <2>4, SumOut
  <2>6. Sum(bytes', Verified) = Sum(bytes, Verified)
    <3>1. \A g \in Verified : bytes'[g] = bytes[g]
      BY <1>3, <2>1, <2>2
    <3> QED BY <1>3, <3>1, SumSame
  <2>7. used \in Nat
    BY DEF Base, TypeOK
  <2> QED BY <1>2, <2>1, <2>5, <2>6, <2>7
<1> QED BY <1>4, <1>5, <1>6, RowsStep

\* An organization's usage is the sum of its verified files, as long as no job
\* has withdrawn a verdict.
THEOREM UsageCorrect == Spec => []UsageMatchesVerified
<1>1. Init => UsageTold
  <2>1. Init => used = 0 /\ Verified = {}
    BY DEF Init, Verified, WithStatus
  <2> QED BY <2>1, SumEmpty DEF UsageTold
<1>2. Base /\ UsageTold /\ [Next]_vars => UsageTold'
  BY UploadAssumption, UsageStep
<1>3. UsageTold => UsageMatchesVerified
  BY SumBytesIs DEF UsageTold, UsageMatchesVerified, Verified
<1> QED BY <1>1, <1>2, <1>3, BaseAlways, PTL DEF Spec
-----------------------------------------------------------------------------
(* The quota bounds the verified bytes.                                    *)

\* Files that may still be verified: one whose row is about to be created, and
\* one that is not verified and has, or may get, an object.
Outstanding ==
    {f \in Files :
        \/ caller[f] = "create"
        \/ status[f] \in Verdicts \ {"VERIFIED"} /\ (usable[f] \/ object[f] # Absent)}

\* An issued URL has a row; a pending row has the declared size; and while
\* clients keep to it, so have the object and what a worker found of it.
SizesTold ==
    /\ \A f \in Files : caller[f] \in {"schedule", "issued"} => status[f] # "none"
    /\ \A f \in Files : status[f] = "PENDING_UPLOAD" => bytes[f] = Declared[f]
    /\ OwnLength =>
          /\ \A f \in Files : object[f] # Absent => object[f].size = Declared[f]
          /\ \A w \in Workers : wpc[w] = "commit" =>
                /\ object[FileOf(w)] # Absent
                /\ found[w].size = Declared[FileOf(w)]

\* The usage and what may still be added to it fit in the quota.
RoomTold ==
    blind = {} /\ OwnLength /\ NoneWithdrawn =>
        used + Sum(Declared, Outstanding) <= Quota

QuotaInv == SizesTold /\ RoomTold

\* What a step may do to a file: it is checked, its row created, its object
\* uploaded, and its URL only expires.
FileLast(f) ==
    /\ caller'[f] = "create" => caller[f] = "create" \/ CheckQuota(f)
    /\ caller'[f] \in {"schedule", "issued"} =>
          caller[f] \in {"schedule", "issued"} \/ CreateRow(f)
    /\ usable'[f] => usable[f] \/ CreateRow(f)
    /\ object'[f] = object[f] \/ Upload(f)

LEMMA FilesLast ==
    ASSUME Base, [Next]_vars, NEW f \in Files
    PROVE  FileLast(f)
<1>0. /\ caller \in [Files -> {"form", "quota", "create", "schedule", "issued", "refused"}]
      /\ usable \in [Files -> BOOLEAN] /\ object \in [Files -> [size : Nat, type : Types]]
  BY DEF Base, TypeOK
<1>1. ASSUME NEW g \in Files, GeneratePresignedUrl(g) PROVE FileLast(f)
  BY <1>0, <1>1 DEF GeneratePresignedUrl, ReadForm, CheckQuota, CreateRow, ScheduleVerify, Call,
                    FileLast, clientVars
<1>2. ASSUME NEW g \in Files, Upload(g) PROVE FileLast(f)
  <2>1. UNCHANGED <<caller, usable>> /\ (g # f => object'[f] = object[f])
    BY <1>0, <1>2 DEF Upload, callVars
  <2> QED BY <1>2, <2>1 DEF FileLast
<1>3. ASSUME NEW g \in Files, ExpireUrl(g) \/ ClaimFile(g) \/ VerifyIsDue(g)
      PROVE  FileLast(f)
  <2>1. UNCHANGED <<caller, object>> /\ (usable'[f] => usable[f])
    BY <1>0, <1>3 DEF ExpireUrl, ClaimFile, VerifyIsDue, callVars, clientVars
  <2> QED BY <2>1 DEF FileLast
<1>4. ASSUME NEW w \in Workers, Verify(w) \/ AttemptFails(w) \/ \E j \in Jobs : TakeJob(w, j)
      PROVE  UNCHANGED <<caller, usable, object>>
  BY <1>4 DEF Verify, ReadFile, LinkVerified, StatObject, MarkDeleted, Quarantine, CommitVerified,
              CompleteJob, Overrule, AttemptFails, TakeJob, callVars, clientVars
<1>5. UNCHANGED vars => UNCHANGED <<caller, usable, object>>
  BY DEF vars, callVars, clientVars
<1>6. UNCHANGED <<caller, usable, object>> => FileLast(f)
  BY DEF FileLast
<1> QED BY <1>1, <1>2, <1>3, <1>4, <1>5, <1>6 DEF Next

\* Only a quota check marks what it did not see.
LEMMA BlindLast == ASSUME [Next]_vars PROVE blind' = blind \/ \E f \in Files : CheckQuota(f)
<1>1. ASSUME NEW f \in Files, GeneratePresignedUrl(f) \/ Upload(f) \/ ExpireUrl(f) \/ ClaimFile(f) \/ VerifyIsDue(f)
      PROVE  blind' = blind \/ CheckQuota(f)
  BY <1>1 DEF GeneratePresignedUrl, ReadForm, CreateRow, ScheduleVerify, Upload, ExpireUrl,
              ClaimFile, VerifyIsDue, callVars
<1>2. ASSUME NEW w \in Workers, Verify(w) \/ AttemptFails(w) \/ \E j \in Jobs : TakeJob(w, j)
      PROVE  blind' = blind
  BY <1>2 DEF Verify, ReadFile, LinkVerified, StatObject, MarkDeleted, Quarantine, CommitVerified,
              CompleteJob, Overrule, AttemptFails, TakeJob, callVars
<1>3. UNCHANGED vars => blind' = blind
  BY DEF vars, callVars
<1> QED BY <1>1, <1>2, <1>3 DEF Next

\* An object stays one; and a new one has the declared length.
LEMMA ObjectsLast ==
    ASSUME Base, UploadAssumption, OwnLength', [Next]_vars, NEW f \in Files
    PROVE  \/ object'[f] = object[f]
           \/ usable[f] /\ object'[f].size = Declared[f] /\ object'[f] # Absent
<1>1. CASE Upload(f)
  <2>1. PICK n, type : /\ object' = [object EXCEPT ![f] = [size |-> n, type |-> type]]
                       /\ n # Declared[f] => <<"other_length", f>> \in faults'
    BY <1>1 DEF Upload, Occur
  <2>2. object'[f] = [size |-> Declared[f], type |-> type] /\ usable[f]
    BY <1>1, <2>1 DEF Upload, OwnLength, Happened, Base, TypeOK
  <2>3. Declared[f] # 0
    BY UploadAssumption
  <2> QED BY <2>2, <2>3 DEF Absent
<1> QED BY <1>1, FilesLast DEF FileLast

\* What a worker is about to commit it has just found.
LEMMA CommitsLast ==
    ASSUME Base, UploadAssumption, [Next]_vars, NEW w \in Workers, wpc'[w] = "commit"
    PROVE  /\ wjob'[w] = wjob[w] /\ wpc[w] # "idle"
           /\ \/ wpc[w] = "commit" /\ found'[w] = found[w]
              \/ object[FileOf(w)] # Absent /\ found'[w] = object[FileOf(w)]
<1> DEFINE Goal == /\ wjob'[w] = wjob[w] /\ wpc[w] # "idle"
                   /\ \/ wpc[w] = "commit" /\ found'[w] = found[w]
                      \/ object[FileOf(w)] # Absent /\ found'[w] = object[FileOf(w)]
<1>0. /\ wpc \in [Workers -> {"idle", "read", "link", "stat", "delete", "quarantine", "commit", "done"}]
      /\ found \in [Workers -> [size : Nat, type : Types]]
      /\ wjob \in [Workers -> Jobs \cup {NoJob}]
  BY DEF Base, TypeOK
<1>1. UNCHANGED workerVars => Goal
  BY DEF workerVars
<1>2. ASSUME NEW v \in Workers, v # w, Verify(v) \/ AttemptFails(v) \/ \E j \in Jobs : TakeJob(v, j)
      PROVE  wpc'[w] = wpc[w] /\ wjob'[w] = wjob[w] /\ found'[w] = found[w]
  BY <1>0, <1>2 DEF Verify, ReadFile, LinkVerified, StatObject, MarkDeleted, Quarantine, CommitVerified,
                    CompleteJob, Finish, Overrule, AttemptFails, TakeJob, EndAttempt, Goto, KeepJob
<1>3. ASSUME Verify(w) \/ AttemptFails(w) \/ \E j \in Jobs : TakeJob(w, j) PROVE StatObject(w)
  BY <1>0, <1>3 DEF Verify, ReadFile, LinkVerified, MarkDeleted, Quarantine, CommitVerified,
                    CompleteJob, Finish, Overrule, AttemptFails, TakeJob, EndAttempt, Goto
<1>4. StatObject(w) => Goal
  BY <1>0 DEF StatObject, Goto
<1>5. \A f \in Files : GeneratePresignedUrl(f) \/ Upload(f) \/ ExpireUrl(f) \/ ClaimFile(f)
                       \/ VerifyIsDue(f) => UNCHANGED workerVars
  BY DEF GeneratePresignedUrl, ReadForm, CheckQuota, CreateRow, ScheduleVerify, Upload, ExpireUrl,
         ClaimFile, VerifyIsDue
<1>6. UNCHANGED vars => UNCHANGED workerVars
  BY DEF vars
<1> QED BY <1>1, <1>2, <1>3, <1>4, <1>5, <1>6 DEF Next

\* Each step preserves SizesTold.
LEMMA SizesStep ==
    ASSUME Base, UploadAssumption, SizesTold, [Next]_vars PROVE SizesTold'
<1>0. /\ status \in [Files -> Verdicts \cup {"none"}] /\ bytes \in [Files -> Nat]
      /\ "none" \notin {"PENDING_UPLOAD", "DELETED", "QUARANTINED", "VERIFIED"}
  BY DEF Base, TypeOK
<1>1. ASSUME NEW f \in Files PROVE caller'[f] \in {"schedule", "issued"} => status'[f] # "none"
  <2>1. CreateRow(f) => status'[f] # "none"
    BY <1>0 DEF CreateRow
  <2>2. status[f] # "none" => status'[f] # "none"
    BY <1>0, RowsStep DEF Creates, Judges, Verifies
  <2> QED BY <2>1, <2>2, FilesLast DEF FileLast, SizesTold
<1>2. ASSUME NEW f \in Files PROVE status'[f] = "PENDING_UPLOAD" => bytes'[f] = Declared[f]
  <2>1. status[f] = "PENDING_UPLOAD" => bytes[f] = Declared[f]
    BY DEF SizesTold
  <2>2. UNCHANGED <<status, bytes>> => (status'[f] = "PENDING_UPLOAD" => bytes'[f] = Declared[f])
    BY <2>1
  <2>3. ASSUME NEW g \in Files, Creates(g) PROVE (status'[f] = "PENDING_UPLOAD" => bytes'[f] = Declared[f])
    BY <1>0, <2>1, <2>3, UploadAssumption DEF Creates
  <2>4. ASSUME NEW g \in Files, Judges(g) \/ Verifies(g) PROVE (status'[f] = "PENDING_UPLOAD" => bytes'[f] = Declared[f])
    <3>1. status'[g] # "PENDING_UPLOAD" /\ (f # g => status'[f] = status[f] /\ bytes'[f] = bytes[f])
      BY <1>0, <2>4 DEF Judges, Verifies
    <3> QED BY <2>1, <3>1
  <2> QED BY <2>2, <2>3, <2>4, RowsStep
<1>l. OwnLength' => OwnLength
  BY StepGrows DEF OwnLength, Happened, Grows
<1>3. ASSUME OwnLength', NEW f \in Files, object'[f] # Absent PROVE object'[f].size = Declared[f]
  BY <1>3, <1>l, ObjectsLast DEF SizesTold
<1>4. ASSUME OwnLength', NEW w \in Workers, wpc'[w] = "commit"
      PROVE  object'[FileOf(w)'] # Absent /\ found'[w].size = Declared[FileOf(w)']
  <2>1. FileOf(w)' = FileOf(w) /\ FileOf(w) \in Files
    BY <1>4, CommitsLast, WorkerRuns DEF FileOf
  <2>2. object[FileOf(w)] # Absent /\ found'[w].size = Declared[FileOf(w)]
    BY <1>4, <1>l, <2>1, CommitsLast DEF SizesTold
  <2> QED BY <1>4, <2>1, <2>2, ObjectsLast
<1> QED BY <1>1, <1>2, <1>3, <1>4 DEF SizesTold

\* Only a quota check adds to what is outstanding.
LEMMA OutstandingLast ==
    ASSUME Base, UploadAssumption, SizesTold, OwnLength, OwnLength', [Next]_vars, NoneWithdrawn',
           \A f \in Files : ~CheckQuota(f)
    PROVE  Outstanding' \subseteq Outstanding
<1> SUFFICES ASSUME NEW f \in Files, f \in Outstanding' PROVE f \in Outstanding
  BY DEF Outstanding
<1>0. status \in [Files -> Verdicts \cup {"none"}] /\ FileLast(f)
  BY FilesLast DEF Base, TypeOK
<1>1. CASE CreateRow(f)
  BY <1>1 DEF CreateRow, Call, Outstanding
<1>2. CASE ~CreateRow(f)
  <2>1. CASE caller'[f] = "create"
    BY <1>0, <2>1 DEF FileLast, Outstanding
  <2>2. CASE caller'[f] # "create"
    <3>1. status'[f] \in Verdicts \ {"VERIFIED"} /\ (usable'[f] \/ object'[f] # Absent)
      BY <2>2 DEF Outstanding
    <3>2. usable[f] \/ object[f] # Absent
      BY <1>0, <1>2, <3>1, ObjectsLast DEF FileLast
    <3>3. status[f] \in Verdicts \ {"VERIFIED"}
      <4>1. ASSUME Judges(f) PROVE status[f] \in Verdicts \ {"VERIFIED"}
        BY <1>0, <4>1 DEF Judges, SizesTold, NoneWithdrawn
      <4>2. CASE ~Judges(f)
        <5>1. ~Verifies(f)
          BY <1>0, <3>1 DEF Verifies
        <5>2. ~Creates(f)
          BY <1>2 DEF Creates
        <5>3. status'[f] = status[f]
          BY <1>0, <4>2, <5>1, <5>2, RowsStep DEF Creates, Judges, Verifies
        <5> QED BY <3>1, <5>3
      <4> QED BY <4>1, <4>2
    <3> QED BY <3>2, <3>3 DEF Outstanding
  <2> QED BY <2>1, <2>2
<1> QED BY <1>1, <1>2

\* A check that sees everything leaves room for its file.
LEMMA RoomChecked ==
    ASSUME Base, UploadAssumption, SizesTold, NEW f \in Files, CheckQuota(f),
           caller'[f] = "create", blind' = {}
    PROVE  used' + Sum(Declared, Outstanding') <= Quota
<1> DEFINE pending == {g \in WithStatus("PENDING_UPLOAD") : usable[g]}
<1>0. /\ caller \in [Files -> {"form", "quota", "create", "schedule", "issued", "refused"}]
      /\ status \in [Files -> Verdicts \cup {"none"}] /\ used \in Nat
      /\ Declared \in [Files -> Nat] /\ IsFiniteSet(Files) /\ Quota \in Nat
  BY UploadAssumption DEF Base, TypeOK
<1>1. /\ caller[f] = "quota" /\ caller' = [caller EXCEPT ![f] = "create"]
      /\ seenUsed[f] + SumBytes(pending) + Declared[f] <= Quota
      /\ blind' = blind \cup Unseen(f) /\ UNCHANGED <<used, status, usable, object>>
  BY <1>0 DEF CheckQuota, Call, rowVars, clientVars
<1>2. Unseen(f) = {}
  BY <1>1
<1>3. seenUsed[f] = used /\ \A g \in Files : caller[g] # "create"
  BY <1>2 DEF Unseen
<1>4. \A g \in Files : status[g] \in Verdicts \ {"VERIFIED"} =>
          \/ status[g] = "PENDING_UPLOAD" /\ usable[g]
          \/ ~usable[g] /\ object[g] = Absent
  BY <1>2 DEF Unseen
<1>5. f \notin pending
  BY <1>1 DEF WithStatus, Base, QueueInv, Early
<1>6. Outstanding' = pending \cup {f}
  <2>1. \A g \in Files : caller'[g] = "create" <=> g = f
    BY <1>0, <1>1, <1>3
  <2>2. \A g \in Files : status[g] \in Verdicts \ {"VERIFIED"} /\ (usable[g] \/ object[g] # Absent)
                         <=> g \in pending
    BY <1>4 DEF WithStatus, Verdicts
  <2> QED BY <1>1, <2>1, <2>2 DEF Outstanding, WithStatus
<1>7. IsFiniteSet(pending) /\ pending \subseteq Files
  BY <1>0, FS_Subset DEF WithStatus
<1>8. SumBytes(pending) = Sum(Declared, pending)
  <2>1. \A g \in pending : bytes[g] = Declared[g]
    BY DEF SizesTold, WithStatus
  <2> HIDE DEF pending
  <2> QED BY <1>7, <2>1, SumSame, SumBytesIs
<1> HIDE DEF pending
<1>9. Sum(Declared, Outstanding') = Declared[f] + Sum(Declared, pending)
  <2>1. IsFiniteSet(Outstanding') /\ Outstanding' \ {f} = pending /\ f \in Outstanding'
    BY <1>5, <1>6, <1>7, FS_AddElement
  <2>2. \A g \in Outstanding' : Declared[g] \in Nat
    BY <1>0, <1>6, <1>7
  <2> QED BY <2>1, <2>2, SumOut
<1>10. Sum(Declared, pending) \in Nat /\ Declared[f] \in Nat
  BY <1>0, <1>7, SumNat
<1> QED BY <1>0, <1>1, <1>3, <1>8, <1>9, <1>10

\* A file that is verified takes the room that was kept for it.
LEMMA RoomTaken ==
    ASSUME Base, UploadAssumption, SizesTold, OwnLength, OwnLength', [Next]_vars, NoneWithdrawn',
           \A g \in Files : ~CheckQuota(g), NEW f \in Files, Verifies(f)
    PROVE  used' + Sum(Declared, Outstanding') <= used + Sum(Declared, Outstanding)
<1>0. /\ Declared \in [Files -> Nat] /\ IsFiniteSet(Files) /\ used \in Nat
      /\ status \in [Files -> Verdicts \cup {"none"}]
  BY UploadAssumption DEF Base, TypeOK
<1>1. used' = used + Declared[f] /\ object[f] # Absent
  BY DEF Verifies, SizesTold
<1>2. f \in Outstanding /\ f \notin Outstanding'
  BY <1>0, <1>1 DEF Verifies, SizesTold, Outstanding
<1>3. Outstanding' \subseteq Outstanding \ {f} /\ Outstanding \subseteq Files
  BY <1>2, OutstandingLast DEF Outstanding
<1>4. IsFiniteSet(Outstanding) /\ IsFiniteSet(Outstanding \ {f}) /\ IsFiniteSet(Outstanding')
  BY <1>0, <1>3, FS_Subset
<1>5. Sum(Declared, Outstanding) = Declared[f] + Sum(Declared, Outstanding \ {f})
  BY <1>0, <1>2, <1>3, <1>4, SumOut
<1>6. Sum(Declared, Outstanding') <= Sum(Declared, Outstanding \ {f})
  BY <1>0, <1>3, <1>4, SumFewer
<1>7. Sum(Declared, Outstanding') \in Nat /\ Sum(Declared, Outstanding \ {f}) \in Nat
  BY <1>0, <1>3, <1>4, SumNat
<1> QED BY <1>0, <1>1, <1>5, <1>6, <1>7

\* Each step preserves RoomTold.
LEMMA RoomStep ==
    ASSUME Base, UploadAssumption, QuotaInv, [Next]_vars PROVE RoomTold'
<1> SUFFICES ASSUME blind' = {}, OwnLength', NoneWithdrawn'
             PROVE  used' + Sum(Declared, Outstanding') <= Quota
  BY DEF RoomTold
<1>0. /\ NoneWithdrawn /\ OwnLength /\ SizesTold /\ used \in Nat /\ Quota \in Nat /\ IsFiniteSet(Files)
      /\ Declared \in [Files -> Nat]
      /\ caller \in [Files -> {"form", "quota", "create", "schedule", "issued", "refused"}]
      /\ Outstanding \subseteq Files
  BY StepGrows, UploadAssumption DEF NoneWithdrawn, OwnLength, Happened, Grows, QuotaInv, Base, TypeOK, Outstanding
<1>1. IsFiniteSet(Outstanding) /\ Sum(Declared, Outstanding) \in Nat
  BY <1>0, FS_Subset, SumNat
<1>2. ASSUME NEW f \in Files, CheckQuota(f), caller'[f] # "create"
      PROVE  used' + Sum(Declared, Outstanding') <= Quota
  <2>1. /\ UNCHANGED <<used, status, usable, object, blind>>
        /\ \A g \in Files : caller'[g] = "create" <=> caller[g] = "create"
    BY <1>0, <1>2 DEF CheckQuota, Call, rowVars, clientVars
  <2>2. Outstanding' = Outstanding
    BY <2>1 DEF Outstanding
  <2> QED BY <1>0, <2>1, <2>2 DEF QuotaInv, RoomTold
<1>3. ASSUME \A f \in Files : ~CheckQuota(f)
      PROVE  used' + Sum(Declared, Outstanding') <= Quota
  <2>1. used + Sum(Declared, Outstanding) <= Quota
    <3>1. blind = {}
      BY <1>3, BlindLast
    <3> QED BY <1>0, <3>1 DEF QuotaInv, RoomTold
  <2>2. Outstanding' \subseteq Outstanding
    BY <1>0, <1>3, OutstandingLast
  <2>3. IsFiniteSet(Outstanding') /\ Sum(Declared, Outstanding') \in Nat
        /\ Sum(Declared, Outstanding') <= Sum(Declared, Outstanding)
    BY <1>0, <1>1, <2>2, FS_Subset, SumNat, SumFewer
  <2>4. CASE used' = used
    BY <1>0, <1>1, <2>1, <2>3, <2>4
  <2>5. ASSUME NEW f \in Files, Verifies(f) PROVE used' + Sum(Declared, Outstanding') <= Quota
    <3>1. used' + Sum(Declared, Outstanding') <= used + Sum(Declared, Outstanding)
      BY <1>0, <1>3, <2>5, RoomTaken
    <3>2. used' \in Nat
      BY <1>0, <2>5 DEF Verifies
    <3> QED BY <1>0, <1>1, <2>1, <2>3, <3>1, <3>2
  <2> QED BY <2>4, <2>5, RowsStep DEF Creates, Judges
<1> QED BY <1>0, <1>2, <1>3, RoomChecked

\* The verified bytes stay within the quota, as long as every check saw all that
\* was promised, the URLs bind the declared length, and no verdict is withdrawn.
THEOREM QuotaHolds == Spec => []QuotaRespected
<1>1. Init => QuotaInv
  <2>1. Init => /\ used = 0 /\ Outstanding = {}
                /\ \A f \in Files : caller[f] = "form" /\ status[f] = "none" /\ object[f] = Absent
                /\ \A w \in Workers : wpc[w] = "idle"
    BY DEF Init, Outstanding, Verdicts
  <2>2. Sum(Declared, {}) = 0 /\ Quota \in Nat
    BY SumEmpty, UploadAssumption
  <2> QED BY <2>1, <2>2 DEF QuotaInv, SizesTold, RoomTold
<1>2. Base /\ QuotaInv /\ [Next]_vars => QuotaInv'
  BY UploadAssumption, SizesStep, RoomStep DEF QuotaInv
<1>3. Base /\ QuotaInv => QuotaRespected
  <2> SUFFICES ASSUME Base, QuotaInv, blind = {}, OwnLength, NoneWithdrawn PROVE used <= Quota
    BY DEF QuotaRespected
  <2>1. IsFiniteSet(Outstanding) /\ Declared \in [Files -> Nat] /\ Outstanding \subseteq Files
    BY UploadAssumption, FS_Subset DEF Outstanding
  <2>2. Sum(Declared, Outstanding) \in Nat /\ used \in Nat /\ Quota \in Nat
    BY <2>1, SumNat, UploadAssumption DEF Base, TypeOK
  <2> QED BY <2>2 DEF QuotaInv, RoomTold
<1> QED BY <1>1, <1>2, <1>3, BaseAlways, PTL DEF Spec
=============================================================================
