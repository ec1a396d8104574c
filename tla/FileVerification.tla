-------------------------- MODULE FileVerification --------------------------
(***************************************************************************)
(* Uploads: StorageService.generatePresignedUrl, the client's upload, the  *)
(* submission that claims the file, and FileVerifierProcessor.process,     *)
(* which two jobs run for one file: one scheduled when the URL is issued,  *)
(* one added by the submission. Every await of a handler is a step.        *)
(***************************************************************************)
EXTENDS Integers, FiniteSets, FiniteSetsExt

CONSTANTS
    Files,          \* calls of generatePresignedUrl, each for its own file
    Declared,       \* the size each declares
    Sizes,          \* other sizes a client may upload
    MaxBytes,       \* MAX_FILE_SIZE_MB
    Claimable,      \* those a submission may refer to
    Quota,          \* Organization.storageQuotaBytes
    Workers,        \* the slots of the worker pool
    NoJob,          \* the job of an idle worker
    Attempts,       \* attempts of a verify job (3 and 5)
    Events,         \* the environment events this instance allows
    MaxFaults       \* how many kinds of them one behaviour shows

\* Where the URL binds the declared length and type (S3, not MinIO), an instance
\* leaves out "other_length", "wrong_type" and "no_type". A wrong type excuses
\* nothing and is not counted as a fault.
EventKinds == {"crash", "db_error", "queue_error", "storage_error", "wrong_type",
               "no_type", "other_length", "upload_again", "upload_late"}

ASSUME UploadAssumption ==
    /\ IsFiniteSet(Files)
    /\ Declared \in [Files -> 1..MaxBytes] /\ Sizes \subseteq Nat \ {0}
    /\ Claimable \subseteq Files /\ MaxBytes \in Nat \ {0} /\ Quota \in Nat
    /\ Attempts \in Nat \ {0} /\ MaxFaults \in Nat
    /\ Events \subseteq EventKinds
    /\ NoJob \notin {"presign", "submission"} \X Files

Jobs == {"presign", "submission"} \X Files
Verdicts == {"PENDING_UPLOAD", "VERIFIED", "QUARANTINED", "DELETED"}
Settled == {"VERIFIED", "QUARANTINED"} \X Files
\* The stored content type: what was declared, another one, or none at all.
Types == {"declared", "other", "none"}
Absent == [size |-> 0, type |-> "none"]

VARIABLES
    caller,     \* where each generatePresignedUrl is
    seenUsed,   \* the storageUsedBytes it read
    status,     \* FormSubmissionFile.status, "none" before the row exists
    bytes,      \* FormSubmissionFile.sizeBytes
    usable,     \* whether the URL has not expired
    object,     \* what lies at the object key
    claimed,    \* whether a submission refers to the file
    linked,     \* FormSubmissionFile.submissionId is set
    used,       \* Organization.storageUsedBytes
    queue,      \* each verify job in BullMQ
    tries,      \* job.attemptsMade
    wpc,        \* where each worker is in process
    wjob,       \* the job it runs
    found,      \* the object its attempt found
    charges,    \* history: how often the file was charged
    overruled,  \* history: <<verdict, file>> that another job replaced
    blind,      \* history: what a quota check did not see
    faults      \* history: <<what went wrong, with which file>>

callVars == <<caller, seenUsed, blind>>
rowVars == <<status, bytes, linked, used, charges, overruled>>
clientVars == <<usable, object, claimed>>
jobVars == <<queue, tries>>
workerVars == <<wpc, wjob, found>>
vars == <<callVars, rowVars, clientVars, jobVars, workerVars, faults>>

Init ==
    /\ caller = [f \in Files |-> "form"]
    /\ seenUsed = [f \in Files |-> 0]
    /\ status = [f \in Files |-> "none"]
    /\ bytes = [f \in Files |-> 0]
    /\ usable = [f \in Files |-> FALSE]
    /\ object = [f \in Files |-> Absent]
    /\ claimed = [f \in Files |-> FALSE]
    /\ linked = [f \in Files |-> FALSE]
    /\ used = 0
    /\ queue = [j \in Jobs |-> "none"]
    /\ tries = [j \in Jobs |-> 0]
    /\ wpc = [w \in Workers |-> "idle"]
    /\ wjob = [w \in Workers |-> NoJob]
    /\ found = [w \in Workers |-> Absent]
    /\ charges = [f \in Files |-> 0]
    /\ overruled = {} /\ blind = {} /\ faults = {}

Occur(kinds, f) ==
    /\ kinds \subseteq Events
    /\ faults' = faults \cup (kinds \X {f})
    /\ Cardinality(faults') <= MaxFaults
Occurs(kind, f) == Occur({kind}, f)

SumBytes(S) == MapThenSumSet(LAMBDA f : bytes[f], S)
WithStatus(s) == {f \in Files : status[f] = s}

-----------------------------------------------------------------------------
(* generatePresignedUrl: the usage, then the reservations, then the row.   *)

Call(f, from, to) == caller[f] = from /\ caller' = [caller EXCEPT ![f] = to]

\* The form, its question and the organization's usage, in one query.
ReadForm(f) ==
    /\ Call(f, "form", "quota")
    /\ seenUsed' = [seenUsed EXCEPT ![f] = used]
    /\ UNCHANGED <<blind, rowVars, clientVars, jobVars, workerVars, faults>>

\* What the sum of usage and reservations leaves out.
Unseen(f) ==
    {k \in {"overlap"} : \E g \in Files : caller[g] = "create"}
    \cup {k \in {"unreserved"} :
             \E g \in Files : /\ status[g] \in Verdicts \ {"VERIFIED"}
                              /\ ~(status[g] = "PENDING_UPLOAD" /\ usable[g])
                              /\ usable[g] \/ object[g] # Absent}
    \cup {k \in {"between"} : seenUsed[f] # used}

\* Mutant: bytes that are promised but not yet verified are not reserved.
CheckUsedOnly(f) ==
    LET fits == seenUsed[f] + Declared[f] <= Quota
    IN /\ Call(f, "quota", IF fits THEN "create" ELSE "refused")
       /\ blind' = IF fits THEN blind \cup Unseen(f) ELSE blind
       /\ UNCHANGED <<seenUsed, rowVars, clientVars, jobVars, workerVars,
                      faults>>

\* The sum of the pending reservations whose URL has not expired.
CheckQuota(f) ==
    LET reserved == SumBytes({g \in WithStatus("PENDING_UPLOAD") : usable[g]})
        fits == seenUsed[f] + reserved + Declared[f] <= Quota
    IN /\ Call(f, "quota", IF fits THEN "create" ELSE "refused")
       /\ blind' = IF fits THEN blind \cup Unseen(f) ELSE blind
       /\ UNCHANGED <<seenUsed, rowVars, clientVars, jobVars, workerVars,
                      faults>>

CreateRow(f) ==
    /\ Call(f, "create", "schedule")
    /\ status' = [status EXCEPT ![f] = "PENDING_UPLOAD"]
    /\ bytes' = [bytes EXCEPT ![f] = Declared[f]]
    /\ usable' = [usable EXCEPT ![f] = TRUE]
    /\ UNCHANGED <<seenUsed, blind, linked, used, charges, overruled, object,
                   claimed, jobVars, workerVars, faults>>

\* The job is delayed until the URL has expired for a minute; if it cannot be
\* added, the row stays and the client gets no URL.
ScheduleVerify(f) ==
    /\ \/ /\ Call(f, "schedule", "issued")
          /\ queue' = [queue EXCEPT ![<<"presign", f>>] = "delayed"]
          /\ UNCHANGED faults
       \/ /\ Call(f, "schedule", "refused") /\ Occurs("queue_error", f)
          /\ UNCHANGED queue
    /\ UNCHANGED <<seenUsed, blind, rowVars, clientVars, tries, workerVars>>

GeneratePresignedUrl(f) ==
    ReadForm(f) \/ CheckQuota(f) \/ CreateRow(f) \/ ScheduleVerify(f)

-----------------------------------------------------------------------------
(* The client, the submission and the clock.                               *)

\* Some attempt has found f in order, and is about to say so or has said so.
Passed(f) ==
    \/ status[f] = "VERIFIED"
    \/ \E w \in Workers : wpc[w] = "commit" /\ wjob[w][2] = f

\* A PUT to the URL, with another length or type where the URL does not bind
\* them, and again, also after the check, as long as the URL is good.
Upload(f) ==
    /\ caller[f] = "issued" /\ usable[f]
    /\ \E n \in Sizes \cup {Declared[f]},
          type \in Types \ {t \in {"other"} : "wrong_type" \notin Events} :
        /\ object' = [object EXCEPT ![f] = [size |-> n, type |-> type]]
        /\ Occur({k \in {"other_length"} : n # Declared[f]}
                 \cup {k \in {"no_type"} : type = "none"}
                 \cup {k \in {"upload_again"} : object[f] # Absent /\ ~Passed(f)}
                 \cup {k \in {"upload_late"} : Passed(f)}, f)
    /\ UNCHANGED <<callVars, rowVars, usable, claimed, jobVars, workerVars>>

ExpireUrl(f) ==
    /\ usable[f] /\ usable' = [usable EXCEPT ![f] = FALSE]
    /\ UNCHANGED <<callVars, rowVars, object, claimed, jobVars, workerVars,
                   faults>>

\* linkAndVerifyFiles of the submission's worker; its errors are swallowed.
ClaimFile(f) ==
    /\ caller[f] = "issued" /\ f \in Claimable /\ ~claimed[f]
    /\ claimed' = [claimed EXCEPT ![f] = TRUE]
    /\ \/ /\ linked' = [linked EXCEPT ![f] = TRUE]
          /\ queue' = [queue EXCEPT ![<<"submission", f>>] = "waiting"]
          /\ UNCHANGED faults
       \/ /\ linked' = [linked EXCEPT ![f] = TRUE]
          /\ Occurs("queue_error", f) /\ UNCHANGED queue
       \/ Occurs("db_error", f) /\ UNCHANGED <<linked, queue>>
    /\ UNCHANGED <<callVars, status, bytes, used, charges, overruled, usable,
                   object, tries, workerVars>>

\* Mutant: the delay is not longer than the life of the URL.
VerifyEarly(f) ==
    /\ queue[<<"presign", f>>] = "delayed"
    /\ queue' = [queue EXCEPT ![<<"presign", f>>] = "waiting"]
    /\ UNCHANGED <<callVars, rowVars, clientVars, tries, workerVars, faults>>

\* Mutant: only files that a submission claimed are verified.
VerifyWhenClaimed(f) ==
    /\ queue[<<"presign", f>>] = "delayed" /\ ~usable[f] /\ claimed[f]
    /\ queue' = [queue EXCEPT ![<<"presign", f>>] = "waiting"]
    /\ UNCHANGED <<callVars, rowVars, clientVars, tries, workerVars, faults>>

\* The delayed job becomes due once the URL has expired.
VerifyIsDue(f) ==
    /\ queue[<<"presign", f>>] = "delayed" /\ ~usable[f]
    /\ queue' = [queue EXCEPT ![<<"presign", f>>] = "waiting"]
    /\ UNCHANGED <<callVars, rowVars, clientVars, tries, workerVars, faults>>

-----------------------------------------------------------------------------
(* FileVerifierProcessor.process.                                          *)

Goto(w, from, to) == wpc[w] = from /\ wpc' = [wpc EXCEPT ![w] = to]
KeepJob == UNCHANGED <<jobVars, wjob, found>>
FileOf(w) == wjob[w][2]
ForSubmission(w) == wjob[w][1] = "submission"

TakeJob(w, j) ==
    /\ queue[j] = "waiting" /\ Goto(w, "idle", "read")
    /\ queue' = [queue EXCEPT ![j] = "active"]
    /\ wjob' = [wjob EXCEPT ![w] = j]
    /\ UNCHANGED <<callVars, rowVars, clientVars, tries, found, faults>>

\* The job is over, or waits for another attempt.
EndAttempt(w, threw) ==
    LET j == wjob[w]
        result == IF ~threw THEN "done"
                  ELSE IF tries[j] + 1 >= Attempts THEN "failed"
                  ELSE "waiting"
    IN /\ wpc' = [wpc EXCEPT ![w] = "idle"]
       /\ wjob' = [wjob EXCEPT ![w] = NoJob]
       /\ found' = [found EXCEPT ![w] = Absent]
       /\ queue' = [queue EXCEPT ![j] = result]
       /\ tries' = IF threw THEN [tries EXCEPT ![j] = @ + 1] ELSE tries

\* A database error, or a worker that dies, also after its verdict is committed,
\* and whose job is delivered again; a redelivery counts as an attempt, which
\* bounds it as maxStalledCount does.
AttemptFails(w) ==
    /\ wpc[w] # "idle" /\ EndAttempt(w, TRUE)
    /\ \/ Occurs("crash", FileOf(w))
       \/ wpc[w] \notin {"stat", "done"} /\ Occurs("db_error", FileOf(w))
    /\ UNCHANGED <<callVars, rowVars, clientVars>>

\* What process writes is committed before BullMQ hears that the job is done.
Finish(w, from) ==
    /\ Goto(w, from, "done")
    /\ found' = [found EXCEPT ![w] = Absent]
    /\ UNCHANGED <<jobVars, wjob>>

CompleteJob(w) ==
    /\ wpc[w] = "done" /\ EndAttempt(w, FALSE)
    /\ UNCHANGED <<callVars, rowVars, clientVars, faults>>

ReadFile(w) ==
    LET f == FileOf(w) IN
    /\ Goto(w, "read", IF status[f] = "VERIFIED" THEN "link" ELSE "stat")
    /\ KeepJob
    /\ UNCHANGED <<callVars, rowVars, clientVars, faults>>

\* Already verified: the submission's job still records who owns the file.
LinkVerified(w) ==
    /\ Finish(w, "link")
    /\ linked' = [linked EXCEPT ![FileOf(w)] = @ \/ ForSubmission(w)]
    /\ UNCHANGED <<callVars, status, bytes, used, charges, overruled,
                   clientVars, faults>>

\* Too large, or stored with another type than was declared.
Refused(o) == o.size > MaxBytes \/ o.type = "other"

\* HEAD or stat: any exception counts as an absent object.
StatObject(w) ==
    LET f == FileOf(w)
        o == object[f]
    IN /\ \/ /\ Goto(w, "stat", IF o = Absent THEN "delete"
                                ELSE IF Refused(o) THEN "quarantine"
                                ELSE "commit")
             /\ found' = [found EXCEPT ![w] = o]
             /\ UNCHANGED faults
          \/ /\ Goto(w, "stat", "delete") /\ Occurs("storage_error", f)
             /\ UNCHANGED found
       /\ UNCHANGED <<jobVars, wjob, callVars, rowVars, clientVars>>

\* A verdict that looks at nothing but the file's id.
Overrule(w, from, verdict) ==
    LET f == FileOf(w) IN
    /\ Finish(w, from)
    /\ status' = [status EXCEPT ![f] = verdict]
    /\ overruled' = overruled \cup ({<<status[f], f>>} \cap Settled)
    /\ UNCHANGED <<callVars, linked, used, charges, clientVars, faults>>

MarkDeleted(w) ==
    /\ Overrule(w, "delete", "DELETED")
    /\ UNCHANGED bytes

Quarantine(w) ==
    /\ Overrule(w, "quarantine", "QUARANTINED")
    /\ bytes' = [bytes EXCEPT ![FileOf(w)] = found[w].size]

\* Mutant: the status is not in the WHERE clause.
CommitAlways(w) ==
    LET f == FileOf(w) IN
    /\ Finish(w, "commit")
    /\ linked' = [linked EXCEPT ![f] = @ \/ ForSubmission(w)]
    /\ status' = [status EXCEPT ![f] = "VERIFIED"]
    /\ bytes' = [bytes EXCEPT ![f] = found[w].size]
    /\ used' = used + found[w].size
    /\ charges' = [charges EXCEPT ![f] = @ + 1]
    /\ UNCHANGED <<overruled, callVars, clientVars, faults>>

\* One transaction: the status moves unless it is VERIFIED already, the owner is
\* recorded, and the job whose update counted charges the organization.
CommitVerified(w) ==
    LET f == FileOf(w) IN
    /\ Finish(w, "commit")
    /\ linked' = [linked EXCEPT ![f] = @ \/ ForSubmission(w)]
    /\ IF status[f] = "VERIFIED"
       THEN UNCHANGED <<status, bytes, used, charges>>
       ELSE /\ status' = [status EXCEPT ![f] = "VERIFIED"]
            /\ bytes' = [bytes EXCEPT ![f] = found[w].size]
            /\ used' = used + found[w].size
            /\ charges' = [charges EXCEPT ![f] = @ + 1]
    /\ UNCHANGED <<overruled, callVars, clientVars, faults>>

Verify(w) ==
    \/ ReadFile(w) \/ LinkVerified(w) \/ StatObject(w) \/ MarkDeleted(w)
    \/ Quarantine(w) \/ CommitVerified(w) \/ CompleteJob(w)

Next ==
    \/ \E f \in Files :
        \/ GeneratePresignedUrl(f) \/ Upload(f) \/ ExpireUrl(f)
        \/ ClaimFile(f) \/ VerifyIsDue(f)
    \/ \E w \in Workers :
        \/ \E j \in Jobs : TakeJob(w, j)
        \/ Verify(w) \/ AttemptFails(w)

Spec == Init /\ [][Next]_vars

\* Handlers and workers run on, time passes, and the queue delivers.
FairSpec ==
    /\ Spec
    /\ \A f \in Files : WF_vars(GeneratePresignedUrl(f)) /\ WF_vars(ExpireUrl(f))
                        /\ WF_vars(VerifyIsDue(f))
    /\ \A w \in Workers : WF_vars(Verify(w))
    /\ \A j \in Jobs : WF_vars(\E w \in Workers : TakeJob(w, j))

-----------------------------------------------------------------------------
(* Properties.                                                             *)

\* Types; a worker has a job exactly while it is not idle, and an active job has
\* one worker.
TypeOK ==
    /\ caller \in [Files -> {"form", "quota", "create", "schedule", "issued",
                             "refused"}]
    /\ seenUsed \in [Files -> Nat] /\ used \in Nat
    /\ status \in [Files -> Verdicts \cup {"none"}]
    /\ bytes \in [Files -> Nat] /\ charges \in [Files -> Nat]
    /\ usable \in [Files -> BOOLEAN] /\ claimed \in [Files -> BOOLEAN]
    /\ linked \in [Files -> BOOLEAN] /\ overruled \subseteq Settled
    /\ object \in [Files -> [size : Nat, type : Types]]
    /\ queue \in [Jobs -> {"none", "delayed", "waiting", "active", "done",
                           "failed"}]
    /\ tries \in [Jobs -> 0..Attempts]
    /\ wpc \in [Workers -> {"idle", "read", "link", "stat", "delete",
                            "quarantine", "commit", "done"}]
    /\ wjob \in [Workers -> Jobs \cup {NoJob}]
    /\ found \in [Workers -> [size : Nat, type : Types]]
    /\ \A w \in Workers : IF wpc[w] = "idle" THEN wjob[w] = NoJob
                          ELSE wjob[w] \in Jobs /\ queue[wjob[w]] = "active"
    /\ \A v, w \in Workers : wjob[v] = wjob[w] /\ v # w => wjob[v] = NoJob

Happened(kinds, f) == \E k \in kinds : <<k, f>> \in faults

\* "increment exactly once": a file's bytes are charged once however its two
\* jobs overlap, unless one of them withdrew the verdict in between.
ChargedOnce ==
    \A f \in Files : <<"VERIFIED", f>> \notin overruled =>
        charges[f] = IF status[f] = "VERIFIED" THEN 1 ELSE 0

NoneWithdrawn == \A f \in Files : <<"VERIFIED", f>> \notin overruled

\* "usage can never drift from verified files" (file-verifier.processor.ts:152),
\* unless a verdict was withdrawn: the usage is not taken back then, and is
\* charged again if the file is verified again.
UsageMatchesVerified ==
    NoneWithdrawn => used = SumBytes(WithStatus("VERIFIED"))

\* No client uploads another length than it declared.
OwnLength == \A f \in Files : ~Happened({"other_length"}, f)

\* The quota bounds the verified bytes, unless a check could not see what was
\* promised (an overlapping call, an upload whose URL has expired before its job
\* ran, a DELETED row whose object may still arrive and be verified, a file
\* verified between the two reads), or a client uploads another length than it
\* declared, or a verdict was withdrawn.
QuotaRespected ==
    blind = {} /\ OwnLength /\ NoneWithdrawn => used <= Quota

\* A file that is offered for download is the object that was checked, however
\* often it was uploaded before. Only a file that a submission had verified
\* while its URL was good can be another: one uploaded since. A file that only
\* the scheduled job has verified never is.
VerifiedIsWhatWasChecked ==
    \A f \in Files : status[f] = "VERIFIED" =>
        \/ /\ object[f] # Absent /\ ~Refused(object[f])
           /\ object[f].size = bytes[f]
        \/ claimed[f] /\ Happened({"upload_late"}, f)

\* "Firing after the URL expires means the outcome is final" (storage.service.ts
\* :330): from when the scheduled job is done, the status tells what became of
\* the upload, unless the storage failed, the client uploaded again after the
\* check of the other job, or that job put an older reading over it.
VerdictIsFinal ==
    \A f \in Files :
        /\ queue[<<"presign", f>>] = "done"
        /\ ~Happened({"storage_error", "upload_late"}, f)
        /\ \A v \in Verdicts : <<v, f>> \notin overruled
        => status[f] = IF object[f] = Absent THEN "DELETED"
                       ELSE IF Refused(object[f]) THEN "QUARANTINED"
                       ELSE "VERIFIED"

\* Every file is judged in the end, whatever fails on the way, unless the
\* scheduled job could not be added or failed in each of its attempts.
PendingEnds ==
    \A f \in Files : status[f] = "PENDING_UPLOAD" ~>
        \/ status[f] # "PENDING_UPLOAD"
        \/ caller[f] = "refused" \/ queue[<<"presign", f>>] = "failed"
=============================================================================
