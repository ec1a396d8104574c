# A TLA+ model of the form-builder platform

The repository is a multi-tenant form platform: a NestJS API with a BullMQ worker
(`src/form-builder-backend`), PostgreSQL through Prisma, Redis for counters, caches
and queues, S3-like object storage, and a Next.js front end (`src/frontend`). This
directory holds TLA+ models of the parts of it where several requests, workers or
respondents meet on the same state, the TLC instances that check them, and proofs of
the properties that hold for every instance.

Contents: [system](#the-system) · [modules](#the-modules) · [runs](#the-runs) ·
[fairness](#fairness) · [proofs](#proofs) · [findings](#findings) ·
[divergences](#known-divergences) · [abstractions](#abstractions) ·
[not modelled](#not-modelled) · [plan](#plan).

## The system

Paths are relative to `src/form-builder-backend/src` unless they start with `frontend`.

| Component | State | Operations | Hard behaviour | Modelled |
|---|---|---|---|---|
| Public intake (`modules/submissions/submissions.service.ts`) | Redis: monthly and form counters, dedupe markers, cached policy; the form's row | `submitForm` and its helpers | overlapping requests between every `await`; claims to be unwound; Redis failing open; seeding a lost counter | `SubmissionIngest` |
| Submission worker (`modules/submissions/queues`) | rows, records, analytics, file links, webhook jobs | `process` and its side effects | redelivery while running, retries after the commit, a lagging reader, side effects that fail one by one | `SubmissionWorker` |
| Webhooks (`modules/webhooks/queues`) | deliveries, `isActive` | `process` of a delivery | at-least-once, deactivation, telling the admins once it is over | `SubmissionWorker` |
| Exports (`modules/exports`) | row, object, job | `createExport`, `runExport`, `handleFailure`, `sweep` | redelivery while running, crash, row and object disagreeing, retention | `ExportJobs` |
| Form app sittings (`modules/form-apps`) | sessions, staged entries, filed rows, records | open, save, delete, reset, submit | two tabs, two coordinators, check-then-write, post-commit enqueue | `FormAppSessions` |
| Runner and autosave (`frontend/src/hooks/use-app-session.ts`, `frontend/src/components/apps/AppRunner.tsx`) | drafts, cards, timers, requests in flight | type, fold, add, remove, reset, submit, reload | saves out of order, indexes that move under timers and cards | `EntryAutosave` |
| Storage and verifier (`modules/storage`) | file rows, objects, usage | presign, upload, claim, `process` | two jobs for one file, quota check-then-create, an object replaced after the check | `FileVerification` |
| Notifications (`modules/notifications`) | Redis set of streams, per-pod listeners and subscriptions | `connect`, its teardown, heartbeats, retain and release | reference counts over awaits, a pod that dies, simultaneous admissions | `NotificationStream` |
| Moderation (`submissions.service.ts`) | row status | delete, review, bulk | refunds of counters, stale status | delete only |
| Forms and versions (`modules/forms`) | form, versions, caches | update, publish, delete, restore | optimistic concurrency, cache invalidation | writes that intake reads |
| Auth (`modules/auth`) | refresh token families | login, refresh, logout, reset | rotation against burning | no |
| Session cache, API keys (`common/infra/session`, `common/auth`) | Redis entries | fill, invalidate | stale fill | no (shape of the ingest policy) |
| Analytics (`modules/analytics`) | Redis buckets | record, flush | two flushers, crash between read and write | no |
| Rules, cadence, scope (`common/rules`, `modules/form-apps/logic`) | none (pure) | evaluate | mirrored on both sides | step scope only |
| Organizations, subjects, choice lists, templates, admin, audit, mail, assistant, feature flags, tenancy, infrastructure | rows | mostly sequential CRUD | | no (see `PROJECT.json`) |

Components interact through the database, Redis and queues. Intake and sittings both
create submissions and hand them to the submission worker; the worker queues the
webhooks and the verification of files; the owner's endpoints invalidate the policy
intake caches; moderation deletes rows that intake, sittings and exports count; the
runner drives the session endpoints. `prisma.reader` may be a replica; Redis commands
and PostgreSQL transactions are atomic, and everything between two awaits of one
handler may interleave with others.

What makes each component correct:

- **Intake**: limits are never exceeded by overlap; a refused or failed request gives
  back what it claimed and nothing else; one response per respondent where the form
  asks for it; a deleted form leaves the cache.
- **Worker and webhooks**: a submission is stored, counted and registered once; a job
  that ended well left no side effect undone; a job is given up only for a reason of its
  own; every delivery is recorded, switched off or reported, and never reported early.
- **Exports**: a completed export can be downloaded until it expires; a failed one
  stays failed; nothing stays running for good; objects do not outlive retention; the
  concurrency limit holds.
- **Sittings**: one draft to resume; everything staged is filed, once; one row per
  occurrence of a record's step; step maximum and monthly allowance.
- **Autosave**: what is typed reaches the server and the report; what is removed stays
  away; indexes agree on both sides.
- **Files**: usage equals the verified bytes; the quota bounds them; what can be
  downloaded is what was checked; the scheduled verdict is final; nothing stays pending.
- **Streams**: an open stream is subscribed; the cap holds; nothing leaks.

The hazards behind these, each with its line and the properties that cover it, are in
`PROJECT.json` under `hazards`.

## The modules

Each module models one component. Each await of a handler is a step; a variable `at`,
`caller`, `wpc`, `phase` or `pc` says at which one it is. Some operators are marked
*Mutant*: the same action with a plausible mistake, beside the action it changes.

### SubmissionIngest

`submitForm` as a program counter per request: `pc[r]` names the await the request
is at. State maps as follows.

| Variable | Code |
|---|---|
| `cache` | Redis `ingest_policy:<form>`: the two fields that an edit changes; the rest of the policy are constants |
| `snap[r]` | the `policy` object the request works from |
| `monthUsed[m]`, `formUsed` | Redis `quota:sub:<org>:<YYYY-MM>`, `quota:form:<form>` (absent is 0) |
| `markers` | Redis `dedupe:<form>:...` keys, set with `NX` |
| `form`, `row[r]` | the form's row; the submission: queued, stored, deleted or lost |
| `monthSlot[r]`, `gaveBack[r]`, `formSlot[r]`, `faults` | history variables: the month whose slot a request holds, the other month whose counter it decremented instead, whether it holds one of the form's slots, what went wrong |

Each request runs `ReadCachedPolicy`, `LoadPolicy`/`FillPolicy`, the checks, the
duplicate check, `ClaimMonth`, `ClaimForm` (with `CountStored`, `SeedCounter`), then
`Enqueue`, or one of the unwinding paths (`RefuseMonth`; `RefuseForm`, `CloseForm`,
`DropPolicy`, `GiveBackMonth`; `EnqueueFails`, `UnwindMonth`, `UnwindForm`). Every
Redis command can fail where `store_error` is allowed, with the consequence the
surrounding `catch` gives it. `ReleaseMonth` decrements the month of the *moment*, as
the code does: if that is the month of the claim the slot is free again, otherwise the
month of the claim keeps it (`monthSlot`) and the other month is one short (`gaveBack`,
counted by `Misplaced`). `NextMonth` is no exception of any property.

### SubmissionDelivery and SubmissionWorker

`SubmissionDelivery` is the promise: a submission is accepted, then stored or given up;
it is announced (`Mail`, or a webhook) only once it is stored; and it does not stay
accepted for ever. `SubmissionWorker` is the code behind it, two processors on their
queues, with a pool of workers.

| Variable | Code |
|---|---|
| `row`, `subjects`, `counted` | `FormSubmission`, the `Subject` it registers, its place in `form_analytics`: one transaction |
| `replica` | what `prisma.reader` shows: older rows and webhooks |
| `files` | its `FormSubmissionFile` rows: loose, linked, queued for verification |
| `queue`, `tries`, `stalls`, `holds` | BullMQ: state of each job, `attemptsMade`, stalled count, the lock |
| `wpc`, `wjob`, `wread` | where an attempt is, its job, what it has read |
| `received`, `recorded`, `told`, `mailed` | requests at the endpoint, `WebhookDelivery` rows, notices to the admins, mail |

A submission's attempt runs `FindExisting`, `Persist`, `LinkFiles`, `ReadHooks`,
`EnqueueHooks` (or `EnqueueHooksFail`, in which some of the adds succeeded) and
`SendMail`; a delivery's runs `LoadHook`, then `PostDelivery`, `RecordDelivery` and
`EndDelivery` or `TellFailed`, or, for a URL that resolves to an internal address,
`RecordBlocked`, `Deactivate` and `TellDeactivated`. `EndAttempt` counts an outcome only
if the worker still holds the lock; `Redeliver` is BullMQ's stalled check, which may hand a
job to a second worker while the first one goes on. `FileReport` is the other producer:
a sitting's report commits its rows before their jobs are added. The refinement
mapping (`Delivery == INSTANCE SubmissionDelivery WITH stage <- ..., announced <- ...`)
reads the stage from the row and the queue: a stored row is `stored`, a queued job
without one `accepted`, a failed one `failed`.

### ExportJobs

Three actors over a row, an object and a BullMQ job. `caller[e]` is the
`createExport` request, `wpc[w]` a worker inside `runExport`, `sweeper` and `batch`
the hourly sweep. `queue`, `tries`, `stalls` and `holds` are BullMQ as above.
`wread[w]` keeps what the attempt read and uses later (`attemptsMade`, `startedAt`).
The row's last update and the end of the job are two steps: after
`GiveUp` or `NothingToExport` has marked the row FAILED the worker is at `thrown` or
`dropped` until `ReportAttempt` lets the queue know; a worker that dies in between (`Unreported`) leaves a job that is
delivered again although its row is FAILED.
Time appears as two events: `RetentionPasses` and `GrowStale`. `GrowStale` under a job
that is still running is possible only where an instance allows the event `overdue`.

### FormAppSessions

Sessions, staged entries, filed submissions and records as tables; `req[r]` is one
HTTP call: what it does, and what it has read so far. Calls that read and then write
are two steps or more: `FindDraft`, then `ResumeDraft` or `CreateDraft`; `SaveEntry`
(`assertDraft`), `CountStaged`, `UpsertEntry`; `DeleteEntry`, `RemoveEntry`;
`ResetSession`, `RemoveAll`; and `SubmitSession`, `ReadEntries`, `JudgeReport`,
`CheckQuota`, `CommitReport` or `RollBack`, then an `EnqueueRow` per filed row. The
unique indexes of the migration (open drafts, occurrences) are guards of `CreateDraft`
and `CommitReport`. `CountFor`, `OccurrenceKey` and `HasOccurrence` translate
`logic/step-scope.ts`. An entry may be saved at any place below the step's maximum, whatever
is staged below it, as in the code; nothing keeps the places without holes. `stale` on a request and `raced` on a session are history: which
other commits and edits overlapped it.

### EntryAutosave

The other end of the same sitting: the hook and the cards of one repeatable step. The
answers of an entry are the *set* of edits it holds, so that a lost, resurrected or
misplaced edit is visible.

| Variable | Code |
|---|---|
| `staged`, `runner`, `known` | `staged.current` and `drafts`; what each card's `FormRunner` shows; the indexes of `session.steps[..].entries` |
| `timers` | debounce timers, each with the answers its callback closed over; `tracked` while `timers.current` still knows it |
| `wire`, `due` | requests and replies under way, unreturned `refresh()` calls |
| `phase`, `left`, `pressed` | `submit()`: the timers still to flush and the drafts it closed over |
| `server`, `filed` | the staged entries, the report |
| `suspect` | history: entries whose last save may not count (lost, refused, overtaken, or sent with older answers than the draft) |
| `overlapped`, `removed`, `inherited` | history: a removal overlapped with pending work; edits of removed entries; a card that did not show its own draft was edited |

The endpoints are reduced to what they do to the staged entries (`SaveArrives`,
`DeleteArrives`, `ResetArrives`, `SubmitCommits`, and their refusals); `FormAppSessions`
has them in full. Requests travel independently, may be lost with their effect or with
their reply, and the page may be reloaded.

### FileVerification

`caller[f]` is a `generatePresignedUrl`: the usage is read, then the pending
reservations are summed, then the row is created and the job scheduled. The client
uploads while the URL is usable, a submission may claim the file (which adds a second
job), and `wpc[w]` is `FileVerifierProcessor.process`: `ReadFile`, `StatObject`, then
`LinkVerified`, `MarkDeleted`, `Quarantine` or `CommitVerified`, and `CompleteJob`, by
which the queue hears of it; a worker that dies before that has its job delivered again. An
object has a size and a `type`: the declared one, another, or none, and none is accepted
(`actualMime &&`). What a client may do wrong is a fault each: `wrong_type`, `no_type`,
`other_length` (a signed URL that binds the length is an instance without it, and one that
binds the type an instance without the first two), a second upload before any
check passed (`upload_again`) and one after (`upload_late`). The two verdicts that
do not look at the row's status replace whatever the other job wrote; `overruled`
remembers it, `blind` what a quota check could not see, `charges` how often a file was
charged.

### NotificationStream

One user's connections. `at[c]` is where the asynchronous body of `connect()` is;
`disposed` and `disposers` are its teardown, which may run at any moment of it and
undoes what has been registered so far; `Retained` is the code that finds out that it
came too late. `slots`, `stale` and `releasing` are the sorted set of streams
(`AdmitScript` is the Lua script, one step); `listeners`, `ops`, `flight` and
`subscribed` are each pod's `listeners` map, the promise chain per user, the command
that waits for Redis, and the result. `KillPod` runs no cleanup.

### Instances and proofs

`MC<Module>` extends a module and defines values for its constants;
`<Module>Proofs` holds its theorems.

## The runs

| Run | Asks | Bounds | Result |
|---|---|---|---|
| `ingest_claims` | do counters, limits and slots agree? | 3 requests, quota 1, cap 2, 1 earlier row, 2 months; crash, moderation, month end, lost key (563,000 states) | holds |
| `ingest_policy` | one anonymous response; stale policy | 2 requests of one respondent, owner edits, failing Redis, crash (117,000 states) | holds |
| `worker_filing` | is each submission stored, counted and registered once, and do its side effects follow? | 2 submissions of one record, one filed by a report; 1 webhook, 2 workers, 2 attempts, 1 stall, any 2 of 10 kinds of fault | holds |
| `worker_delivery` | do the processors implement `SubmissionDelivery`? does a delivery end? | 1 submission, 1 webhook, 2 workers, 2 attempts, any 2 of 6 kinds (133,000 states) | holds |
| `exports_safety` | completed means downloadable; concurrency; failed is final | 2 exports, 2 workers, 2 attempts; crash, database, bucket, queue errors (1.2 million states) | holds |
| `exports_liveness` | running ends; objects expire | 1 export, 1 worker, 2 attempts, every event (186,000 states) | holds |
| `sessions_filing` | occurrence uniqueness, step maximum, allowance | 2 submits of drafts of 2 coordinators about one record, up to 5 entries staged, allowance 4, moderation (449,000 states) | holds |
| `sessions_staging` | one draft; nothing lost or filed twice; the limit on staged entries | 2 requests, 2 sessions, 3 entry ids at any place, limit 1, registration and visit steps (1.7 million states) | holds |
| `autosave_entries` | does the server have what was typed, and only that? | 2 entries, 4 edits (2 resumed), 1 removal or reset, 1 mishap | holds |
| `autosave_cards` | does a removal keep the edits of the other entries? | 2 entries, 3 edits, 1 removal, nothing fails | violated (finding) |
| `files_verdicts` | usage, quota, checked content, final verdict, nothing pending | 2 files, quota 1, declared size 1, other sizes 2 and 3 (limit 2), 2 jobs for one file, 2 workers, 2 attempts, any 1 of 9 kinds of fault for one file (487,000 states) | holds |
| `streams` | subscribed, capped, nothing leaks | 3 connections, cap 2, 1 pod, 1 fault of 5 kinds | holds |

Why the bounds are enough to be interesting. *Intake*: with a quota of 1 and three
requests, one is accepted, one is refused and one overlaps the other two; cap 2 with one
earlier row makes the seed path, the refusal and the reseed all reachable; two months
give one boundary. *Worker and exports*: two workers are needed for a redelivered job to
run twice, two submissions of one record for the unique index, two exports for the
concurrency limit; more attempts only repeat what two do. A worker's fault is a kind
with a job: two of them give the pairs that matter (a lost lock and an error, a crash
and a lagging reader); the same kind may strike a job again. *Sittings*: two requests
are all that a check-then-write race needs; two coordinators with one once-per-window step and a
step of maximum two give the overlap of a keyed and of a counted step. In `sessions_filing`
the drafts are initial states (any subset of the staged rows a coordinator can have made),
which keeps the interleaving of the two submits and moderation exhaustive. *Autosave*:
two entries are what a removal needs to shift one; two new edits put a timer, a save in
flight and a flush on the same or on neighbouring entries. In `sessions_staging` a limit of one entry makes
two saves meet at it. *Files*: a quota of one file's size makes the second call meet a
reservation; sizes 2 and 3 are an object of another length below and above the limit. *Streams*: with three tabs one of them
meets the cap while the others come and go, and the first, a middle and the last listener
all occur.

Several properties name the events under which the code does not promise them
(`Never({...})`, `Happened`, `"record" \in f.stale`, `raced`, `blind`, `overruled`,
`overlapped`, `leaked`). Others bound what such an event costs instead of excusing it
(`MonthCounterExact`, `MonthlyQuotaRespected`, `MonthBounded`, `StagedBounded`). These exceptions are part of what is shown: the property holds on every
behaviour without that event, and the code does not promise it with the event; see [divergences](#known-divergences).
Deadlock checking is off in every run because each system may stop: all requests answered,
jobs done, connections over, the exports expired, the report filed, the entry ids used up.

Symmetry: interchangeable workers, requests, sessions and respondents, in safety
runs only.

Each property of a passing run has a mutant of the code model, defined beside the
action it changes (late comparison, missing give-back, missing index, unconditional
status...) that TLC finds to violate it.

## Fairness

- `SubmissionIngest.FairSpec`: every handler step, the invalidation and the cache's
  TTL are weakly fair: the event loop runs what is ready and Redis expires keys.
- `ExportJobs.FairSpec`: handlers, deliveries, the stalled check and the passing of
  time are weakly fair. `SweepObject`, `SweepRow` and `FailStaleRunning` are strongly
  fair: the hourly sweep is repeated for ever and each of its calls succeeds some time,
  although any single one may fail.
- `SubmissionWorker.FairSpec`: each worker's processor, the delivery of each waiting
  job to some worker, the stalled check and replication are weakly fair. Failures are
  not: the number of attempts bounds them, as it does in the code. The right side of
  `ImplementsDelivery` states fairness too: an accepted submission is stored or given up.
- `FileVerification.FairSpec`: the presign handlers, workers and deliveries go on, URLs
  expire and delayed jobs become due. Nobody has to upload or submit anything.
- `NotificationStream.FairSpec`: Redis answers (`Admit`, `Subscribe`, `Unsubscribe`,
  `ReleaseSlot`), the event loop runs the chain of channel operations, and entries that
  nobody refreshes grow stale. Nobody has to connect or leave, and a heartbeat is not forced.

## Proofs

Every theorem is for any values of the constants, from the module's named assumption
only. What is proved of each module:

| Module | Theorems |
|---|---|
| `SubmissionIngest` | `TypeCorrect`, `IngestInvariant`, `FormCapHolds`, `MonthCounterHolds`, `MonthlyQuotaHolds`, `SlotsHold`, `OneAnonymousResponseHolds` |
| `SubmissionWorker` | `TypeCorrect`, `RowsAlways`, `PersistedOnceAlways`, `IdentityUniqueAlways`, `LocksAlways`, `GivenUpAlways`, `SideEffectsAlways`, `FailureIsTrueAlways`, `ImplementsDeliverySafely` |
| `ExportJobs` | `TypeCorrect`, `CompletedCorrect`, `FailedCorrect`, `ConcurrencyCorrect` |
| `FormAppSessions` | `TypeCorrect`, `OneOpenDraftCorrect`, `OccurrenceUniqueCorrect`, `EntryFiledOnceCorrect`, `NothingLeftBehindCorrect`, `StagedBoundedCorrect`, `MonthBoundedCorrect`, `MaxEntriesCorrect` |
| `EntryAutosave` | `TypeCorrect`, `RemovedStaysRemovedAlways`, `ServerHasDraftsAlways`, `FiledHoldsAlways` |
| `FileVerification` | `TypeCorrect`, `JudgeAlways`, `ClaimAlways`, `CheckedCorrect`, `FinalCorrect`, `ChargedOnceCorrect`, `UsageCorrect`, `QuotaHolds` |
| `NotificationStream` | `TypeCorrect`, `OpenIsSubscribedCorrect`, `CapHolds` |

The fault histories only grow in every module (`FaultsGrow`, `StepGrows`), so a step
after which nothing has gone wrong started where nothing had: this is how the exceptions
the properties name are carried through an induction.

**SubmissionIngest.** None of the properties is inductive. `IngestInv` adds what each
depends on: `RowInv` ties an accepted row to a request that has finished;
`SlotsInv` says which slots a request holds at each value of `pc`; `MonthInv` that
each month's counter *equals* the number of holders less the refusals charged to it in place
of an earlier month (`Misplaced`), and that the holders already past the comparison exceed
the quota by no more than those; `FormInv` that the form counter equals the holders plus
the earlier rows, once seeded, that at most one request is seeding, and that those past
the comparison leave the cap unexceeded; `DedupeInv` that a marker stands for exactly the
one request it let through. Each part has a step lemma with one step per action; the
cardinality arguments (a slot taken, a slot returned, nothing changed) are lemmas of
their own (`MonthTaken`, `MonthReturned`, `MonthMisplaced`, `MonthFrame`, `FormReturned`, ...).
`MonthCounterHolds` and `MonthlyQuotaHolds` then follow from `MonthInv` alone: nothing but a
slot in use or about to be returned is counted. `SlotsHold` follows from `SlotsInv`: a
refused request that could not reach its month's counter knows a later month it decremented.

**SubmissionWorker.** `Base` is the types with who runs what: a held lock belongs to one
worker, its job is active and the worker knows the job's attempts. `RowInv` says that
nothing runs ahead of the stored rows: a delivery is queued or run, an attempt is past
its transaction, a reader shows a row, only if the row is stored. From these the
refinement follows step by step: `ImplementsDeliverySafely` shows that each action maps
to a step of `SubmissionDelivery` or to a stutter under the mapping above.
`PersistedOnceAlways` and `IdentityUniqueAlways` rest on one observation, `StepWritesOnce`:
the three tables are written together, for a submission without a row whose identity is free.
The other three need to know *why* a job is where it is. `LocksTold` is the common part: an
attempt without its lock, or an active job that nobody holds, was in a crash or lost its lock.
For `GivenUpAlways`, `ReasonInv` says that the job of a stored row is completed, in an attempt
past its transaction, or has had trouble, and that an attempt stores a report's row only if the
reader did not show it; for `SideEffectsAlways`, `SideInv` says at each step of an attempt
which side effects are already there, among them that the hooks it read include every hook
still active; for `FailureIsTrueAlways`, `OutcomeInv` says of a delivery without crash, lost lock
or eviction what it means that it arrived, is recorded or was told to the admins (`Outcome`), and
that an attempt knows how often its job was tried (`TriesKnown`).

**ExportJobs.** `Base` again, with the caller's part: no job exists before its caller adds
it. The properties then come in three layers, each under the faults it excludes.
`Agreement` (no lost lock, no lost reply): a worker holds its lock, so a job has one
worker at most; a row past its retention has no job, and only such rows are the sweep's;
until the row is completed the attempt meets no COMPLETED row, and it completes it after
the upload. `Timely` (nor a job that outlasts the stale window): the row of a job that is
not over is neither FAILED nor stale, unless a worker has just marked it and is about to
report, and dying there is the fault `unreported`. `Room` (nor two callers between count and insert):
while a caller is about to insert, there is room for its row. `RunExportShape` reduces an
attempt's many steps to two shapes, `Ends` and `Moves`, so that the bookkeeping is proved once.

**FormAppSessions.** `TypeCorrect` is inductive: `CallOK` says what a call knows at
each of its steps (the session it names exists, what a save writes is an answer to its
step), and `EntriesTyped` that ids beyond `lastEntry` are unused. `StartAssumption` on
the initial rows is used as well. `OneOpenDraftCorrect` rests on `DraftsDistinct`, the same
statement about pairs of sessions; `OtherSteps` shows that only three actions write a
session's row. `OccurrenceUnique` speaks of answers and windows, the index of keys;
`Occurrences` joins them: a row about a record carries the key of its answer (`KeysTold`),
live rows of one record and step carry different keys (`KeysDistinct`), and occurrences
that are the same have the same key (`KeyTells`).

The entries have a module of their own, `FormAppEntriesProofs`. `RowsFollow`, `SessionsLast`,
`CallsLast`, `HeldLast` and `EntriesLast` say once what any step may do to rows, sessions, calls
and entries; each invariant then has one lemma per conjunct. *Filed once*: `OnceInv` says that
a row comes from an entry of its own, submitted session (`RowsOwned`), that a submit holds each
entry of its session once (`ReadsOwned`), and that one whose session something was filed of
since knows it (`LateTold`). *Nothing left behind*: `AllRead` says that a submit holds every
entry it looks at, as it is staged, unless a save raced with it. *The limit on staged
entries*: `StagedTold` counts, with a session's entries, the saves that have counted them and
not written yet; a save is admitted below the limit, and each adds one entry at most.
*The month* and *the maximum of a step*: both bounds are checked before they are used, so
`MonthTold` and `RoomTold` carry the check: what is filed plus what a submit is about to add
fits, for a submit that no other has overtaken; `CountedLast` shows that nothing but a commit
about the record adds to the count. `MonthBounded` then splits the rows into
the live punctual ones, the deleted ones and those a late submit filed. Each theorem keeps the
exceptions its property names, and no other.

**EntryAutosave.** `TypeInv` adds to the types what keeps them: indexes stay below
`MaxEntries`, and an entry has one timer at most. A removal renumbers everything, so
`RemovalAlone` comes first: unless something overlapped with it, nothing else is under way
until its reply. `RemovedStaysRemovedAlways` rests on `ApartInv`, which follows each edit through
the server, the drafts, the timers and the wire (`Holds`): it belongs to one entry, and once
removed to none, seen with the drafts the hook will have when the reply of a removal comes.
`ServerHasDraftsAlways` rests on `StagedInv`: an entry with no timer and no save under way is
staged as its draft is, and the one save under way carries the draft.
`FiledHoldsAlways` adds `PressedInv`, the same about the drafts `submit()` closed over, for
entries it has nothing left to flush for. `StepIs` reduces the steps to a few shapes (`Calm`,
`Sends`, `SaveFails`, ...), each of which is argued once for all three.

**FileVerification.** `Base` includes that an active job has one worker and what a file
whose row does not exist yet looks like. `JudgeInv` relates the three places a verdict
appears: what a worker found fits the object (`FoundFits`), a verified row fits the object
(`RowFits`), and once the scheduled job is done the row's status is the verdict on the object
(`VerdictFits`), for which the job must start after the URL expired (`FinalFits`).
Each holds until the object is uploaded again after a check had passed, and `ClaimInv` says which
files that can happen to: one that is verified while its URL is good was claimed by a
submission. `CheckedCorrect` is the two together.
The usage and the reservations are sums over sets of files, a recursion of the library's. What
is needed of it is proved from its definition, by looking at a smallest set for which a
lemma would fail (`Smallest`, from the well-foundedness of the subset order): the recursion
defines a function (`UnfoldsExists`), any member can be taken out first (`SumOut`), the sum
depends on the members' weights only (`SumSame`) and grows with the set (`SumFewer`).
`UsageCorrect` is then one step lemma over three shapes (`Creates`, `Judges`, `Verifies`).
`QuotaHolds` needs `RoomTold`: the usage *plus* the declared sizes of all files that may still be
verified (`Outstanding`: a row about to be created, or a file not verified that has an object
or a usable URL) is within the quota. A check that saw everything establishes it
(`RoomChecked`), a commit moves a file from one summand to the other (`RoomTaken`), and no
other step adds to either. `SizesTold` supplies that an object has its declared size while every client keeps to it
(`OwnLength`).

**NotificationStream.** The chain of channel operations is a sequence, so the invariant
says for each connection where its `retain` and `release` are: at most one of each, in
order, and a listener is in the set exactly between them. `OpenIsSubscribedCorrect`
needs that the pod is subscribed, or has its SUBSCRIBE or UNSUBSCRIBE at the head of the
chain, whenever someone listens (`Chains`, `OpenInv`, `Listening`). `CapHolds` needs that
every admitted stream that is not exempt has its slot, so that the script's count sees it
(`CapInv`).

Only model-checked: all liveness (`DeletedFormLeavesCache`, `RunningEnds`,
`ObjectsExpire`, `DeliveryEnds`, `PendingEnds`, `ListenersGo`, `SlotsComeBack`) and the
fairness part of `ImplementsDelivery`, which are outside the prover's reach. Every invariant
of a passing run is a theorem.

## Findings

One run is expected to be violated. `autosave_cards`: after the first of two entries is
removed, the drafts are rebuilt but the card that takes over its index keeps the removed
answers in a state of its own (`FormRunner.tsx:152-154`; cards are keyed by step and
index, `AppRunner.tsx:735`). The next edit in it replaces the draft of the entry that
moved there, and is autosaved. The hook's comments say that the drafts are the source of
truth and that entry 3 becomes entry 2 (`use-app-session.ts:172, 361-362`).

## Known divergences

Behaviour the models show that a reader of the code should know, although no run is
devoted to it; the properties of the passing runs name these events as exceptions.

- *Intake*: the form's cap is not kept after its counter key is lost, because the reseed
  counts stored rows while accepted submissions still wait in the queue
  (`submissions.service.ts:725`). The comment on `monthKey()` (1536-1541) says "One definition,
  because the claim and the release must agree on it", and that deriving the key twice "would
  decrement a fresh month's counter instead of the one it incremented". It is derived twice: at
  the claim, and again by `GiveBackMonth` (279-286) and `releaseQuota` (329-335). A refusal that
  spans a month's end leaves the old month charged and the new one short, so that the new month
  may accept one submission too many for each (`Misplaced`).
- *Exports*: a duplicate delivery sets a completed row back to RUNNING
  (`export.processor.ts:136`). A worker that dies after `markFailed` has committed (419-433, or
  127-134) and before the queue hears of it leaves a job that is delivered again; line 120 skips
  only COMPLETED and EXPIRED rows, so the FAILED export goes back to RUNNING and may complete:
  the red "failed" that "silently turns green" of the comment at 401-404, and one export more
  in flight than the limit if another was admitted meanwhile (the fault `unreported`). An export whose early steps fail on every attempt stays
  QUEUED, and the sweep looks at RUNNING rows only (`export-sweeper.service.ts:143`).
- *Sittings*: the count of the month "deliberately" has no `deletedAt` filter, "so a response
  that was received and later deleted still occupies a slot"
  (`form-app-sessions.service.ts:2046-2051`; `submissions.service.ts:1260-1265` and
  `schema.prisma:903-905` say the same), but the query leaves out rows whose status is DELETED,
  and `deleteSubmission` sets that status together with `deletedAt`: a deletion does hand the slot
  back. `MonthBounded` counts it. At the limit of staged entries `saveEntry` refuses the edit
  of an entry that is already there (1313-1320). A submit does not test that the session is still a draft when it closes it
  (`form-app-sessions.service.ts:1826`), a save that passed its check writes to a session that
  was submitted since, and side effects are lost if the enqueue after the commit fails.
- *Worker*: rows filed by a report are never counted in `form_analytics`, because the job finds
  the row stored and skips the transaction (`submission.processor.ts:111`).
- *Files*: an object that was uploaded again after the check of a claimed file, while its URL
  is good, is downloaded unchecked (`upload_late`), because the scheduled job finds the row
  verified and looks no further (`file-verifier.processor.ts:69-82`); an object stored without a
  content type passes the check of the type (138). An older reading of one job replaces the verdict of the other, without taking the
  charge back (`file-verifier.processor.ts:104`, against the comment at 152); the quota does not
  see overlapping calls, files verified between its two reads, or an upload whose reservation is over.
- *Streams*: a SUBSCRIBE that fails leaves its listener in the set, so that later connections
  of the user ride a subscription that does not exist (`notification-stream.service.ts:428-434`).
- *Autosave*: saves in flight are neither awaited by `submit()` nor ordered; a reload loses the
  edits of the debounce window; pressing Remove twice removes two entries. Editing the card
  that took over the index of a removed entry stages the *removed* answers again
  (`inherited`). A save that Submit flushes deletes its entry's key from
  `timers.current`, also when the respondent has typed on and the key is a newer timer's: that
  one still fires, and can send answers older than those a second Submit has flushed since
  (`suspect`).

## Abstractions

- Answers are values that are only compared, or sets of edits. Answer validation,
  `showWhen` visibility and file checks are left out: a request they would refuse is one
  that was not made (`Refuse` in intake, `Judge` in sittings).
- The form's cap, the organization's quota and the app's configuration are constants.
  A session's window (`period`) is any of the open windows, chosen when it is opened; windows do not
  open or close during a run. A link that asks for particular steps of a registration is left out.
- The reader is the primary database, except where `replica_lag` is among the events
  (worker and exports).
- BullMQ is modelled from how the code uses it: a job waits, is active under a lock, is
  delivered again when the lock is gone, at most `MaxStalls` times, and fails after
  `Attempts` throws. Backoff is a delay of any length. A job that ran to its end is known
  by its id until it is evicted.
- A failed `queue.add` stored nothing in intake and in sittings; exports also have a lost
  reply, and the worker's webhooks a partial failure.
- A dedupe marker outlives the run (30 days); a policy's TTL may pass at any time; a
  presigned URL expires at any time, and its job becomes due after that.
- A file verification whose worker died counts as an attempt, which bounds redelivery as
  BullMQ's stalled count does. Object versions are not told apart beyond size and type.
- In `SubmissionWorker` the last effect of an attempt and its report to the queue are one step
  (`SendMail`, `TellDeactivated`, `TellFailed`, `EnqueueHooksFail`): a crash between
  them would leave a job that is delivered again with the effect done, as a duplicate delivery
  (`lock_lost`) does; what is said of notices (`FailureIsTrue`) excuses a crash by name.
- The tables at the start (`StartAssumption`) are what the endpoints leave behind: open drafts,
  a follow-up's about a record, and staged entries of their steps.
- A notification connection is used once; a tab that reconnects is another one. Pods share
  nothing but the sorted set, so one pod that may be killed stands for several.
- Records are never deleted, and drafts are allowed (`allowDrafts`).
- Bounds: `Requests`, `Months`, `PriorRows`, `Submissions`, `Hooks`, `Exports`, `Workers`, `Attempts`,
  `MaxStalls`, `MaxFaults`, `Sessions`, `EntryIds` (entry ids are handed out in order and not
  reused), `MaxStaged`, `Files`, `Sizes`, `MaxConns`, `MaxEdits`, `MaxRemovals`, `MaxMishaps`; one
  `Add` at a time in `EntryAutosave`, whose run follows nothing past a filed report (`NotDone`).

## Not modelled

- Authentication, organizations, API keys, feature flags, choice lists, templates, audit,
  admin: sequential database work, mostly single conditional statements.
- Form app configuration and the date algorithms of its cadence; the rules engine, a pure
  interpreter, of which only `step-scope.ts` is translated.
- The publication of notifications and the list endpoint; SSE tickets (single `GETDEL`).
- The builder and other screens, seeds, scripts, deployment: no state shared between actors.
- Analytics buckets and the session cache: described under the plan.

## Plan

Done: 1 `SubmissionIngest`, 2 `ExportJobs`, 3 `FormAppSessions`, 4 `EntryAutosave`,
5 `SubmissionWorker` with `SubmissionDelivery`, 6 `FileVerification`,
7 `NotificationStream`; proofs for all of them.

What could follow:

8. `AnalyticsFlush`: flushers that rename, read and delete a day's bucket, and crashes in
   between. The comment at `analytics-flush.service.ts:74-76` says that no increment is lost
   or counted twice; reading the code, that holds for flushes that neither overlap nor die,
   since all of them use one work key: a later RENAME replaces a bucket nobody has read yet,
   and two flushers that both renamed before either read take the same counts. An instance
   with one flusher and one with two would settle it.
9. Forms with versions and optimistic concurrency; the quota of `createForm`.
10. Drafts switched off and soft-deleted records in `FormAppSessions`; a lost reply of
    intake's `queue.add`.
11. Pure algorithms (period cadence, step schedule, a core of the rules engine) as operators
    checked against reference definitions.
