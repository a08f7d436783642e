# Verification of the ingestion and the token quota of RAVID

The repository is a Django service: users upload documents, Celery workers
extract, chunk and embed them into Chroma, and a chat endpoint answers
questions over the indexed chunks, charging a daily token quota. This directory
holds TLA+ modules translated from the code, TLC configurations that check them
on small instances, and TLAPS proofs of their safety for every instance.
`PROJECT.json` is the index: components, runs, the source lines behind every
definition, hazards, findings, theorems.

    tlc -workers 2 -config ingestion_safety.cfg MCIngestion
    tlc -workers 2 -config rag_safety.cfg MCRag
    tlapm IngestionProofs.tla

## 1. Inventory

Paths are under `apps/` unless they start with another name.

| Part | State | Operations | Talks to | What makes it correct |
|---|---|---|---|---|
| Upload API (`documents/views.py`) | rows Document, IngestionJob, IngestionDispatch; the file | one transaction creating all three; file deleted on error | outbox (same transaction), media volume | a job never exists without its intent; the file a row names is there |
| Orphan reconciliation (`reconcile_orphan_uploads`) | the media volume | read the names in use, list old files, unlink the others | rows, uploads in progress | never a file in use; every orphan goes |
| Outbox (`documents/dispatch.py`) | IngestionDispatch: status, attempts, claim token and expiry, available_at | create, claim, publish, conditional update, reset of expired claims, retry | database, broker | every intent is settled; late publishers change nothing; bounded attempts |
| Worker (`documents/tasks.py`, `ingestion.py`) | IngestionJob: status, generation, lease, attempt_count; Document.active_generation; IngestionGeneration | claim, pipeline, finalize success or failure, mark stale | broker, database, Chroma, parsers | only the owner of the current generation moves the job; only complete generations become visible |
| Extraction and chunking (`documents/extraction.py`, `chunking.py`) | none | read or parse, join pages, cut into chunks, under three limits | worker | a document is taken whole or rejected |
| Recovery (`documents/recovery.py:15-95`) | the same rows | rotate or give up stale jobs; reindex legacy documents | outbox (same transaction) | unfinished jobs end; attempts are bounded |
| Cleanup (`documents/recovery.py:98-151`) | IngestionGeneration, Chroma | snapshot, look up, delete, save | Chroma, no lock | never touches what is visible or being written; everything stale goes |
| Vector store (`documents/vector_store.py`) | Chroma; cached client per process | write with readback, delete by generation, retrieve | Chroma | a write that returns is complete; a search stays in its owner's active generations |
| Retrieval (`documents/retrieval.py`) | none; a snapshot of active generations | search, check every result against the snapshot | database, Chroma | only verified generations of the user, whole while they are searched |
| Admin of documents (`documents/admin.py`) | all rows | save a whole row from a page that may be old | no lock, no fence | a lost update hides a document at worst, and is repaired |
| Quota (`accounts/entitlements.py`) | Subscription, DailyTokenUsage | reserve, refund, finalize under row locks | RAG service | no user passes the limit by concurrency; every reservation settled at most once |
| RAG service (`rag/services.py`, `accounting.py`) | a reservation per stage | optional HyDE stage, retrieval, final answer | quota, retrieval, provider | each stage's reservation reaches exactly one of finalize and refund on every path |
| Prompt and token bounds (`rag/prompts.py`, `tokens.py`, `provider_responses.py`) | none | cut the context, bound the estimate, classify usage | RAG service | the context is all the blocks, cut once; the response shows what the prompt holds |
| Commands (`*/management/commands`) | all rows | run publisher, recovery, cleanup, reindex; seed accounts | all of the above | do not undo concurrent work |
| Settings, Beat and Celery (`config/settings/base.py`, `compose.yaml`) | validated settings; schedule; Redis queue without a volume | publisher every 10 s, recovery and cleanup every 60 s; hard time limit; early acknowledgement | all tasks | leases outlast workers; the tasks keep running |

What is hard: PostgreSQL, Redis, Chroma and the media volume share no
transaction; messages are
delivered at least once and may be lost (early acknowledgement, Redis without a
volume); a worker may finish after recovery has replaced it; cleanup decides on
snapshots and deletes later without a lock, and so does the command that
removes orphan files; publishers outlive their claims;
Chroma batches may be applied in part; a chat request reads which generations
are active and searches later; an operator's form writes back columns it loaded
earlier. On the chat side, a reservation reads the
limit and the usage some statements before it writes, rows appear between its
SELECT and its INSERT, a settlement may commit and still raise, midnight falls
between a reservation and its settlement, and nested exception handlers decide
what becomes of the money. The hazards, each at its line, are listed
in `PROJECT.json`, with the property that covers it or the reason none does.

## 2. Modules

| Module | Models | Notes |
|---|---|---|
| `DispatchOutbox` | `dispatch.py` | rows, the claims each publisher holds in memory, the broker's queue |
| `VectorIndex` | writes and deletes of `vector_store.py` | content of a generation: none, partial, full |
| `Ingestion` | `tasks.py`, `ingestion.py`, `recovery.py`, the upload | one document may have many generations, written by several workers |
| `DocumentLifecycle` | abstract: what the owner of a document is promised | no workers, leases, messages, manifests or cleanup |
| `IngestionSystem` | `Ingestion` joined to `DispatchOutbox` | a message must be published, queued and taken |
| `IngestionAdmin` | the forms of `admin.py` over `Ingestion` | a form loads a row, later saves every column |
| `Retrieval` | `retrieval.py`, the reading half of `vector_store.py`, over `IngestionAdmin` | chat requests beside workers, cleanup and forms |
| `IngestionClaims` | statements of the documentation that do not hold | each with a run of its own |
| `UploadFiles` | the file in `views.py` and `models.py`, `reconcile_orphan_uploads.py` | files beside the rows; commands that overlap |
| `ExtractionLimits` | `extraction.py`, `chunking.py` | a text is its length |
| `PromptContext` | `_chunked_retrieval_context` in `prompts.py` | characters known by their place |
| `LeaseTiming` | settings validation, lease, time limit | a clock in seconds, which `Ingestion` abstracts from |
| `Quota` | `entitlements.py`, with the admin forms and `load_test_accounts` | one user; statements and row locks |
| `DailyBudget` | abstract: what the quota promises | no transactions, rows or locks |
| `RagQuery` | `services.py`, `accounting.py`, usage in `provider_responses.py` and `tokens.py` | extends `Quota`: each stage of each request is a reservation |
| `MCOutbox`, `MCIngestion`, `MCSystem`, `MCAdmin`, `MCRetrieval`, `MCUpload`, `MCBounds`, `MCRag` | instances for TLC | symmetry of workers, cleaners and requests, safety runs only |
| `OutboxProofs`, `IngestionProofs`, `SystemProofs`, `AccessProofs`, `UploadProofs`, `BoundsProofs`, `RagProofs`, `FoldProofs` | theorems | section 5 |

### State and steps

In the ingestion modules a database transaction is one step: the code takes the row locks it needs
(`select_for_update`), and updates without a lock are conditional. Everything
between two transactions is a step of its own: in `publish_due_dispatches` the
broker call and the update after it; in `ingest_document` the claim, the
manifest, `add_texts`, the readback and the finalizer; in
`cleanup_due_generations` each of the two queries, the lookup, the delete and
the save of each row. The cleaner keeps in `cleaner[c]` exactly what the Python
loop keeps: the set of live generations, the rows read with their
`cleanup_attempts`, and the ids found by the lookup. A chat request keeps the
pairs it read (`reader[r]`), an open form the row it loaded (`form`), the
command for orphan files the names it read and the paths it still has to
examine (`sweeper[s]`).

`Quota` looks inside the transaction of `reserve_daily_tokens`, because its
order of locks and reads is what makes it correct. `tx[t]` is the call of
reservation `t`: where it is, the date and limit it read, the usage it read.
Its locks are not variables: a call in its transaction holds the subscription
row, one that found or inserted the usage row holds that too, until it leaves.
What it writes becomes visible at the commit (`Commit`), which may succeed
without the caller learning of it (`AnswerLost`). A settlement locks one row and
changes it, and is one step. `UploadFiles` looks inside the upload's transaction
in the same way, because the file is written in the middle of it.

In `RagQuery` the steps of a request are its calls: reserve (as above), invoke
the provider, settle, and what the handlers do afterwards. `call[t]` holds the
handle `RagStageReservation` with its flag `_terminal_attempted`, the
exception on its way and what matters of the provider's message.

| Code | Definition |
|---|---|
| `DocumentUploadView.post`, the rows | `Upload`, with `CreateDispatches` in `UploadDocument` |
| `DocumentUploadView.post`, the file | `Store`, `Stored`, `CreateRaises`, `Insert`, `Commit`, `RollBack`, `CommitUnknown`, `Undo`, `UndoRaises` of `UploadFiles` |
| `reconcile_orphan_uploads` | `ReadReferenced`, `ListFiles`, `Examine`, `Unlink`, `Finish` |
| `_claim_pending_job` | `Claim`; a refused message is `Discard` |
| `run_ingestion_pipeline` | `OpenManifest`, `WriteChunks`, `WriteRaises`, `Readback`, `PipelineRaises` |
| `extract_text`, `split_text` | `ReadPlainText`, `OpenPdf`, `ExtractPage`, `JoinPages`, `Unreadable`, `StartSplitting`, `CutChunk`, `EndSplitting` |
| `_finalize_success`, `_finalize_failure`, `_mark_stale_generation` | `Activate`, `Reject`, `Disown` |
| the lease in `_claim_pending_job`, its validation | `Stamp`, `ClaimJob`, `Validated`; the hard limit is `Overdue` |
| `recover_stale_ingestion_jobs`, `reindex_legacy_documents` | `RecoverStaleJobs`, `ReindexLegacy` |
| `cleanup_due_generations`, `delete_document_generation` | `ReadLive`, `ReadDue`, `LookUp`, `Delete`, `DeleteRaises`, `SaveCleaned`, `SaveFailure` |
| `DocumentAdmin`, `IngestionJobAdmin` | `OpenForm`, `SubmitForm`, `SaveForm`, `CloseForm` |
| the search over active generations and its checks | `ReadPairs`, `Search`, `SearchRaises`, with `Filter`, `Untrusted` and `InSnapshot` |
| `create_ingestion_dispatch`, `retry_dispatch`, `claim_due_dispatches` | `CreateDispatches`, `RetryDispatch`, `ClaimDue` |
| `publish_due_dispatches` | `Enqueue`, `MarkPublished`, `MarkFailed` |
| `reset_expired_dispatch_claims` | `BuryExpiredClaims`, `ReleaseExpiredClaims` (two UPDATE statements) |
| `reserve_daily_tokens` | `Open`, `Admit`, `Refuse`, `RollBack`, `AnswerLost` |
| `_lock_or_create_usage` | `FindUsage`, `CreateUsage`, `FindAfterConflict` |
| `finalize_daily_tokens`, `refund_daily_tokens`, `_reduce_usage` | `Settle`, `Reduced`; a refund settles for 0 |
| forms of the accounts admin, `load_test_accounts` | `SaveSubscription`, `SaveUsage`, `SeedAccount` |
| `answer_query` | `Begin`, `Retrieve` |
| `_run_hyde_generation`, `_run_final_answer` | `Reserve` to `Propagate`, for the stages `"hyde"` and `"final"` |
| `RagStageReservation.finalize`, `.refund` | `Terminal`, `TerminalRaises`, `Marked` |
| `bound_usage_to_reservation`, `classify_provider_usage` | `Bounded`, `Acceptable` |
| `_chunked_retrieval_context` | `AddBlock`, `EndLoop` |

Abstractions:

- A generation UUID is the number of the generation in the order drawn for its
  document; a claim token is the attempt the claim started. Both are fresh in
  the code, which is all that is used of them.
- Clocks: a lease, claim, age limit, backoff or grace period may run out at any
  moment after it was set. This includes a worker that outlives its lease,
  although settings validation makes the lease longer than the hard task time
  limit: the fence must hold whether or not the limit is enforced in time.
  `LeaseTiming` has the clock and shows what the validation gains. In
  `UploadFiles` a file grows old only when its request is over, and not between
  the query and the cutoff of a command that read the rows before they named
  it: both take seconds, the grace period defaults to an hour. The set `Slow`
  lifts either assumption.
- The content of the index is none, partial or full for each generation;
  `add_texts` may store a part whether it returns or raises. A chunk that a
  search returns is known by its generation; ranking only chooses among them.
- Failure texts and codes, chunk counts, started_at, completed_at and
  published_at are left out: no guard reads them.
- Processes that die: a worker's message was acknowledged when received, so it
  is gone; a publisher's or cleaner's memory is gone.
- In `Ingestion` alone the messages are those an outbox row exists for,
  delivered any number of times in any order. `IngestionSystem` replaces this by
  the outbox and the queue, and implements it (`SystemImplementsIngestion`).
  There `Deliver` is the early acknowledgement and the commit of the claim in
  one step: a worker that dies between the two has lost the message, which is
  what the fault `"lose"` does; the run `system` excludes it.
- `Examine` reads whether a path is a file and its age at once, and `SeedAccount`
  is one step for one user, with the locks in the order of `reserve_daily_tokens`.
- A document's text is its length; the parsers and the splitter are outcomes.
  The blocks of a prompt are sequences whose characters tell block and place.
- `Quota` is about one user: rows of different users share no lock. A user
  without a Subscription row is one whose subscription is not active. The usage
  of a day without a row is 0. Validation of the arguments is left out.
- A provider's message is its kind of usage metadata, the tokens that
  `usage_or_fallback` makes of it, and whether its text can be used. Settings are
  valid; mode, fallback reason and estimates are not modelled. In `RagQuery`
  retrieval is an outcome: it fails, finds nothing or finds chunks.
- Operators change quota rows through the forms in `admin.py` and the seed command.
  Deleting rows, or changing the user or date of a usage row, is not modelled.
  A quota form is saved as a whole at one moment; the page it was filled in on may be
  old, and any value may be saved. The forms over documents and jobs load the
  row in one step and save it in another.

Observations made on the way: `retry_dispatch` has no caller in the repository
(modelled, with a bound on its uses); the branch of `_finalize_success` for a
superseded active generation cannot be reached while rows change only through
the code, since a job whose document is visible is SUCCESS and is never rotated
(it is modelled all the same, and the theorem `VisibleAgrees` is the reason);
settings validation does not reject a CELERY_TASK_TIME_LIMIT of 0, which Celery
takes for no limit (`LeaseTiming` assumes it is positive).

## 3. Runs

| Run | Instance | Shows |
|---|---|---|
| `outbox` | 1 row, 3 publishers, 2 attempts, 1 manual retry, every fault; 9 thousand states | type, `AttemptsBounded`, `PublishedByItsClaim`, `SettledUnlessRetried`, and under fairness `DispatchSettles` |
| `ingestion_safety` | 1 document, 3 generations, 2 workers, 2 cleaners, every fault; 0.7 million states | type, `VisibleComplete`, `VisibleIsCurrent`, `SingleWriter`, `CleanerTargetsDead`, `CleanedIsEmpty`, `StaleIsScheduled`, `ClaimsBounded` |
| `ingestion_liveness` | a migrated document and a new one, 2 generations, batches of 1; workers die, deletions fail; 0.1 million states | `PendingHasIntent`, `JobSettles`, `StaleIsCleaned`; `Ingestion` implements `DocumentLifecycle` |
| `system` | `IngestionSystem`, 1 document, 2 generations; workers and publishers die, the broker fails or reports a failure it did not have; 0.2 million states | `WaitingJobIsCarried`, `UploadSettles` |
| `admin` | 1 document, 3 generations, a worker that may die, one save of either form; 0.2 million states | `LostNotReplaced`, `LostActivationIsRepaired` |
| `retrieval` | 2 documents of 2 users, a worker, a cleaner, a chat request that may ask again, a form, a Chroma that ignores filters and fails; 2.7 million states | `SearchedStaysWhole`, `AnswerIsVerified` |
| `uploads` | 2 documents, one replaced later, 2 overlapping commands limited to one file, one of which may die; storage, database and process fail; 0.2 million states | type, `NamedFileIsWhole`, `OrphansRemoved` |
| `bounds` | files up to and over every limit; up to 3 blocks of up to 4 characters under limits up to 18; 24 settings of which validation chooses, 2 workers, 9 seconds; 0.5 million states | `NothingTruncated`, `WorkIsBounded`, `ContextIsCutWhole`, `ChunksAreContext`, `OneWorkerAtATime` |
| `rag_safety` | 2 requests (4 reservations), 2 days, bound 2, providers reporting 0 to 3, failing database, deaths, defects; 1.5 million states | type, `NothingLeftOpen`, `AnswerReportsCharge`, `UsageWithinLimit`, `UsageIsExplained`, `SettledForGood` |
| `rag_liveness` | 2 requests, 1 day, failing database, operators, defects; 0.2 million states | type, `RequestEnds`; `Quota` implements `DailyBudget` |
| `claim_rotations`, `claim_leftovers` | see section 4 | TLC finds the behaviour that contradicts the documentation |

Why the bounds are enough to meet the interesting cases. Three publishers on
one row: one whose claim expired, its successor that expired too, and the
present holder, so a late update meets a claim two generations newer; rows are
independent of each other except for the claim batch. Three generations with
two attempts: the first worker may still write while the job is rotated,
claimed by the second worker, rotated again and given up. Two cleaners with two
attempts each overlap on the same manifest, saving from stale instances. Two
documents with a batch limit of one make recovery leave a stale job for a later
run, in `created_at` order; the migrated document brings the initial states no
upload produces. `MaxGen` bounds the UUIDs drawn: a rotation that would pass it
is not offered (`HasGenerations`), and the liveness properties say so in their
conclusions. One form saved meets every step of a worker between its loading and
its saving; a second one only repeats this, and what it breaks is said in
section 4. Two documents of two users are what a filter can confuse, and a
request that asks again reads a newer set of generations. Two uploads and a
replacement are a file to protect, one to remove and a name that moves between
the two; the command that may delete one file must leave the other to its next
run. Page and chunk limits of 3 and 4 are met, reached and exceeded by files of
up to 4 pages and by texts up to 7 characters; a context limit of 18 is more
than three blocks and two separators, which need 16. Nine seconds hold a time
limit, a lease and a successor's whole run. The three parts of `MCBounds` share
no variable, so their product would show nothing more: a behaviour runs one of
them while the other two rest.
Two reservations contend for
every lock there is, and two days are a reservation's day and another one. A
bound of 2 under providers that report up to 3 gives refunds, exact charges and
an excess; limits of 1 to 3 refuse both, admit one, or one and part of the
other. A usage row that appears between a SELECT and the INSERT needs an
operator: reservations of one user queue at the subscription first.
The proofs remove all these bounds but keep the constants themselves.

`CHECK_DEADLOCK FALSE` appears where the system may really stop: an outbox or
a system whose rows are all settled and whose uploads are all done has no step
left, nor have reservations or requests that came to their end, a job left
without a lease by a form (`admin`), or a document, prompt or task that is done
(`bounds`). In `Ingestion` a fair cleaner always has one (its queries), a
request can be asked again and the command for orphan files run again, so
deadlock is checked in the others.

Fairness. `OutboxFairness`, `Fairness` and `SystemFairness` assume weak
fairness only: of the periodic tasks, because beat starts the publisher every
10 s and recovery and cleanup every 60 s; of the loop of a task that is
running; of the clocks. A crash is never fair and never excluded, except where
the configuration leaves it out of `Faults`. Nothing is assumed of uploads, of
operators or, in `Ingestion`, of the delivery of messages: `JobSettles` holds
because a job that no message reaches is rotated until it runs out of the
generations of the model, or is claimed. It excepts by name a job migrated as
PROCESSING without a lease (`WithoutLease`, section 4). `SystemSpec` does assume
that an idle worker takes a waiting message (`Deliver` or `Discard` of each key)
and that the broker keeps it, and `UploadSettles` shows that a rotation voiding
the queued message does not stop progress; it excepts a job in its last
generation that only a rotation could help (`OutOfGenerations`): its
dispatch is dead, or its worker died. `AdminFairness` adds that the operator
runs `reindex_legacy_documents` again and again and that an idle worker claims a
job for which there is a message, as `SystemSpec` does; no form is ever assumed
to be saved. `LostActivationIsRepaired` excepts a document stopped in the last
generation the model grants (`NoGenerationLeft`): it would have to be reindexed
once more, or its worker died. `UploadFairness` assumes that a
request in progress goes on, files grow old, and the command is run again by
each of its processes; those in `Fragile` may die each time.

`RagSpec` assumes weak fairness of each request: a worker process runs it to its end,
each statement it waits for ends, and the provider call has a timeout
(`timeout_ms` in `llm.py`, no retries). A step that waits for a lock is enabled
when the lock is free, and locks are held only inside the transactions of
requests, which are fair themselves, or of operators, which are one step. Nothing
is assumed of operators, midnight, faults or defects. `RequestEnds` shows that
no order of locks makes requests wait for each other, with rows that appear
under them, and that every exception has a handler that ends the request.

Every property has a mutant in `PROJECT.json`: a plausible bug in one mapped
definition (a fence that forgets the generation, an update that forgets the
claim token, a skipped readback, a lookup that returns a first page, a rotation
without an outbox row, an off-by-one in a limit) under which TLC finds the
property violated. The operators named as mutants stand just before the
definition they would replace.

## 4. Where documentation and code disagree

Checked, each with a run in which TLC finds the behaviour:

1. `RotationsBounded`: the README calls INGESTION_MAX_RECOVERY_ATTEMPTS the
   maximum of automatic rotations. The code counts claims, so a job no worker
   reaches is rotated at every recovery run.
2. `LeftoversRemoved`: cleanup is said to remove inactive chunks. It reads STALE
   manifests, and only the worker makes its manifest STALE; what a killed
   worker wrote stays behind a WRITING manifest.

Seen while modelling, without a run of their own (the models follow the code):

3. The README (line 273) describes the pending threshold for un-dispatched
   jobs. Recovery (`recovery.py:24`) looks at `created_at` only and rotates jobs
   whose message waits in the queue.
4. A job migrated as PROCESSING has no lease, and `lease_expires_at <= now` is
   never true of it (`recovery.py:25`): the automatic recovery that the
   architecture document describes (lines 81-82) passes it over for good.
5. Phase 05 of the durability plan (line 87) says that a failed upload
   transaction deletes its saved file. The handler (`views.py:61`) deletes the file of a document whose
   `create` returned; when `create` itself raises, what it stored stays for the
   reconciliation command (`CreateRaises`).
6. Columns the admin shows as read-only (`admin.py:38`; phase 01, line 62) are
   still written back: the form saves every column it loaded.
7. INGESTION_MAX_EXTRACTED_CHARS (README line 271; phase 05, line 84) bounds the
   characters of the pages; the newlines that join them come on top
   (`extraction.py:59`). `WorkIsBounded` states the bound that holds: the ceiling
   on the pages while they are extracted, the ceiling and the newlines on the
   text that is joined from them.

None of these makes a wrong or partial document visible, the sixth apart. With
one save of the job form over concurrent work `VisibleComplete`,
`CleanedIsEmpty`, `CleanerTargetsDead`, `ClaimsBounded` and `SingleWriter` fail:
an operator who saves an old page revives a job that is over. What survives one save is
`LostNotReplaced` (proved, section 5, with the conditions it needs); after two
it fails as well, while `PendingHasIntent` is proved for any number of them. The
form of a document, which writes no job, harms no reader however often it is
saved: a save may take a document from chat, and what is left is complete and
current. On the quota the
README and the architecture document agree with the code, its known limitation
included: a request that dies leaves its tokens charged.

Two conditions on the files are worth knowing. `NamedFileIsWhole` excepts
commits whose outcome the handler did not learn (`doubtful`): it deletes the
file although the row may exist. And it needs `Slow = {}`: the grace period is
validated to be positive only, and one shorter than an upload lets the command
remove the file of a request in progress.

## 5. Proofs

All theorems are of the safety specifications, for every value of the constants
that satisfies the assumption named in its module (`OutboxAssumption`,
`IngestionAssumption`, `QuotaAssumption`, `QueryAssumption`, `AdminAssumption`,
`RetrievalAssumption`, `UploadAssumption`, `LimitsAssumption`,
`TimingAssumption`): limits and bounds are positive or natural, amounts are
naturals, the faults are named ones, a ticket is a stage of a request, settings
have a positive time limit and a margin larger than the delay of a kill. What a
theorem assumes beyond that stands in its statement and below. Symmetry and
bounds of the runs play no part.

- `OutboxProofs`. Type correctness; then two invariants. `RowsInv`: a row in
  PUBLISHING carries the token of its last attempt, a PENDING row has attempts
  left, no row exceeds `PublishMax` plus its retries. `AttemptsBounded` alone is
  not inductive: a claim adds an attempt, so PENDING must imply that one is
  left, and a late failure must not put a row back in PENDING, for which the
  token must be that of the last attempt. `SentIsAccepted`: a claim in memory
  marked as sent was accepted by the broker. The action properties
  `PublishedByItsClaim` and `SettledUnlessRetried` follow.
- `IngestionProofs`, first part. Types are proved without a limit on attempts
  (`CoreTypeOK`), since a job edited by a form may pass it; `GenerationInv` adds
  that exactly the uploaded documents have a generation. `AttemptsInv` is the
  limit: attempts stay within it only because a waiting job has one left.
  `JobInv` is both; `TypeOK` and `ClaimsBounded` follow. `PendingHasIntent` is
  inductive beside the types.
- `IngestionProofs`, second part. `CoreInv` joins the properties of the run with
  what makes them inductive, attempts apart; `SafetyInv` is `CoreInv` and
  `AttemptsInv`. `WorkerInv`: a busy worker's generation is not
  later than its job's, its manifest is not opened yet or WRITING, and what the
  readback verified is complete. `ManifestInv`: a manifest belongs to no
  generation still to come, and a STALE or CLEANED one to an old generation or
  to a job in FAILURE. `CleanerInv`: every row a cleaner holds was and stays
  STALE or CLEANED, and what the lookup saw covers what is left to delete. Such a generation
  never comes back to life, because generations are only drawn fresh; this is
  why checking snapshots without a lock is enough. `ScheduleInv`, beside it, is
  about count and date of a deletion: a row that was never STALE has counted
  nothing, so STALE starts below the limit with a date, and every save of a
  cleaner writes both columns from one snapshot; `StaleGenerationsAreScheduled`
  follows.
- `IngestionProofs`, third part. `Ingestion` implements `DocumentLifecycle`: initial states
  map to initial states; every step moves each document along one edge of the
  diagram or leaves it (`NextWalks`), and keeps what is visible visible and
  complete (`StepMaps`). That recovery never gives up a job in PENDING rests on
  `JobInv`; that no visible document is ever restarted, on `VisibleIsCurrent`.
- `SystemProofs`. A step of `IngestionSystem` is a step of `Ingestion` or leaves
  its variables alone, so every theorem above holds with the outbox and the
  broker in between; stated for its eight safety properties (`SystemIsSafe`) and
  for the lifecycle. `WaitingJobsAreCarried` assumes that the
  broker keeps what it accepted (`"lose"` is no fault). Its invariant
  `CarriedInv` says that rows and claims exist exactly for the intents
  dispatched (`IntentInv`), and that a message the table or a publisher calls
  sent is in the queue until nobody may claim it any more (`SentInv`). The
  latter survives rotations because generations only grow
  (`NeverClaimableAgain`).
- `AccessProofs`, the forms. `FormsKeepTypes` and `FormsKeepIntents` hold for
  any number of saves of either form, edited or not: a form writes back a
  generation the job once had, whose outbox row is never deleted
  (`IntendedInv`), so even a job put back to PENDING has its intent.
  `DocumentFormsAreSafe` is about the form of a document: the pointer it writes
  back is none or the one still shown (`PointerLoaded`, `PointerInv`), so
  `CoreInv` holds beside any number of its saves. Only the limit on attempts is
  lost, because a success whose pointer a save cleared is reindexed and claimed
  once more. `OneSaveLosesWhole` is about one save of either form: until it
  happens `CoreInv` holds, every success is visible (`SuccessIsVisible`) and the
  page of a success saves the row it found (`SuccessLoaded`); afterwards tasks
  write status and pointer together, which is all that `LostNotReplaced` needs.
  Each of its three assumptions (`MaxSaves <= 1`, no migrated documents, no
  status SUCCESS set by hand) is needed: without any one of them TLC finds the
  property violated.
- `AccessProofs`, the requests. A request holds no lock; it is safe because an
  ACTIVE generation stays ACTIVE and complete for good (`ActiveStays`, from
  `CoreInv`), so `ReaderInv` carries what the first query read to the answer,
  whatever Chroma returns. `SearchedIsWhole` and `AnswersAreVerified` assume
  that the forms are those of documents (`Forms \subseteq {"document"}`, as in
  the run), saved any number of times. With the form of a job neither holds: one
  save that puts a finished job back to PENDING makes a worker write again what
  a request is searching.
- `UploadProofs`. `NamedFilesAreWhole` assumes that no request and no query of
  a command outlasts the grace period (`Slow = {}`). A file is old only when its
  request is over, and a request that is over makes no row name its file again;
  so a file that a command found old and unnamed stays unnamed, however old the
  snapshot is (`DoomedInv`). `RequestInv` says that what is about to be
  committed is whole. `UploadTypeCorrect` needs no such assumption.
- `BoundsProofs`. `WorkersAreAlone`: the clock of a living worker has not passed
  its limit and slack (`ClockInv`), the lease it stamped is at least the limit
  and the margin later (`LeaseInv`), the lease it holds is the job's
  (`OwnerInv`); so the job's lease has not run out while it lives. The clock has
  no bound here. `LimitsInv` says what each stage of the pipeline knows of those
  before it, for every limit and document: in particular that the pages
  extracted and those left are within the limit together. `DocumentsAreWhole`
  follows for what is accepted, and `WorkStaysBounded` for every stage, also of
  what is rejected later. `ContextIsWhole` and `ReturnedChunksAreContext` are about the loop
  over the blocks of a prompt: while it runs it has left out nothing
  (`ContextInv`), so the context is the start of the whole; what it spends of the
  budget and what remains are always the limit (`BudgetIsSplit`), so neither
  context nor chunks exceed it; and the context ends in no separator, because one
  is added only with a character after it (`EndsInLetter`).
- `RagProofs`, first part. `Quota` implements `DailyBudget`. A call decides by
  what it read some steps before it writes; `LockInv` (at most one call is in
  the transaction that holds the subscription) and `CallInv` (the limit read is
  still the limit, the usage read of a row held is still its usage, and zero
  for a row that is missing) make the decision and the write one step of the
  abstract specification. `QuotaTypeOK`, with usage never negative, needs
  nothing more than the clamp. `UsageExplained` is proved over that abstract
  step: it changes the usage of one day as it changes the charge of one entry
  (`SumInv`), and the clamp never bites on a day no operator wrote, since the
  day holds at least the charge that is settled.
- `RagProofs`, second part. `CallsInv`: a stage has a provider call only if its reservation
  was granted, and until a settlement is attempted the reservation is open. So
  the service settles only open reservations, every step of `RagQuery` is a step
  of `Quota` or leaves it alone, and `ImplementsBudget` and
  `UsageIsExplained` carry over; `SettledForGood` follows. `RagInv` adds what each handle says of its
  reservation (`StageInv`: attempted means settled, or raised by the database)
  and what the place of a request says of both its stages (`RequestInv`), from
  which `NothingLeftOpen` and `AnswerReportsCharge` follow: there is one lemma
  per action, and `StepOfStage` reduces each to the stage and request that moved.
  `UsageStaysWithin` needs that a settlement never exceeds the reservation,
  hence that the bound the handle knows is the one the ledger has (`Priced`).
- `FoldProofs`. Sums over a set and folds over a sequence are folds of the
  community modules: recursive functions, one of which CHOOSE picks. The
  induction theorems of the library take the statement to prove as an operator,
  which the provers cannot instantiate; here it is a set. `UpTo` and
  `SubsetInduction` follow from the least element of a set of naturals and of a
  well-founded relation (`LeastNumber`). Two functions that satisfy the equation
  of a fold agree (`FoldUnique`) and one exists (`FoldExists`), so the one that
  is picked obeys it: that gives `SumEquation` and what a sum is when one
  element is added, changed or taken away (`SumRest`, `SumWithout`).

Every safety invariant the runs check, and every action and refinement property,
is stated by a theorem. Model-checked only are the liveness properties
(`DispatchSettles`, `JobSettles`, `StaleIsCleaned`, `UploadSettles`,
`LostActivationIsRepaired`, `OrphansRemoved`, `RequestEnds`): they need fairness
and ENABLED, which the prover does not handle.

## 6. Not modelled

- The tooling for editors under `.agents` and `.codex`, vendored and no part of
  the program. It is most of the repository's code; the service itself is about
  3,800 lines in `apps/` and `config/`, of which the map covers some 1,660. The
  rest of those are declarations (fields, indexes, migrations, serializers,
  routes, settings), texts and logging.
- The vector store cached per process and the lock around it: the processes
  deployed have one thread each (gunicorn's sync workers, Celery's prefork
  pool), so no two callers meet there.
- `replace_document_chunks`, which only tests call.
- In the admin: changing the owner of a document, adding and deleting rows.
- The health endpoint and the mapping of errors to status codes: stateless.
- The wording of prompts and the token estimate, a sum of byte lengths.
- What the parsers, the splitter, Chroma and the provider do inside.
- Starvation by the batch limit (`recovery.py:27` takes the oldest rows first,
  and `created_at` never changes): it needs more stale documents than the limit
  and rotations without end, beyond any bound on the generations drawn.
