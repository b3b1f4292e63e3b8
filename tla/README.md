# Argon-BE in TLA+

Argon-BE is an image backend: a REST API takes uploads, a worker validates them,
and three stage workers (convert, compress, variants) process what was accepted.
PostgreSQL holds the rows, S3 the pixels, Redis the BullMQ queues and the status
events. This directory holds TLA+ modules of that system, the TLC configurations
that check them, and proofs for TLAPS. Paths below are relative to the root of
the repository.

## 1. Inventory

| Component | State it keeps | Operations | What makes it correct |
|---|---|---|---|
| Stage workers, `src/workers/processing/*.worker.ts` | nothing between jobs; in a job: the row it read, the buffer it works on | one processor per stage, `wireFailureHandler` | a stage finds its input; the row never points at nothing; COMPLETED means complete; an image ends COMPLETED, FAILED or removed |
| Pipeline queues, `src/infra/queue/pipeline-queues.ts` | jobs in Redis, retained job ids | `enqueueConvert` (fixed id or fresh), `enqueueCompress`, `enqueueVariants` (ids of their own) | a reprocess always runs; a hand-off is never lost |
| Image repository, `src/infra/repositories/image.repository.ts` | `images` and `variants` tables | one statement per method; updates are by id and unconditional | a deleted row is not written again; one Variant row per type |
| Image service, `src/domain/services/image.service.ts` | none | `upload`, `seedForPipeline`, `reprocess`, `remove`, `list`, views | the database, S3 and the queue agree although no transaction spans them |
| Validation worker, `src/workers/image.worker.ts` | none between jobs | processor, failure handler | a rejected image is not processed; an accepted one is; an outcome is final |
| Validators, `src/workers/validators`, `src/workers/pipeline` | the context passed along the chain | `validate` of five rules in order | first failing rule decides; no near-duplicate of an accepted image is accepted |
| Perceptual hash, `src/workers/processors/phash.ts` | none | `computePerceptualHash`, `hammingDistance` | the distance is a metric on hashes |
| Face detector, `src/workers/processors/face-detector.ts` | the cached initialisation promise | `ensureInitialized`, `detectFaces` | one load for all jobs, none before it; a failed load can be tried again |
| Image operations, HEIC converter | none | `sharp` and `heic-convert` calls | bounds on sizes |
| Status events, `src/shared/events.ts` | two Redis clients, local listeners | `emitStatus`, `onStatus`, subscriber | a client sees no status that is not in the database, and in the end the latest |
| Object storage, `src/infra/storage` | the bucket | put, get, delete, sign | - |
| HTTP layer, `src/api`, `src/app.ts` | none but the open event streams | routes, zod schemas, multer limits, errors | the pages of a list partition it |
| Entry points, `src/worker.ts`, `src/processing.ts`, `src/server.ts` | calls of `shutdown` under way | start, stop on a signal | a stop interrupts no job, and ends |
| Configuration, logging, scripts | - | - | - |

How they interact: the API process writes the row and S3 and then adds a job; a
worker takes a job, reads the row, and makes one call after another to the
database, S3, and the next queue. Nothing spans two of these calls: no
transaction, no lock, no version check. Every `await` is a place where another
worker, a second run of the same image, an API call or a crash may come in.

Beside that, every status write of a worker is followed by an event: published
through the connection of that process, received by each API process, passed on
to the open streams of the user. Nothing orders the events of two processes, and
nothing orders an event against the answer to a list.

The hard behaviours are therefore: two runs of one image at once (a retry after
the hand-off, a redelivered job, a reprocess of a running image); `remove`
against any of them; a variant branch that outlives its rejected `Promise.all`;
the window between a status write and the queue add after it; the final-failure
handler, whose own write may be lost; the stop of a process with jobs at work;
events and list answers that overtake each other; and a list that changes while
it is paged through. The full list, line by line,
is `hazards` in `PROJECT.json`.

## 2. Modules

    ArtifactLadder            abstract: what the gallery is promised
      ^ refinement
    MediaPipeline             stage workers, rows, objects, jobs, seed, reprocess, remove
      |-- MCMediaPipeline         instances for TLC
      |-- MediaPipelineProofs     types of everything; THEOREM TypeCorrect
            |-- MediaPipelineInvariant       THEOREM Invariance and its corollaries
                  |-- MediaPipelineTheorems      THEOREMS NoneStranded, OriginalsAreKept,
                                                 PipelineImplementsLadder

    Admission                 abstract: what the rest of the system is promised
      ^ refinement
    Validation                upload, validation worker, entry into the media pipeline
      |-- MCValidation            instances for TLC
      |-- ValidationProofs        types, the four safety invariants, the refinement

    WorkerProcess             one process: jobs, the shared face model, stop, crash, restart
      |-- WorkerProcessProofs     types and the three safety invariants

    StatusEvents              status write -> publisher -> Redis -> replica -> stream -> card
      |-- MCStatusEvents          instances for TLC
      |-- StatusEventsProofs      types and the two safety invariants

    Gallery                   pages of the list while images come, change and go
      |-- MCGallery               an instance for TLC
      |-- GalleryProofs           types and the three safety invariants

    PerceptualHash            hash bits, hex digits, Hamming distance (operators)
      |-- ValidationChain         the five validators on one file
            |-- MCValidationChain     the files considered
            |-- ValidationChainProofs the hash, its distance, the four invariants

`Validation` and `MediaPipeline` model two halves of one system and meet at the
`Image` row and the convert queue. `Validation` sees of a media run its first and
its last status write (`MediaStart`, `MediaEnd`); `MediaPipeline` starts where an
image is ACCEPTED, by `seedForPipeline`. `ValidationChain` refines one step of
`Validation`: what `Fetch` and `Scan` decide there from the sets `Unsound` and
`Similar`, the chain decides here from a file. `WorkerProcess` looks at the same jobs from
the side of the process they run in; what it calls `Crash` is the `Crash` of the
two pipelines, and a job it ends as `unrecorded` is their fault `"handler"`.
`StatusEvents` and `Gallery` see of the pipelines only the rows they write.

### MediaPipeline

One action is one awaited call (a database statement, an S3 operation, a queue
add) with the computation up to the next call.

| Variable | Code |
|---|---|
| `rows` | the `Image` row with its `Variant` rows: status, whether `processingError` is set, which of `normalizedKey`, `compressedKey` are set, the variant types present |
| `objects` | the kinds of object in S3 under the image's deterministic keys (`keys.ts`) |
| `jobs` | BullMQ jobs of the three queues: stage, attempts made, the call the processor makes next, the source key it read, the progress of each variant branch |
| `strays` | branches of a rejected `Promise.all` that still run |
| `seeds`, `requests` | API calls in progress: `seedForPipeline`; `reprocess` and `remove` |
| `crashes` | bounds the crashes |

| Actions | Code |
|---|---|
| `Load`, `Mark`, `Fetch`, `Store`, `Record`, `Handoff` | the awaited calls of `conversion.worker.ts:28-57`, `compression.worker.ts:30-73`, and the first three of `variants.worker.ts:44-65` |
| `RenderPut`, `RenderUpsert`, `Complete` | the concurrent branches and `markCompleted`, `variants.worker.ts:68-95` |
| `Ack` | the processor returned; BullMQ completes the job |
| `Throw` | a call rejects: BullMQ delays the job and tries it again, or gives it up when `attempts` are used |
| `StrayPut`, `StrayUpsert`, `StrayLost` | what an abandoned branch still does |
| `FailedHandler` | `wireFailureHandler`, `conversion.worker.ts:71-93` |
| `Crash`, `StallOut` | a worker process stops and its jobs are delivered again; BullMQ gives up on a job that stalled too often |
| `SeedStore`, `SeedCreate`, `SeedEnqueue`, `SeedFail` | `seedForPipeline`, `image.service.ts:118-145` |
| `ReprocessFind`, `ReprocessMark`, `ReprocessEnqueue` | `reprocess`, `image.service.ts:151-158` |
| `RemoveFind`, `RemoveObjects`, `RemoveRow` | `remove`, `image.service.ts:182-194` |
| `RequestFail` | an error, or the API process stopping, between two calls of a request |

The three processors are one set of actions parameterised by `StageSpec`, since
they differ in the status they set, the key they read, the output they store and
the queue they feed. A job waiting for its first attempt, for a retry after the
back-off and after a redelivery is `waiting`: time is not modelled, any order of
waiting jobs is possible, as it is with several workers and concurrency 4.

Faults are a constant, `Faults`, so a run or a theorem says which it assumes:
`"job"` a transient error of any call of a processor (also after its effect has
taken place), `"handler"` the loss of the final-failure write, `"stall"` BullMQ's
stall limit, `"api"` an error in an API request. Errors that follow from the
state (an update of a deleted row, a key that is not in the row, an object that
is not in S3) are always possible and are not faults (`Doomed`). A file `sharp`
cannot decode is, for the pipeline, a call that throws at each attempt: a
behaviour of fault `"job"`.

### ArtifactLadder

What a reader of the gallery may rely on, with no job, queue or S3 in it: outputs
of an image are published from the bottom up and stay while the image exists, the
image is announced complete only when all are there, and a removed image never
comes back. `MediaPipeline` implements it by

    presence <- row exists / not yet created / gone
    outputs  <- keys and variants in the row
    complete <- status = COMPLETED

The abstract `Reopen` (complete may become false again) is there because the code
does that, on a reprocess and also on a duplicate run.

### Validation

Again one action is one awaited call. `jobs[i]` is the validate job of image `i`
(its job id is the image id, so there is one). `runs[x]` are the media runs: with
`x` an image, the run under the fixed convert id `convert__<imageId>` that
validation enqueues; with `x` a reprocess request, a run under a fresh id. BullMQ
ignores an add with an id it still knows; it knows the last 200 completed and
1000 failed jobs, more than an instance has, so a fixed id is never free again.
`overlapped` is a history variable: the pairs of images whose validations ran at
the same time, each from its `findById` to the last call that changes something.

| Actions | Code |
|---|---|
| `UploadStore`, `UploadCreate`, `UploadEnqueue`, `UploadFail` | `upload`, `image.service.ts:71-106` |
| `Load`, `Mark`, `Fetch`, `Scan`, `PutDisplay`, `Accept`, `Reject`, `EnqueueConvert` | the processor, `image.worker.ts:34-110`, with the scan of `similarity.validator.ts:25-46` as a call of its own |
| `Ack`, `Throw`, `FailedHandler`, `Crash`, `StallOut` | return, rejection and retry, the `failed` listener (`image.worker.ts:118-137`), redelivery; BullMQ gives up on a job that stalled too often, with attempts left, so that the listener does not mark it (fault `"stall"`) |
| `MediaStart`, `MediaEnd`, `MediaGone` | a media run, by its first and last status write |
| `ReprocessFind`, `ReprocessMark`, `ReprocessEnqueue`, `RemoveFind`, `RemoveObjects`, `RemoveRow`, `RequestFail` | `image.service.ts:151-194`; here `remove` knows of the display copy only if the row it read did |

All images belong to one user, because the scan never looks at another user's.

### Admission

What the gallery and the media pipeline may rely on, without jobs, retries or S3:
an image passes only while it is judged, when it breaks no rule, and next to a
similar image that stands accepted only if both were judged at the same time;
only what has passed enters the media pipeline of its own accord; a removed image
never comes back. `Validation` implements it by

    presence   <- row exists / upload has not come to the insert / over
    judging    <- a job of the image is between findById and its last call
    passed     <- a hash in the row
    accepted   <- status = ACCEPTED
    entered    <- the convert id of the image has been used
    overlapped <- overlapped

The guards of `Pass` and `Enter` are the promise. `MoveOn` and `Refuse`, by which
an accepted image loses its standing, are there because a redelivered job, a
reprocess and a media run do that.

### ValidationChain and PerceptualHash

A file is a record of what the libraries find in it: the sniffed type, whether
`heic-convert`, `sharp` and `node-canvas` succeed, sizes before and after the
conversion of a HEIC, the variance of the Laplacian, the areas of the faces, the
DCT block. `down` is what of the infrastructure fails while the file is judged:
the load of the face model, the scan of the database. The five validators are
operators from a file and a context to a code and a context; `Turn` is one turn
of the loop of `ValidationPipeline.run`, with the break and with `collectAll`.
`Similarity` computes the hash of the block and its distance to the hashes of the
accepted images through `PerceptualHash`, digit by digit as the code does; the
reference definition counts the positions in which two blocks differ. `Breaks` is
the table of rejection codes (`README.md:366-378`) on the file alone, and
`Departs` names the three places where the code decides otherwise. The sort of
the coefficients (`phash.ts:73`) is modelled by its result: place n holds the
coefficient that has n coefficients not after it, equal ones in order of
position.

### WorkerProcess

One action is what a process does between two awaits. `jobs[j]` is a validate job
by what it does with the model: `start`, `init` (awaiting the promise), `detect`;
`handling` while the `failed` listener writes. `initialized`, `faceapi` are the
module variables of `face-detector.ts`; `loading` counts the loads under way;
`shutdowns[p][s]` is the call `shutdown(s)`.

| Actions | Code |
|---|---|
| `Take` | a BullMQ worker takes a job, while it has a slot and is not closing |
| `EnsureInitialized`, `LoadEnds`, `Awaited` | `face-detector.ts:28-52` |
| `Detect`, `DetectFails`, `FailedHandler` | the rest of the job; the listener of `image.worker.ts:118-137`, for which BullMQ does not wait |
| `Signal`, `Closed`, `Exit` | `shutdown`, `worker.ts:19-28`: `worker.close()`, the connections, `process.exit` |
| `Crash`, `Restart` | the process ends with jobs at work; a supervisor starts it again |

### StatusEvents

A status is known by its number: `rows[i]` counts the status writes of image `i`,
and an event carries the number of its write. `unsent[w]` holds the events of
writes whose `emitStatus` has not been called, `outbox[w]` what the publisher of
process `w` has queued, `inbox[r]` what Redis has sent to API process `r`.
`listing[c]` is a list answer on its way to client `c`, `view[c]` its cards.
`missed` and `raced` are history variables that name the two reasons for a stale
card.

| Actions | Code |
|---|---|
| `Write`, `Emit`, `Publish` | a status write and the `emitStatus` after it (`image.worker.ts:45-51` and its siblings), `events.ts:79-84` |
| `PublishFails`, `WorkerCrash` | the `catch` of `publish`; a process stops |
| `Reprocess`, `Remove` | `image.service.ts:154`, `193`: they change the row and emit nothing |
| `Deliver`, `Unsubscribe`, `Subscribe` | `events.ts:57-72` and the listener of `images.controller.ts:185-188`; ioredis |
| `Open`, `Break`, `List`, `ShowList` | the client of `docs/frontend-prompt.md:117-123`: one stream, one list, each event overwrites the card |

### Gallery

A page is two queries, `ReadRows` (`repo.list`) and, in `Respond`, the variants
(`toViews`) with the cursor (`images.controller.ts:78`). Rows are ordered by
`createdAt` alone, so any order of rows of one millisecond is possible in each
query, and a query after a cursor row may begin anywhere among the rows of its
time; a query whose cursor row is not among those selected finds nothing. This
is what Prisma does with `cursor` and `skip`, and external. `steady` remembers
the images that were listed all the while; `Insert` and `Commit` are apart
because `createdAt` is taken before the row can be seen.

### Collecting every reason

With `collectAll` the later validators run on a context an earlier one left
incomplete, so the reasons after the first may include CORRUPT_FILE for a file
that failed `Format`; the default pipeline does not set it.

## 3. Runs

Images share only the job slots of `MediaPipeline`, so one image carries every
interaction in which its properties are interested; two live jobs are two
concurrent runs of it. Two variants are the fewest with a branch left behind by a
failing one. Two attempts are the fewest with a retry and a last attempt. Job
slots and requests are interchangeable and declared symmetric in the run that
checks safety only, and so are the two twins of `validation_twins`. In
`Validation` two images are the fewest with a duplicate. In `WorkerProcess` three
jobs on two slots leave one waiting while two share the model. In `StatusEvents`
two worker processes are the fewest whose events can change places, two replicas
the fewest that can get different ones, and three writes the fewest with an event
between two others. In `Gallery` a limit of two over three or four images makes a
full page, a last page, and a full last page.

| Run | Checks | Instance |
|---|---|---|
| `pipeline_faults` | `TypeOK`, `StageInputsReady`, `RowsPointAtObjects`, `CompletedHasAllVariants`, `IInv`, `ImplementsLadder` | 1 image, 2 jobs, 1 request, 2 variants, 2 attempts, 1 crash, every fault; 1.1 million states |
| `pipeline_settles` | `InProgressHasOwner`, `OriginalKept`, `Settles` | 2 jobs, 2 requests, 1 variant, 2 attempts, 1 crash, fault `job`, with fairness; 0.7 million states |
| `validation_twins` | `TypeOK`, `AutomaticRunsAccepted`, `DuplicatesOverlapped`, `ImplementsAdmission` | 2 similar images (symmetric), 1 request, 2 attempts, 1 crash, faults `job`, `handler`, `api`, `stall`; 1.3 million states |
| `validation_ends` | `ValidationHasOwner`, `DisplayBacked`, `ImplementsAdmission`, `ValidationEnds` | 2 images, one HEIC and one that breaks a rule, 1 request, 2 attempts, 1 crash, faults `job` and `media`, with fairness; 0.3 million states |
| `chain_rules` | `FirstBrokenRuleDecides`, `PassedContextComplete`, `FewerThanHalfSet`, `ThrowHidesNoRejection` | files on both sides of every threshold of the default settings, alone and together, with and without the model and the database, with and without `collectAll`; 1024 subsets of ten strong coefficients in an 8 by 8 block, at distances 0 to 9 of an accepted one |
| `worker_process` | `TypeOK`, `OneLoadAtATime`, `DetectsWithModel`, `StopInterruptsNoJob`, `StopEnds`, `JobsEnd` | 1 process, 3 jobs, 2 slots, 2 attempts, 2 signals, 1 crash, 2 transient errors, with fairness |
| `status_events` | `TypeOK`, `NeverAhead`, `StaleOnlyIfMissedOrRaced`, `EventsSettle` | 1 image, 3 writes, 2 workers, 2 replicas, 2 sessions of its user, 2 faults of any kinds, with fairness; 0.4 million states |
| `gallery` | `TypeOK`, `NoneSkipped`, `ReturnedOnce`, `CompletedHasVariants`, `TraversalEnds` | 4 images, 3 of them there at the start with any times of 3, pages of 2, 2 writes, with fairness; 1.0 million states |
| `accepted_stuck` | violates `AcceptedFlowsOn` | 1 image, 1 crash, no fault, with fairness |
| `completed_duplicate` | violates `DuplicatesOfCompletedRejected` | 2 similar images, no crash, no fault |
| `poisoned_worker` | violates `TransientErrorsRetried` | 1 process, 2 jobs, 3 attempts, 1 transient error |
| `cursor_removed` | violates `NullAtTheEnd` | 3 images, pages of 2, with fairness |

`CHECK_DEADLOCK FALSE` throughout: once its images are uploaded and its requests
made, an instance has nothing left to do.

Fairness (`FairSpec`): a worker that holds a job makes its next call, a rejected
call rejects the job, BullMQ delivers the `failed` event, and an API request that
has begun runs on; BullMQ and the event loop provide these. A client is not
forced to call, and nothing is forced to fail. Fairness on a job is one weak
fairness condition on all its actions, success and failure together, because the
code does not promise that a call ever succeeds.

In `Validation` the same holds of an upload whose original is stored, of a
validate job, of a media run and of a request. In `WorkerProcess` it holds of a
job, of a load, of a shutdown, and of the supervisor that starts a process again;
taking a job is fair over all processes together. In `StatusEvents` connections
drain and reconnect and a client keeps its stream open (`EventSource` does), but
no write and no call is forced. In `Gallery` only the traversal is fair.

What some of the properties say deserves a word. `DuplicatesOverlapped` bounds
the duplicate window: two similar images are both ACCEPTED only if their
validations overlapped in time. It is the strongest statement the code keeps,
since scan and status write are separate calls. `ValidationHasOwner` says that an
image under validation is never abandoned, whatever retries and redelivered jobs
do, and names the one gap for an accepted image: its convert job has run before.
`StaleOnlyIfMissedOrRaced` is the same kind of statement for the badge of a card
that came with a list: within the model it stays stale only because the event of
the latest status was not sent to it (none exists, or it was dropped, or it came
before the card was there), or because events of the image were on two ways at
once. Cards that come with the answers of `upload`, `reprocess` and `remove` are
not in the model, so it says nothing of them. `NoneSkipped` and `ReturnedOnce`
exclude images that share their `createdAt` with a cursor: there the code does
skip and repeat, and no document promises otherwise. When a cursor row leaves the
listing before it is used, `NoneSkipped` says that this costs no image newer than
it; `cursor_removed` shows that it costs the older ones. `CompletedHasVariants`
holds although a page is two queries, because the variants are read after the
rows and are only taken away with their image. `TraversalEnds` needs no bound on
uploads: new images are newer than the cursor. `FirstBrokenRuleDecides` is the
table of rejection codes up to `Departs`. `ThrowHidesNoRejection` says that a call
that fails, whatever fails, never stands in for a rejection that an earlier rule
would have given; with `collectAll` it does, and this is excluded.

### What the violations show

 - **A redelivered validate job strands its image at ACCEPTED**
   (`accepted_stuck`). A worker stops after `enqueueConvert` and before the job is
   acknowledged; the image is processed to COMPLETED; the job is delivered again,
   writes PROCESSING and ACCEPTED over that, and its `enqueueConvert` is ignored,
   because the finished convert job with the fixed id is retained.
   `image.worker.ts:14-16` calls a re-run safe, and `106-108` says that the image
   flows on.
 - **Duplicates of a COMPLETED image pass** (`completed_duplicate`).
   `listAcceptedHashes` (`image.repository.ts:115`) asks for the status ACCEPTED,
   which an image leaves as soon as the media pipeline takes it up;
   `similarity.validator.ts:2` promises to reject near-duplicates of an accepted
   image.
 - **One failed load of the face model fails every later job of the process**
   (`poisoned_worker`). `face-detector.ts:29-31` keeps the promise of the first
   load also when it was rejected, so the retries in that process reject without
   a new load; `docs/architecture.md:274` says that transient errors are retried.
 - **A lost cursor ends the list early** (`cursor_removed`). When the last image of
   a page is removed before the next page is asked for, the query after it finds
   nothing (`image.repository.ts:51`), and the page is empty with `nextCursor`
   null, which `docs/api-contract.yaml:257` says means the end. A status filter
   that no longer selects the cursor row does the same.

More places where the models show the code and its documentation apart, not kept
as runs:

 - Three departures from the table of rejection codes (`Departs`). A file whose
   header can be read and whose pixels cannot makes a validator throw, the job
   fails (`validation-pipeline.ts:47`) and is retried, and the image ends FAILED;
   the comment above that line and `README.md:378` promise a rejection with
   CORRUPT_FILE. `dimension.validator.ts:16` measures the JPEG a HEIC file is
   converted to; `README.md:371` speaks of the file. An image more than about 100
   times as long as it is wide has no interior pixel to measure after the resize,
   and `NaN < threshold` is false, so that it passes the blur rule however blurred
   (`blur.validator.ts:57-60`); the rule of the face remains.
 - A final failure can stay unrecorded: `conversion.worker.ts:88` logs the error of
   the final-failure write and the job is gone, while
   `docs/architecture.md:271-273` says it never disappears silently. With fault
   `"handler"` added, `pipeline_settles` violates `Settles`. `process.exit` during a
   stop can cut that write off too (`WorkerProcess`, `unrecorded`).
 - A list answer can set a card back for good, with one worker process and no
   fault: the client has its stream open and lists; the rows are read; the status
   is written, and its event comes before there is a card to update; the list is
   then shown, with the old status. Events of two worker processes that change
   places do the same. `README.md:349` offers the stream for keeping the UI up to
   date; `StaleOnlyIfMissedOrRaced` counts the first as missed and the second as
   raced.
 - `reprocess` writes a status and emits no event (`image.service.ts:154`), where
   `docs/api-contract.yaml:531-532` says that every change is emitted; in
   `StatusEvents` such a status is missed by every client.
 - `remove` deletes the original and the display copy (`image.service.ts:188-191`)
   and leaves the normalized image, the compressed image and the variants in S3;
   `README.md:345` says "DB row + S3 objects".
 - `reprocess` answers with the row read before the status change
   (`image.service.ts:152-157`; `README.md:334-335` promises the new status).
 - A redelivered stage job takes a COMPLETED image back to a stage without a
   reprocess call (`variants.worker.ts:57`; `docs/architecture.md:142-143`).
 - `reprocess` takes a REJECTED image into the media pipeline
   (`image.service.ts:154`; `schema.prisma:21`).
 - A full last page has a cursor (`images.controller.ts:78`), and the page after it
   is empty; the API contract says `nextCursor` is null at the end.

## 4. Proofs

### The media pipeline

All for arbitrary `Images`, `Jobs`, `Requests`, `VariantTypes`, `Attempts`,
`MaxCrashes`, `Faults` under `ConstantsAssumption` (variants exist and are not
named like the other objects; at least one attempt).

 - `TypeCorrect`: `Spec => []TypeOK`, by one lemma for each group of actions.
   `Job` ties the program counter to the stage and to the attempts left, which
   the later proofs need.
 - `Invariance`: `Spec => []IInv`. `StageInputsReady`, `RowsPointAtObjects` and
   `CompletedHasAllVariants` are not inductive: they say nothing of a job halfway
   between its put and its row write. `IInv` adds what each program counter
   remembers (`JobSound`: at `record` the output is stored, at `handoff` the key is
   in the row, a branch past its put has its object, a finished one its row), the
   same for abandoned branches (`StraysSound`), the order of a row's outputs
   (`RowSound`), and that nothing works on an id before its row exists, so that
   a row, once deleted, is not found again by an old job (`RequestSound`,
   `Created`). The proof goes one image at a time: a step touches one image, and
   what other images' jobs know is unchanged (the frame lemmas).
 - `StagesFindTheirInput`, `RowsAreBacked`, `CompletedIsComplete` follow.
 - `NoneStranded`: with `Faults \subseteq {"job"}`, `Spec => []InProgressHasOwner`.
   Its invariant adds `GivenUpIsSpent`, that BullMQ gives a job up only with all
   attempts used, which is what `wireFailureHandler` tests. With `"stall"` it is
   false, and so is the theorem: that is the hypothesis' purpose.
 - `OriginalsAreKept`: with `"api" \notin Faults`, `Spec => []OriginalKept`, for
   any number of concurrent requests. It needs of `IInv` that a request names an
   image whose row has been created, so that no `remove` comes between the put of
   the original and the insert of the row, and it adds `SeedStored` for that
   window. With `"api"` it is false: a `remove` that fails between its deletes
   leaves a row without an original.
 - `PipelineImplementsLadder`: `Spec => ImplementsLadder`. Each action is matched
   with the step of the ladder it takes, or with none. `IInv` supplies what a step
   needs: the rungs below the output that is written (`InputReady`, `RowSound`,
   `StraysSound`), all outputs at the announcement (`JobSound`), and that an id
   whose row is gone has been created before (`Created`).

### Validation

`ValidationProofs`, for arbitrary `Images`, `Requests`, `Heic`, `Unsound`,
`Similar`, `Attempts`, `MaxCrashes`, `Faults`.

 - `TypeCorrect`: `Spec => []TypeOK`.
 - `DuplicatesTheorem`: `Spec => []DuplicatesOverlapped`, under every fault. What
   carries it: a hash once written stays, and of two similar images whose
   validations did not overlap the later scan saw the hash of the earlier one.
 - `AutomaticRunsTheorem`: `Spec => []AutomaticRunsAccepted`, under every fault.
 - `DisplayTheorem`: with `"api" \notin Faults`, `Spec => []DisplayBacked`; the job
   that is about to accept a HEIC image has stored its copy, and only a `remove`
   takes it away.
 - `OwnerTheorem`: with `Faults \subseteq {"job", "media"}`,
   `Spec => []ValidationHasOwner`. The hypothesis excludes the lost handler write,
   the upload that fails between its row and its job, and the job that BullMQ gives
   up at its stall limit with attempts left, which `image.worker.ts:120` does not
   mark FAILED: with each of them it is false. So it is about any number of
   crashes, none of which brings a job to that limit.
 - `ValidationImplementsAdmission`: `Spec => ImplementsAdmission`, under every
   fault. Each action is matched with the step of `Admission` it takes, or with
   none. The invariant supplies the guards: `ScanStillHolds` (a similar image that
   is accepted between the scan and the status write has been validated at the
   same time) and `RulesKept` for `Pass`, `AcceptedHashed` for `Enter`,
   `UploadNotOver` for what appears and never comes back.

### Worker processes

`WorkerProcessProofs`, for any number of processes, jobs, slots, attempts and
signals: `TypeCorrect`, `OneLoadTheorem` (`OneLoadAtATime`; with it: the promise is
pending exactly while the one load is under way, and resolved exactly when the
weights are there), `DetectsWithModelTheorem` (with it: a job that detects runs in
a process whose promise is resolved, and a load is never undone in a living
process), `StopTheorem` (`StopInterruptsNoJob`; with it: once one shutdown is past
`worker.close()` no job is active and none is taken).

### Status events

`StatusEventsProofs`, for any number of images, workers, replicas, clients and
writes and every choice of faults and calls.

 - `TypeCorrect`: `Spec => []TypeOK`.
 - `NeverAheadTheorem`: `Spec => []NeverAhead`; the invariant adds list answers on
   their way.
 - `StaleTheorem`: `Spec => []StaleOnlyIfMissedOrRaced`. For an image that has not
   raced, `Solo` says that at most one event of it is on its way to Redis, that it
   is later than those on their way to the replicas, and that these are in order;
   `Caught` says that the latest status is missed, or on its way, or that nothing
   is on its way and the client shows that status. Lemmas on `Append` and `Tail`
   carry the order through the queues; then there is one lemma for each action.

### The gallery

`GalleryProofs`, for every finite set of images, page limit, filter and number of
writes: `TypeCorrect`, `NoneSkippedTheorem`, `ReturnedOnceTheorem`,
`CompletedTheorem`. None of the three is inductive: they speak of whole pages that
have been returned, while a page is under way. `GInv` adds

 - `CursorOldest`: the cursor is the oldest image returned so far;
 - `PageGoesOn`: a page that was read but not yet answered goes on below what was
   returned, newest first, and repeats only what shares its `createdAt` with a
   cursor (with it, `ReturnedOnce`);
 - `RemainingAhead`: an image listed all the while is returned, on the page, or
   below the cursor, or below a lost cursor, and if the page is not full there is
   nothing below it (with it, `NoneSkipped`);
 - `LostEnds`: after a lost cursor the traversal returns nothing more;
 - `CompletedRows` and `PageCompleted`: what the page says is COMPLETED still has
   its variants when the second query reads them, or is gone;
 - `MetHaveBegun` and `SteadyListed`: whatever the traversal has met has a
   `createdAt` that no longer changes.

That a page shorter than the limit holds everything below the cursor is a count:
`DistinctCounted` says that the rows of a page are as many as its images.

### The validators and the hash

`ValidationChainProofs`, for every size of the hash, every file, every list of
accepted blocks and every threshold.

 - `HammingCountsPositions`: the distance of two hashes, added up digit by digit,
   is the number of positions in which the two images lie on different sides of
   their medians. The sum over the digits is a fold, for which an induction would
   be due; the proof takes a smallest set of digits on which the sum and the count
   differ (the order of strict inclusion on subsets of a finite set is well
   founded) and contradicts it.
 - `FewerThanHalf`: fewer than half of the bits of any hash are set, also when
   coefficients are equal. The coefficients above the median have places above
   the middle one (`AboveCounted`), and places are not shared (`PlacesGrow`).
 - `FirstBrokenRuleTheorem`, `PassedContextTheorem`, `FewerThanHalfTheorem`,
   `ThrowsTheorem`: the four invariants of `chain_rules`, for every set of failing
   infrastructure. `FormatSound` to `SimilaritySound` say of each validator what it
   finds, from what context and when it throws; `CInv` carries along the chain that
   the rules passed so far are kept, up to `Departs`, and the context is that of a
   file without a broken rule.

### What is left to TLC

Every safety invariant of the passing runs and both refinements are proved. The
runs are still what shows that the statements are not vacuous (each has a mutant
of the code that breaks it). Liveness (`Settles`, `ValidationEnds`, `StopEnds`,
`JobsEnd`, `EventsSettle`, `TraversalEnds`) stays with TLC, as the prover has no
rules for fairness and ENABLED.

## 5. Not modelled

Pixels, and with them what `sharp`, `heic-convert`, the face model and the
floating-point DCT compute; presigned URLs; log records; the wording of errors;
back-off times; configuration; the rate limiter and the limits of multer, which
refuse a request before it has an effect; the API process's own stop, which cuts
off requests as `RequestFail` does; `getOne` and `getVariants`, which are single
reads; the rows that the answers of `upload`, `reprocess` and `remove` carry to a
client, which are further sources of cards. Two writes of one object never
conflict, because a key's content is the same function of the same original.
Redelivery of a job while its first delivery still runs (a worker that loses its
lock but lives) is not modelled for one job; two live jobs of one image, which
are, have the same effect on rows and objects.

## 6. Plan

 1. A refinement for status events: what one stream hears of an image that has not
    raced is an increasing sequence. It needs a history of the stream, as a card
    itself can go back for a moment when a list answer was ahead of an event.
 2. The seam of `Validation` and `MediaPipeline` as a theorem: that `MediaStart`,
    `MediaEnd` and `MediaGone` are what a run of the media pipeline does to the
    status.
 3. The upload of a batch: uploads that settle one by one, and the views awaited
    after them (`images.controller.ts:30-59`).
 4. One module of the whole flow, with `MediaPipeline` in place of `MediaStart`
    and `MediaEnd`.
