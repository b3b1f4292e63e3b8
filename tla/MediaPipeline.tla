---------------------------- MODULE MediaPipeline ----------------------------
(***************************************************************************)
(* The media-processing pipeline of Argon-BE: the three stage workers      *)
(* (convert -> compress -> variants), the Image and Variant rows they      *)
(* write through Prisma, the S3 objects they put, the BullMQ jobs that     *)
(* carry an image from one stage to the next, and the API calls that work  *)
(* on the same rows while jobs run: seed, reprocess and remove.            *)
(*                                                                         *)
(* An action is one awaited call of the code (one database statement, one  *)
(* S3 operation or one queue add) with the computation up to the next      *)
(* call: between two awaits any other actor may run.  Pixels, S3 key text  *)
(* and sizes are abstracted; the keys are deterministic in (user, image,   *)
(* kind) (workers/processing/keys.ts), so an object is named by its kind.  *)
(* Status events on Redis are not part of this module.                     *)
(***************************************************************************)
EXTENDS Naturals, FiniteSets

CONSTANTS
    Images,        \* image ids; uuid() makes them unique, so an id is used once
    NoImage,       \* the image of a job slot or request that is not in use
    Jobs,          \* slots for the jobs BullMQ holds (bounds the live jobs)
    Requests,      \* API calls a client makes (reprocess or remove), each once
    VariantTypes,  \* THUMBNAIL, WEB and FULL in the code
    Attempts,      \* defaultJobOptions.attempts, 3 in the code
    MaxCrashes,    \* bound on the worker crashes of a behaviour
    Faults         \* which calls may fail for a reason outside the program

(***************************************************************************)
(* The faults: "job", a transient error of a call made by a stage          *)
(* processor; "handler", the loss of the final-failure handler's write;    *)
(* "stall", BullMQ giving up on a job that stalled too often; "api", an    *)
(* error of a call made by an API request, or the API process stopping     *)
(* between two calls.                                                      *)
(***************************************************************************)
ASSUME ConstantsAssumption ==
    /\ NoImage \notin Images
    /\ VariantTypes # {}
    /\ VariantTypes \cap {"original", "normalized", "compressed"} = {}
    /\ Attempts \in Nat \ {0}
    /\ MaxCrashes \in Nat
    /\ Faults \subseteq {"job", "handler", "stall", "api"}

VARIABLES
    rows,      \* rows[i]: the Image row of i with its Variant rows, or NoRow
    objects,   \* objects[i]: the kinds of S3 object stored for i
    jobs,      \* jobs[j]: a job of one of the three queues, or FreeJob
    strays,    \* strays[i]: variant branches still running after their job failed
    seeds,     \* seeds[i]: progress of the call that seeds i
    requests,  \* requests[r]: an API call, with what it has read
    crashes    \* worker crashes so far

vars == <<rows, objects, jobs, strays, seeds, requests, crashes>>

-----------------------------------------------------------------------------
(* What each stage worker reads, writes and hands off to.                  *)

Stages == {"convert", "compress", "variants"}

ConvertStage  == [status |-> "PROCESSING_CONVERT",
                  output |-> "normalized", next |-> "compress"]
CompressStage == [status |-> "PROCESSING_COMPRESS",
                  output |-> "compressed", next |-> "variants"]
VariantsStage == [status |-> "PROCESSING_VARIANTS",
                  output |-> "none", next |-> "none"]

StageSpec == [convert |-> ConvertStage, compress |-> CompressStage,
              variants |-> VariantsStage]

Keys == {"normalized", "compressed"}
Kinds == {"original"} \cup Keys \cup VariantTypes

InProgress == {"ACCEPTED", "PROCESSING_CONVERT", "PROCESSING_COMPRESS",
               "PROCESSING_VARIANTS"}
Statuses == InProgress \cup {"COMPLETED", "FAILED"}

Row == [status : Statuses, error : BOOLEAN, keys : SUBSET Keys,
        variants : SUBSET VariantTypes]
NoRow == [status |-> "NONE", error |-> FALSE, keys |-> {}, variants |-> {}]
NewRow == [status |-> "ACCEPTED", error |-> FALSE, keys |-> {}, variants |-> {}]

Exists(i) == rows[i].status # "NONE"

(* The S3 object a stage works on, given the row it read; "none" is the    *)
(* case in which the processor throws.                                     *)
SourceOf(stage, row) ==
    CASE stage = "convert" -> "original"
      [] stage = "compress" ->
            IF "normalized" \in row.keys THEN "normalized" ELSE "none"
      [] stage = "variants" ->
            IF "compressed" \in row.keys THEN "compressed"
            ELSE IF "normalized" \in row.keys THEN "normalized" ELSE "none"

(* A job: pc is the call it makes next, branch the next call of each of    *)
(* the concurrent variant branches.                                        *)
JobPCs == {"waiting", "mark", "fetch", "store", "record", "handoff",
           "render", "ack", "failing"}
BranchSteps == {"put", "upsert", "done"}
AllPut == [t \in VariantTypes |-> "put"]

JobRecord == [stage : Stages, image : Images, pc : JobPCs, attempts : 0..Attempts,
              source : {"none", "original"} \cup Keys,
              branch : [VariantTypes -> BranchSteps]]

(* Only the variants stage renders, only the other two store an output,    *)
(* and a job is tried while attempts remain.                               *)
Job == {job \in JobRecord :
          /\ job.pc \in {"store", "record", "handoff"} => job.stage # "variants"
          /\ job.pc = "render" => job.stage = "variants"
          /\ job.pc # "failing" => job.attempts < Attempts}

JobAt(stage, i, attempts, pc) ==
    [stage |-> stage, image |-> i, pc |-> pc, attempts |-> attempts,
     source |-> "none", branch |-> AllPut]
FreeJob == JobAt("convert", NoImage, 0, "free")
NewJob(stage, i) == JobAt(stage, i, 0, "waiting")

Live(j) == jobs[j].pc # "free"
Running(j) == jobs[j].pc \notin {"free", "waiting", "failing"}

-----------------------------------------------------------------------------
(* Initially no image has been uploaded and no call has been made.         *)

NotInFlight(pc) == [op |-> "none", image |-> NoImage, pc |-> pc]
NoRequest == NotInFlight("idle")
Request == [op : {"reprocess"}, image : Images, pc : {"mark", "enqueue"}]
           \cup [op : {"remove"}, image : Images, pc : {"objects", "row"}]
SeedPCs == {"new", "stored", "created", "done", "failed"}

Init ==
    /\ rows = [i \in Images |-> NoRow]
    /\ objects = [i \in Images |-> {}]
    /\ jobs = [j \in Jobs |-> FreeJob]
    /\ strays = [i \in Images |-> {}]
    /\ seeds = [i \in Images |-> "new"]
    /\ requests = [r \in Requests |-> NoRequest]
    /\ crashes = 0

-----------------------------------------------------------------------------
(* Repository and queue calls, as relations on one variable.               *)

SetStatus(i, status) ==
    rows' = [rows EXCEPT ![i].status = status, ![i].error = FALSE]

AddKey(i, key) == rows' = [rows EXCEPT ![i].keys = @ \cup {key}]

UpsertVariant(i, t) == rows' = [rows EXCEPT ![i].variants = @ \cup {t}]

MarkCompleted(i) ==
    rows' = [rows EXCEPT ![i].status = "COMPLETED", ![i].error = FALSE]

MarkProcessingFailed(i) ==
    rows' = [rows EXCEPT ![i].status = "FAILED", ![i].error = TRUE]

DeleteRow(i) == rows' = [rows EXCEPT ![i] = NoRow]

PutObject(i, kind) == objects' = [objects EXCEPT ![i] = @ \cup {kind}]

DeleteOriginal(i) == objects' = [objects EXCEPT ![i] = @ \ {"original"}]

Enqueue(stage, i) ==
    \E k \in Jobs : ~Live(k) /\ jobs' = [jobs EXCEPT ![k] = NewJob(stage, i)]

Advance(j, pc) == jobs' = [jobs EXCEPT ![j].pc = pc]

-----------------------------------------------------------------------------
(* The stage processors.                                                   *)

(* findById: no row, and the job is acknowledged with nothing done;        *)
(* otherwise the row read here decides which object the run works on.      *)
Load(j) ==
    LET i == jobs[j].image
        source == SourceOf(jobs[j].stage, rows[i])
    IN  /\ jobs[j].pc = "waiting"
        /\ \/ ~Exists(i) /\ Advance(j, "ack")
           \/ /\ Exists(i) /\ source # "none"
              /\ jobs' = [jobs EXCEPT ![j].pc = "mark", ![j].source = source]
        /\ UNCHANGED <<rows, objects, strays, seeds, requests, crashes>>

(* Mutant of Mark: the update writes a row that is gone (an upsert).       *)
MarkUpserts(j) ==
    LET i == jobs[j].image
    IN  /\ jobs[j].pc = "mark"
        /\ SetStatus(i, StageSpec[jobs[j].stage].status)
        /\ Advance(j, "fetch")
        /\ UNCHANGED <<objects, strays, seeds, requests, crashes>>

(* setStatus, an update that needs the row.                                *)
Mark(j) ==
    LET i == jobs[j].image
    IN  /\ jobs[j].pc = "mark" /\ Exists(i)
        /\ SetStatus(i, StageSpec[jobs[j].stage].status)
        /\ Advance(j, "fetch")
        /\ UNCHANGED <<objects, strays, seeds, requests, crashes>>

(* Mutant of Fetch: the key is recorded before the object is put.          *)
FetchThenRecord(j) ==
    /\ jobs[j].pc = "fetch"
    /\ jobs[j].source \in objects[jobs[j].image]
    /\ Advance(j, IF jobs[j].stage = "variants" THEN "render" ELSE "record")
    /\ UNCHANGED <<rows, objects, strays, seeds, requests, crashes>>

(* getObject, then the image is transformed in memory.                     *)
Fetch(j) ==
    /\ jobs[j].pc = "fetch"
    /\ jobs[j].source \in objects[jobs[j].image]
    /\ Advance(j, IF jobs[j].stage = "variants" THEN "render" ELSE "store")
    /\ UNCHANGED <<rows, objects, strays, seeds, requests, crashes>>

(* Mutant of Store: the next stage is enqueued before the key is recorded. *)
StoreThenHandoff(j) ==
    /\ jobs[j].pc = "store"
    /\ PutObject(jobs[j].image, StageSpec[jobs[j].stage].output)
    /\ Advance(j, "handoff")
    /\ UNCHANGED <<rows, strays, seeds, requests, crashes>>

(* putObject of the normalized or compressed image.                        *)
Store(j) ==
    /\ jobs[j].pc = "store"
    /\ PutObject(jobs[j].image, StageSpec[jobs[j].stage].output)
    /\ Advance(j, "record")
    /\ UNCHANGED <<rows, strays, seeds, requests, crashes>>

(* Mutant of Record: the next stage is never enqueued.                     *)
RecordThenReturn(j) ==
    LET i == jobs[j].image
    IN  /\ jobs[j].pc = "record" /\ Exists(i)
        /\ AddKey(i, StageSpec[jobs[j].stage].output)
        /\ Advance(j, "ack")
        /\ UNCHANGED <<objects, strays, seeds, requests, crashes>>

(* setNormalized or setCompressed: the key of the output enters the row.   *)
Record(j) ==
    LET i == jobs[j].image
    IN  /\ jobs[j].pc = "record" /\ Exists(i)
        /\ AddKey(i, StageSpec[jobs[j].stage].output)
        /\ Advance(j, "handoff")
        /\ UNCHANGED <<objects, strays, seeds, requests, crashes>>

(* enqueueCompress or enqueueVariants, with an id of its own: never        *)
(* de-duplicated.                                                          *)
Handoff(j) ==
    /\ jobs[j].pc = "handoff"
    /\ \E k \in Jobs :
          /\ ~Live(k)
          /\ jobs' = [jobs EXCEPT
                ![j].pc = "ack",
                ![k] = NewJob(StageSpec[jobs[j].stage].next, jobs[j].image)]
    /\ UNCHANGED <<rows, objects, strays, seeds, requests, crashes>>

(* One branch of the Promise.all: put the resized image, then upsert its   *)
(* Variant row, which has a foreign key on the Image row.                  *)
RenderPut(j, t) ==
    /\ jobs[j].pc = "render" /\ jobs[j].branch[t] = "put"
    /\ PutObject(jobs[j].image, t)
    /\ jobs' = [jobs EXCEPT ![j].branch[t] = "upsert"]
    /\ UNCHANGED <<rows, strays, seeds, requests, crashes>>

RenderUpsert(j, t) ==
    LET i == jobs[j].image
    IN  /\ jobs[j].pc = "render" /\ jobs[j].branch[t] = "upsert"
        /\ Exists(i) /\ UpsertVariant(i, t)
        /\ jobs' = [jobs EXCEPT ![j].branch[t] = "done"]
        /\ UNCHANGED <<objects, strays, seeds, requests, crashes>>

(* Mutant of Complete: Promise.any in place of Promise.all.                *)
CompleteOnFirst(j) ==
    LET i == jobs[j].image
    IN  /\ jobs[j].pc = "render" /\ \E t \in VariantTypes : jobs[j].branch[t] = "done"
        /\ Exists(i) /\ MarkCompleted(i)
        /\ Advance(j, "ack")
        /\ UNCHANGED <<objects, strays, seeds, requests, crashes>>

(* Every branch has resolved: markCompleted.                               *)
Complete(j) ==
    LET i == jobs[j].image
    IN  /\ jobs[j].pc = "render" /\ \A t \in VariantTypes : jobs[j].branch[t] = "done"
        /\ Exists(i) /\ MarkCompleted(i)
        /\ Advance(j, "ack")
        /\ UNCHANGED <<objects, strays, seeds, requests, crashes>>

(* The processor has returned and BullMQ moves the job to completed.       *)
Ack(j) ==
    /\ jobs[j].pc = "ack"
    /\ jobs' = [jobs EXCEPT ![j] = FreeJob]
    /\ UNCHANGED <<rows, objects, strays, seeds, requests, crashes>>

(* The next call of job j, made by branch t if j renders, cannot succeed.  *)
Doomed(j, t) ==
    LET i == jobs[j].image
    IN  \/ /\ jobs[j].pc = "waiting" /\ Exists(i)
           /\ SourceOf(jobs[j].stage, rows[i]) = "none"
        \/ jobs[j].pc \in {"mark", "record"} /\ ~Exists(i)
        \/ jobs[j].pc = "fetch" /\ jobs[j].source \notin objects[i]
        \/ /\ jobs[j].pc = "render" /\ ~Exists(i)
           /\ \/ jobs[j].branch[t] = "upsert"
              \/ \A u \in VariantTypes : jobs[j].branch[u] = "done"

(* Mutant of Throw: retries without a limit.                               *)
ThrowForEver(j) ==
    LET job == jobs[j]
    IN  /\ job.pc \notin {"free", "failing"}
        /\ \E t \in VariantTypes : Doomed(j, t) \/ "job" \in Faults
        /\ jobs' = [jobs EXCEPT ![j] =
              JobAt(job.stage, job.image, job.attempts + 1, "waiting")]
        /\ UNCHANGED <<rows, objects, strays, seeds, requests, crashes>>

(* The processor throws: a call that cannot succeed, or (fault "job") a    *)
(* transient error, of the next call or of the reply to the one just made. *)
(* The other branches of a Promise.all are not cancelled.  BullMQ retries  *)
(* the job until its attempts are used.                                    *)
Throw(j) ==
    LET job == jobs[j]
        spent == job.attempts + 1
    IN  /\ job.pc \notin {"free", "failing"}
        /\ \E t \in VariantTypes :
              /\ Doomed(j, t) \/ "job" \in Faults
              /\ strays' = [strays EXCEPT ![job.image] = @ \cup
                    {<<u, job.branch[u]>> : u \in
                        {v \in VariantTypes \ {t} : job.pc = "render"
                                                    /\ job.branch[v] # "done"}}]
        /\ jobs' = [jobs EXCEPT ![j] =
              JobAt(job.stage, job.image, spent,
                    IF spent < Attempts THEN "waiting" ELSE "failing")]
        /\ UNCHANGED <<rows, objects, seeds, requests, crashes>>

(* A branch whose Promise.all was rejected runs on; its own rejection is   *)
(* swallowed by the Promise.all.  Equal branches of two jobs are one: both *)
(* write the same key and the same row.                                    *)
StrayPut(i, t) ==
    /\ <<t, "put">> \in strays[i]
    /\ PutObject(i, t)
    /\ strays' = [strays EXCEPT ![i] = (@ \ {<<t, "put">>}) \cup {<<t, "upsert">>}]
    /\ UNCHANGED <<rows, jobs, seeds, requests, crashes>>

StrayUpsert(i, t) ==
    /\ <<t, "upsert">> \in strays[i]
    /\ Exists(i) /\ UpsertVariant(i, t)
    /\ strays' = [strays EXCEPT ![i] = @ \ {<<t, "upsert">>}]
    /\ UNCHANGED <<objects, jobs, seeds, requests, crashes>>

StrayLost(i, t, step) ==
    /\ <<t, step>> \in strays[i]
    /\ strays' = [strays EXCEPT ![i] = @ \ {<<t, step>>}]
    /\ UNCHANGED <<rows, objects, jobs, seeds, requests, crashes>>

(* Mutant of FailedHandler: <= for < in the test of the attempts left.     *)
HandlerOffByOne(j) ==
    /\ jobs[j].pc = "failing"
    /\ jobs[j].attempts <= Attempts
    /\ jobs' = [jobs EXCEPT ![j] = FreeJob]
    /\ UNCHANGED <<rows, objects, strays, seeds, requests, crashes>>

(* wireFailureHandler, after BullMQ has given a job up: it returns early   *)
(* while attempts remain, and catches the error of an update whose row is  *)
(* gone.                                                                   *)
FailedHandler(j) ==
    LET i == jobs[j].image
    IN  /\ jobs[j].pc = "failing"
        /\ \/ /\ jobs[j].attempts < Attempts \/ ~Exists(i) \/ "handler" \in Faults
              /\ UNCHANGED rows
           \/ /\ jobs[j].attempts = Attempts /\ Exists(i)
              /\ MarkProcessingFailed(i)
        /\ jobs' = [jobs EXCEPT ![j] = FreeJob]
        /\ UNCHANGED <<objects, strays, seeds, requests, crashes>>

(* Worker processes stop: the jobs they ran stall and are delivered again, *)
(* from the top.                                                           *)
Crash ==
    /\ crashes < MaxCrashes
    /\ \E S \in SUBSET {j \in Jobs : Running(j)} :
          /\ S # {}
          /\ jobs' = [j \in Jobs |->
                IF j \in S
                THEN JobAt(jobs[j].stage, jobs[j].image, jobs[j].attempts, "waiting")
                ELSE jobs[j]]
    /\ crashes' = crashes + 1
    /\ UNCHANGED <<rows, objects, strays, seeds, requests>>

(* A job that stalls once too often is failed without a further attempt.   *)
StallOut(j) ==
    /\ "stall" \in Faults /\ crashes < MaxCrashes /\ Running(j)
    /\ jobs' = [jobs EXCEPT ![j] =
          JobAt(jobs[j].stage, jobs[j].image, jobs[j].attempts, "failing")]
    /\ crashes' = crashes + 1
    /\ UNCHANGED <<rows, objects, strays, seeds, requests>>

-----------------------------------------------------------------------------
(* ImageService.seedForPipeline: put the original, create the row, enqueue *)
(* the first stage.                                                        *)

SeedStore(i) ==
    /\ seeds[i] = "new"
    /\ PutObject(i, "original")
    /\ seeds' = [seeds EXCEPT ![i] = "stored"]
    /\ UNCHANGED <<rows, jobs, strays, requests, crashes>>

SeedCreate(i) ==
    /\ seeds[i] = "stored"
    /\ rows' = [rows EXCEPT ![i] = NewRow]
    /\ seeds' = [seeds EXCEPT ![i] = "created"]
    /\ UNCHANGED <<objects, jobs, strays, requests, crashes>>

SeedEnqueue(i) ==
    /\ seeds[i] = "created"
    /\ Enqueue("convert", i)
    /\ seeds' = [seeds EXCEPT ![i] = "done"]
    /\ UNCHANGED <<rows, objects, strays, requests, crashes>>

SeedFail(i) ==
    /\ "api" \in Faults /\ seeds[i] \in {"new", "stored", "created"}
    /\ seeds' = [seeds EXCEPT ![i] = "failed"]
    /\ UNCHANGED <<rows, objects, jobs, strays, requests, crashes>>

-----------------------------------------------------------------------------
(* ImageService.reprocess and ImageService.remove.  Both read the row      *)
(* first and answer 404 when there is none.                                *)

Finish(r, pc) == requests' = [requests EXCEPT ![r] = NotInFlight(pc)]

Find(r, op, first, i) ==
    /\ requests[r].pc = "idle"
    /\ IF Exists(i)
       THEN requests' = [requests EXCEPT ![r] = [op |-> op, image |-> i, pc |-> first]]
       ELSE Finish(r, "failed")
    /\ UNCHANGED <<rows, objects, jobs, strays, seeds, crashes>>

ReprocessFind(r, i) == Find(r, "reprocess", "mark", i)
RemoveFind(r, i) == Find(r, "remove", "objects", i)

ReprocessMark(r) ==
    LET i == requests[r].image
    IN  /\ requests[r].pc = "mark"
        /\ \/ /\ Exists(i) /\ SetStatus(i, "PROCESSING_CONVERT")
              /\ requests' = [requests EXCEPT ![r].pc = "enqueue"]
           \/ ~Exists(i) /\ Finish(r, "failed") /\ UNCHANGED rows
        /\ UNCHANGED <<objects, jobs, strays, seeds, crashes>>

(* A fresh job id, then the response.                                      *)
ReprocessEnqueue(r) ==
    /\ requests[r].pc = "enqueue"
    /\ Enqueue("convert", requests[r].image)
    /\ Finish(r, "done")
    /\ UNCHANGED <<rows, objects, strays, seeds, crashes>>

(* Mutant of RemoveObjects: the row is not deleted.                        *)
RemoveObjectsOnly(r) ==
    /\ requests[r].pc = "objects"
    /\ DeleteOriginal(requests[r].image)
    /\ Finish(r, "done")
    /\ UNCHANGED <<rows, jobs, strays, seeds, crashes>>

(* Best effort: an error of deleteObject is swallowed by allSettled.       *)
RemoveObjects(r) ==
    /\ requests[r].pc = "objects"
    /\ \/ DeleteOriginal(requests[r].image)
       \/ "api" \in Faults /\ UNCHANGED objects
    /\ requests' = [requests EXCEPT ![r].pc = "row"]
    /\ UNCHANGED <<rows, jobs, strays, seeds, crashes>>

(* The delete cascades to the Variant rows; it throws if the row is gone.  *)
RemoveRow(r) ==
    LET i == requests[r].image
    IN  /\ requests[r].pc = "row"
        /\ \/ Exists(i) /\ DeleteRow(i) /\ Finish(r, "done")
           \/ ~Exists(i) /\ Finish(r, "failed") /\ UNCHANGED rows
        /\ UNCHANGED <<objects, jobs, strays, seeds, crashes>>

RequestFail(r) ==
    /\ "api" \in Faults
    /\ requests[r].pc \in {"mark", "enqueue", "objects", "row"}
    /\ Finish(r, "failed")
    /\ UNCHANGED <<rows, objects, jobs, strays, seeds, crashes>>

-----------------------------------------------------------------------------
StageStep(j) ==
    \/ Load(j) \/ Mark(j) \/ Fetch(j) \/ Store(j) \/ Record(j) \/ Handoff(j)
    \/ \E t \in VariantTypes : RenderPut(j, t) \/ RenderUpsert(j, t)
    \/ Complete(j) \/ Ack(j)

StrayStep(i) ==
    \E t \in VariantTypes :
        \/ StrayPut(i, t) \/ StrayUpsert(i, t)
        \/ \E step \in BranchSteps : StrayLost(i, t, step)

SeedStep(i) == SeedStore(i) \/ SeedCreate(i) \/ SeedEnqueue(i)

RequestStep(r) ==
    \/ ReprocessMark(r) \/ ReprocessEnqueue(r)
    \/ RemoveObjects(r) \/ RemoveRow(r)

Next ==
    \/ \E j \in Jobs : StageStep(j) \/ Throw(j) \/ FailedHandler(j) \/ StallOut(j)
    \/ \E i \in Images : StrayStep(i) \/ SeedStep(i) \/ SeedFail(i)
    \/ \E r \in Requests :
          \/ \E i \in Images : ReprocessFind(r, i) \/ RemoveFind(r, i)
          \/ RequestStep(r) \/ RequestFail(r)
    \/ Crash

Spec == Init /\ [][Next]_vars

(* A worker that holds a job makes its next call, a rejected call rejects  *)
(* the job, the failed event is delivered, and an API request that has     *)
(* started runs on.  Nothing forces a client to call, a call to fail or a  *)
(* worker to crash.                                                        *)
Fairness ==
    /\ \A j \in Jobs : WF_vars(StageStep(j) \/ Throw(j) \/ FailedHandler(j))
    /\ \A i \in Images : WF_vars(SeedCreate(i) \/ SeedEnqueue(i))
    /\ \A r \in Requests : WF_vars(RequestStep(r))

FairSpec == Spec /\ Fairness

-----------------------------------------------------------------------------
(* Properties.                                                             *)

(* Every variable has its type: the row of an image holds a status, an     *)
(* error flag, the two derived keys and its Variant rows (schema.prisma),  *)
(* and jobs, branches and requests are where their code can be; a job is   *)
(* given up, never tried again, once its attempts are used.                *)
TypeOK ==
    /\ rows \in [Images -> Row \cup {NoRow}]
    /\ objects \in [Images -> SUBSET Kinds]
    /\ jobs \in [Jobs -> Job \cup {FreeJob}]
    /\ strays \in [Images -> SUBSET (VariantTypes \X BranchSteps)]
    /\ seeds \in [Images -> SeedPCs]
    /\ requests \in [Requests -> Request 
                    \cup {NotInFlight(pc) : pc \in {"idle", "done", "failed"}}]
    /\ crashes \in 0..MaxCrashes

InputOf(stage) == IF stage = "compress" THEN "normalized" ELSE "compressed"

InputReady(j) ==
    LET i == jobs[j].image
        input == InputOf(jobs[j].stage)
    IN  Live(j) /\ jobs[j].stage # "convert" /\ Exists(i) =>
            /\ input \in rows[i].keys /\ input \in objects[i]
            /\ jobs[j].source \in {"none", input}

(* While its row exists, an image's compress job always finds the          *)
(* normalized image and its variants job the compressed one, in the row    *)
(* and in S3, whatever retries, duplicate runs, crashes and reprocess      *)
(* calls do: the two "stage reached without" throws are unreachable        *)
(* (compression.worker.ts:37-39, variants.worker.ts:53-55) and the         *)
(* variants are never cut from the uncompressed fallback.                  *)
StageInputsReady == \A j \in Jobs : InputReady(j)

(* What a row points at can be downloaded: every derived key and every     *)
(* Variant row of an image names a stored object, although rows and        *)
(* objects are written by separate calls of jobs that run concurrently,    *)
(* fail half-way or race with remove (put before upsert,                   *)
(* variants.worker.ts:72-85; put before setNormalized and setCompressed).  *)
RowsPointAtObjects ==
    \A i \in Images : rows[i].keys \cup rows[i].variants \subseteq objects[i]

(* An image is COMPLETED only with every one of its variants in the        *)
(* database and in S3 (Promise.all before markCompleted,                   *)
(* variants.worker.ts:68-89), also when several runs of the stage, retries *)
(* or abandoned branches work on it at once.                               *)
CompletedHasAllVariants ==
    \A i \in Images : rows[i].status = "COMPLETED" =>
        rows[i].variants = VariantTypes /\ VariantTypes \subseteq objects[i]

(* An image in a status the client waits on has someone who will move it   *)
(* on: a queued, running or failing job, the seed call about to enqueue    *)
(* it, or a reprocess call about to (status first, queue add second:       *)
(* image.service.ts:132-142 and 154-155).                                  *)
Owned(i) ==
    \/ \E j \in Jobs : jobs[j].image = i /\ jobs[j].pc \notin {"free", "ack"}
    \/ seeds[i] = "created"
    \/ \E r \in Requests : requests[r].image = i /\ requests[r].pc = "enqueue"

InProgressHasOwner ==
    \A i \in Images : rows[i].status \in InProgress => Owned(i)

(* The original of an image that exists is there to be processed again,    *)
(* except while the call that removes the image is between its S3 and its  *)
(* database deletes (image.service.ts:188-193).                            *)
OriginalKept ==
    \A i \in Images : Exists(i) =>
        \/ "original" \in objects[i]
        \/ \E r \in Requests : requests[r].image = i /\ requests[r].pc = "row"

(* The inductive invariant behind the three properties on rows, objects    *)
(* and jobs: what a job or an abandoned branch has already done is still   *)
(* there when it makes its next call, and nothing works on an id before    *)
(* its row is created (jobs and requests are made from rows that exist).   *)
Created(i) == seeds[i] \notin {"new", "stored"}

JobSound(j) ==
    LET i == jobs[j].image
        output == StageSpec[jobs[j].stage].output
    IN  Live(j) =>
          /\ Created(i)
          /\ jobs[j].pc \in {"waiting", "mark", "fetch"} => jobs[j].branch = AllPut
          /\ jobs[j].pc = "record" => output \in objects[i]
          /\ jobs[j].pc = "handoff" /\ Exists(i) => output \in rows[i].keys
          /\ jobs[j].pc = "render" => \A t \in VariantTypes :
                /\ jobs[j].branch[t] # "put" => t \in objects[i]
                /\ jobs[j].branch[t] = "done" /\ Exists(i) => t \in rows[i].variants

StraysSound(i) ==
    /\ strays[i] # {} => Created(i)
    /\ strays[i] # {} /\ Exists(i) => "compressed" \in rows[i].keys
    /\ \A t \in VariantTypes : <<t, "upsert">> \in strays[i] => t \in objects[i]

RowSound(i) ==
    /\ Exists(i) => Created(i)
    /\ "compressed" \in rows[i].keys => "normalized" \in rows[i].keys
    /\ rows[i].variants # {} => "compressed" \in rows[i].keys

RequestSound(r) ==
    requests[r].pc \in {"mark", "enqueue", "objects", "row"} =>
        Created(requests[r].image)

IInv ==
    /\ \A j \in Jobs : JobSound(j)
    /\ \A i \in Images : StraysSound(i) /\ RowSound(i)
    /\ \A r \in Requests : RequestSound(r)
    /\ StageInputsReady /\ RowsPointAtObjects /\ CompletedHasAllVariants

(* Every image settles: in the end it is COMPLETED, FAILED or gone, and    *)
(* not left in the status of a stage (architecture.md, section 9).         *)
Settles == \A i \in Images : <>[](rows[i].status \notin InProgress)

(* The pipeline implements the promise made to the gallery: outputs are    *)
(* published in order, stay while the row exists, all of them are there    *)
(* when the image is announced, and a deleted row is not written again.    *)
Ladder == INSTANCE ArtifactLadder WITH
    presence <- [i \in Images |->
                    IF Exists(i) THEN "live"
                    ELSE IF seeds[i] \in {"new", "stored"} THEN "absent" ELSE "gone"],
    outputs <- [i \in Images |-> rows[i].keys \cup rows[i].variants],
    complete <- [i \in Images |-> rows[i].status = "COMPLETED"]

ImplementsLadder == Ladder!LadderSpec
=============================================================================
