------------------------------ MODULE Validation ------------------------------
(***************************************************************************)
(* Upload and validation in Argon-BE: ImageService.upload, the validation  *)
(* worker with its failure handler, the similarity scan over the images of *)
(* one user, the display copy of a HEIC image, and the entry into the      *)
(* media pipeline through a fixed job id that BullMQ de-duplicates.        *)
(*                                                                         *)
(* As in MediaPipeline an action is one awaited call with the computation  *)
(* up to the next.  The media pipeline itself appears here only by its     *)
(* first and its last status write; reprocess and remove work on the same  *)
(* rows.  All images belong to one user: a scan never crosses users.       *)
(***************************************************************************)
EXTENDS Naturals, FiniteSets

CONSTANTS
    Images,      \* image ids
    NoImage,     \* the image of a request that has not been made
    Requests,    \* reprocess and remove calls
    Heic,        \* the images uploaded as HEIC
    Unsound,     \* those that break a format, dimension, blur or face rule
    Similar,     \* the pairs of images within the Hamming threshold
    Attempts,    \* attempts of a validate job, 3 in the code
    MaxCrashes,  \* bound on the crashes of a behaviour
    Faults       \* "job", "handler", "stall" and "api" as in MediaPipeline;
                 \* "media", a failure of the media pipeline

ASSUME ValidationAssumption ==
    /\ Images \cap Requests = {} /\ NoImage \notin Images
    /\ Heic \subseteq Images /\ Unsound \subseteq Images
    /\ \A pair \in Similar : pair \subseteq Images
    /\ Attempts \in Nat \ {0} /\ MaxCrashes \in Nat
    /\ Faults \subseteq {"job", "handler", "stall", "api", "media"}

VARIABLES
    rows,        \* rows[i]: the Image row of i, or NoRow
    objects,     \* objects[i]: which of the original and the display copy S3 has
    uploads,     \* uploads[i]: progress of the call that uploads i
    jobs,        \* jobs[i]: the validate job of i (its job id is the image id)
    runs,        \* runs[x]: a run of the media pipeline; its job id is fixed if
                 \*          x is an image, fresh if x is a reprocess request
    requests,    \* requests[r]: an API call, with what it has read
    overlapped,  \* history: the pairs of images validated at the same time
    crashes      \* worker crashes so far

vars == <<rows, objects, uploads, jobs, runs, requests, overlapped, crashes>>

-----------------------------------------------------------------------------
Validating == {"PENDING", "PROCESSING"}

(* "PROCESSING_CONVERT" stands for the statuses of the three stages.       *)
Statuses == Validating \cup
    {"ACCEPTED", "REJECTED", "FAILED", "PROCESSING_CONVERT", "COMPLETED"}

(* hash: perceptualHash is set; display: s3KeyDisplay is set.              *)
Row == [status : Statuses, hash : BOOLEAN, display : BOOLEAN]
NoRow == [status |-> "NONE", hash |-> FALSE, display |-> FALSE]
NewRow == [status |-> "PENDING", hash |-> FALSE, display |-> FALSE]

Exists(i) == rows[i].status # "NONE"

(* A job: the call its processor makes next and the attempts made.         *)
RunningPCs == {"mark", "fetch", "scan", "display", "accept", "reject", "enqueue", "ack"}
JobPCs == {"none", "waiting", "failing", "done"} \cup RunningPCs
Job == [pc : JobPCs, attempts : 0..Attempts]
JobAt(pc, attempts) == [pc |-> pc, attempts |-> attempts]

Running(i) == jobs[i].pc \in RunningPCs
Busy(i) == jobs[i].pc \in RunningPCs \ {"ack"}
Pending(i) == Busy(i) \/ jobs[i].pc \in {"waiting", "failing"}

RunPCs == {"none", "waiting", "active", "over"}
RunImage(x) == IF x \in Images THEN x ELSE requests[x].image

Request == [op : {"reprocess", "remove"}, image : Images, display : BOOLEAN,
            pc : {"mark", "enqueue", "objects", "row", "done", "failed"}]
NoRequest == [op |-> "none", image |-> NoImage, display |-> FALSE, pc |-> "idle"]

Init ==
    /\ rows = [i \in Images |-> NoRow]
    /\ objects = [i \in Images |-> {}]
    /\ uploads = [i \in Images |-> "new"]
    /\ jobs = [i \in Images |-> JobAt("none", 0)]
    /\ runs = [x \in Images \cup Requests |-> "none"]
    /\ requests = [r \in Requests |-> NoRequest]
    /\ overlapped = {}
    /\ crashes = 0

-----------------------------------------------------------------------------
(* Repository calls and steps of one variable.                             *)

SetStatus(i, status) == rows' = [rows EXCEPT ![i].status = status]

(* s3KeyDisplay is undefined unless HEIC was converted: left as it is.     *)
MarkAccepted(i) ==
    rows' = [rows EXCEPT ![i] =
        [status |-> "ACCEPTED", hash |-> TRUE, display |-> @.display \/ i \in Heic]]

AcceptedHashes(i) ==
    {k \in Images \ {i} : rows[k].status = "ACCEPTED" /\ rows[k].hash}

Advance(i, pc) == jobs' = [jobs EXCEPT ![i].pc = pc]

-----------------------------------------------------------------------------
(* ImageService.upload: put the original, create the row, add the job.     *)

UploadStore(i) ==
    /\ uploads[i] = "new"
    /\ objects' = [objects EXCEPT ![i] = @ \cup {"original"}]
    /\ uploads' = [uploads EXCEPT ![i] = "stored"]
    /\ UNCHANGED <<rows, jobs, runs, requests, overlapped, crashes>>

UploadCreate(i) ==
    /\ uploads[i] = "stored"
    /\ rows' = [rows EXCEPT ![i] = NewRow]
    /\ uploads' = [uploads EXCEPT ![i] = "created"]
    /\ UNCHANGED <<objects, jobs, runs, requests, overlapped, crashes>>

UploadEnqueue(i) ==
    /\ uploads[i] = "created"
    /\ jobs' = [jobs EXCEPT ![i] = JobAt("waiting", 0)]
    /\ uploads' = [uploads EXCEPT ![i] = "done"]
    /\ UNCHANGED <<rows, objects, runs, requests, overlapped, crashes>>

UploadFail(i) ==
    /\ "api" \in Faults /\ uploads[i] \in {"new", "stored", "created"}
    /\ uploads' = [uploads EXCEPT ![i] = "failed"]
    /\ UNCHANGED <<rows, objects, jobs, runs, requests, overlapped, crashes>>

-----------------------------------------------------------------------------
(* The processor of a validate job.                                        *)

(* findById.  The history is written here: which images are being          *)
(* validated as this run begins.                                           *)
Load(i) ==
    /\ jobs[i].pc = "waiting"
    /\ IF Exists(i)
       THEN /\ Advance(i, "mark")
            /\ overlapped' = overlapped \cup
                  {{i, k} : k \in {l \in Images : Busy(l)}}
       ELSE Advance(i, "ack") /\ UNCHANGED overlapped
    /\ UNCHANGED <<rows, objects, uploads, runs, requests, crashes>>

(* Mutant of Mark: an upsert for the update.                               *)
MarkUpsert(i) ==
    /\ jobs[i].pc = "mark"
    /\ SetStatus(i, "PROCESSING")
    /\ Advance(i, "fetch")
    /\ UNCHANGED <<objects, uploads, runs, requests, overlapped, crashes>>

(* markProcessing, whatever the status is.                                 *)
Mark(i) ==
    /\ jobs[i].pc = "mark" /\ Exists(i)
    /\ SetStatus(i, "PROCESSING")
    /\ Advance(i, "fetch")
    /\ UNCHANGED <<objects, uploads, runs, requests, overlapped, crashes>>

(* Mutant of Fetch: the verdict of the rules is not looked at.             *)
FetchOnly(i) ==
    /\ jobs[i].pc = "fetch" /\ "original" \in objects[i]
    /\ Advance(i, "scan")
    /\ UNCHANGED <<rows, objects, uploads, runs, requests, overlapped, crashes>>

(* getObject, then the rules that look at the image alone; the first that  *)
(* fails ends the validation.                                              *)
Fetch(i) ==
    /\ jobs[i].pc = "fetch" /\ "original" \in objects[i]
    /\ Advance(i, IF i \in Unsound THEN "reject" ELSE "scan")
    /\ UNCHANGED <<rows, objects, uploads, runs, requests, overlapped, crashes>>

(* Mutant of Scan: it looks at the images that are being validated.        *)
ScanProcessing(i) ==
    /\ jobs[i].pc = "scan"
    /\ Advance(i,
         IF \E k \in Images \ {i} : rows[k].status = "PROCESSING" /\ {i, k} \in Similar
         THEN "reject" ELSE IF i \in Heic THEN "display" ELSE "accept")
    /\ UNCHANGED <<rows, objects, uploads, runs, requests, overlapped, crashes>>

(* Mutant of Scan: the display copy is not uploaded.                       *)
ScanThenAccept(i) ==
    /\ jobs[i].pc = "scan"
    /\ Advance(i, IF \E k \in AcceptedHashes(i) : {i, k} \in Similar
                  THEN "reject" ELSE "accept")
    /\ UNCHANGED <<rows, objects, uploads, runs, requests, overlapped, crashes>>

(* SimilarityValidator: the scan of the hashes of the user's images that   *)
(* are ACCEPTED now.                                                       *)
Scan(i) ==
    /\ jobs[i].pc = "scan"
    /\ Advance(i, IF \E k \in AcceptedHashes(i) : {i, k} \in Similar
                  THEN "reject" ELSE IF i \in Heic THEN "display" ELSE "accept")
    /\ UNCHANGED <<rows, objects, uploads, runs, requests, overlapped, crashes>>

(* Mutant of Reject: it goes on to enqueueConvert.                         *)
RejectThenEnqueue(i) ==
    /\ jobs[i].pc = "reject" /\ Exists(i)
    /\ SetStatus(i, "REJECTED")
    /\ Advance(i, "enqueue")
    /\ UNCHANGED <<objects, uploads, runs, requests, overlapped, crashes>>

(* Mutant of Reject: the outcome is not written.                           *)
RejectUnrecorded(i) ==
    /\ jobs[i].pc = "reject" /\ Exists(i)
    /\ Advance(i, "ack")
    /\ UNCHANGED <<rows, objects, uploads, runs, requests, overlapped, crashes>>

(* markRejected, and the processor returns.                                *)
Reject(i) ==
    /\ jobs[i].pc = "reject" /\ Exists(i)
    /\ SetStatus(i, "REJECTED")
    /\ Advance(i, "ack")
    /\ UNCHANGED <<objects, uploads, runs, requests, overlapped, crashes>>

(* putObject of the JPEG a HEIC image was converted to.                    *)
PutDisplay(i) ==
    /\ jobs[i].pc = "display"
    /\ objects' = [objects EXCEPT ![i] = @ \cup {"display"}]
    /\ Advance(i, "accept")
    /\ UNCHANGED <<rows, uploads, runs, requests, overlapped, crashes>>

Accept(i) ==
    /\ jobs[i].pc = "accept" /\ Exists(i)
    /\ MarkAccepted(i)
    /\ Advance(i, "enqueue")
    /\ UNCHANGED <<objects, uploads, runs, requests, overlapped, crashes>>

(* enqueueConvert with the fixed id: BullMQ ignores the add while a job    *)
(* with that id is queued, running or retained after its end (the last 200 *)
(* completed and 1000 failed jobs; an instance has fewer).                 *)
EnqueueConvert(i) ==
    /\ jobs[i].pc = "enqueue"
    /\ runs' = [runs EXCEPT ![i] = IF @ = "none" THEN "waiting" ELSE @]
    /\ Advance(i, "ack")
    /\ UNCHANGED <<rows, objects, uploads, requests, overlapped, crashes>>

(* The processor has returned; a finished job is not run again.            *)
Ack(i) ==
    /\ jobs[i].pc = "ack"
    /\ Advance(i, "done")
    /\ UNCHANGED <<rows, objects, uploads, runs, requests, overlapped, crashes>>

(* The next call of the job of i cannot succeed.                           *)
Doomed(i) ==
    \/ jobs[i].pc \in {"mark", "accept", "reject"} /\ ~Exists(i)
    \/ jobs[i].pc = "fetch" /\ "original" \notin objects[i]

(* Mutant of Throw: retries without a limit.                               *)
ThrowForEver(i) ==
    /\ Running(i) \/ jobs[i].pc = "waiting"
    /\ Doomed(i) \/ "job" \in Faults
    /\ jobs' = [jobs EXCEPT ![i] = JobAt("waiting", @.attempts + 1)]
    /\ UNCHANGED <<rows, objects, uploads, runs, requests, overlapped, crashes>>

(* A call or a validator throws, or (fault "job") its reply is lost: the   *)
(* job is retried until its attempts are used.                             *)
Throw(i) ==
    LET spent == jobs[i].attempts + 1
    IN  /\ Running(i) \/ jobs[i].pc = "waiting"
        /\ Doomed(i) \/ "job" \in Faults
        /\ jobs' = [jobs EXCEPT ![i] =
              JobAt(IF spent < Attempts THEN "waiting" ELSE "failing", spent)]
        /\ UNCHANGED <<rows, objects, uploads, runs, requests, overlapped, crashes>>

(* Mutant of FailedHandler: > for >= in the test of the attempts made.     *)
HandlerOffByOne(i) ==
    /\ jobs[i].pc = "failing"
    /\ jobs[i].attempts <= Attempts
    /\ Advance(i, "done")
    /\ UNCHANGED <<rows, objects, uploads, runs, requests, overlapped, crashes>>

(* The failed event, when BullMQ has given the job up: markFailed if the   *)
(* attempts are used, and its own error is caught.                         *)
FailedHandler(i) ==
    /\ jobs[i].pc = "failing"
    /\ \/ /\ jobs[i].attempts < Attempts \/ ~Exists(i) \/ "handler" \in Faults
          /\ UNCHANGED rows
       \/ jobs[i].attempts = Attempts /\ Exists(i) /\ SetStatus(i, "FAILED")
    /\ Advance(i, "done")
    /\ UNCHANGED <<objects, uploads, runs, requests, overlapped, crashes>>

(* A worker process stops: the jobs it ran are delivered again.            *)
Crash ==
    /\ crashes < MaxCrashes
    /\ \E S \in SUBSET {i \in Images : Running(i)} :
          /\ S # {}
          /\ jobs' = [i \in Images |->
                IF i \in S THEN JobAt("waiting", jobs[i].attempts) ELSE jobs[i]]
    /\ crashes' = crashes + 1
    /\ UNCHANGED <<rows, objects, uploads, runs, requests, overlapped>>

(* A job that stalled before is failed without a further attempt           *)
(* (maxStalledCount).                                                      *)
StallOut(i) ==
    /\ "stall" \in Faults /\ crashes < MaxCrashes /\ Running(i)
    /\ Advance(i, "failing")
    /\ crashes' = crashes + 1
    /\ UNCHANGED <<rows, objects, uploads, runs, requests, overlapped>>

-----------------------------------------------------------------------------
(* A run of the media pipeline, by its first and its last status write.    *)

MediaStart(x) ==
    /\ runs[x] = "waiting" /\ Exists(RunImage(x))
    /\ SetStatus(RunImage(x), "PROCESSING_CONVERT")
    /\ runs' = [runs EXCEPT ![x] = "active"]
    /\ UNCHANGED <<objects, uploads, jobs, requests, overlapped, crashes>>

MediaEnd(x) ==
    /\ runs[x] = "active" /\ Exists(RunImage(x))
    /\ \/ SetStatus(RunImage(x), "COMPLETED")
       \/ "media" \in Faults /\ SetStatus(RunImage(x), "FAILED")
    /\ runs' = [runs EXCEPT ![x] = "over"]
    /\ UNCHANGED <<objects, uploads, jobs, requests, overlapped, crashes>>

MediaGone(x) ==
    /\ runs[x] \in {"waiting", "active"} /\ ~Exists(RunImage(x))
    /\ runs' = [runs EXCEPT ![x] = "over"]
    /\ UNCHANGED <<rows, objects, uploads, jobs, requests, overlapped, crashes>>

-----------------------------------------------------------------------------
(* ImageService.reprocess, whatever the status of the image, and remove.   *)

Find(r, op, first, i) ==
    /\ requests[r].pc = "idle" /\ Exists(i)
    /\ requests' = [requests EXCEPT ![r] =
          [op |-> op, image |-> i, display |-> rows[i].display, pc |-> first]]
    /\ UNCHANGED <<rows, objects, uploads, jobs, runs, overlapped, crashes>>

ReprocessFind(r, i) == Find(r, "reprocess", "mark", i)
RemoveFind(r, i) == Find(r, "remove", "objects", i)

ToPC(r, pc) == requests' = [requests EXCEPT ![r].pc = pc]

ReprocessMark(r) ==
    LET i == requests[r].image
    IN  /\ requests[r].pc = "mark"
        /\ \/ Exists(i) /\ SetStatus(i, "PROCESSING_CONVERT") /\ ToPC(r, "enqueue")
           \/ ~Exists(i) /\ ToPC(r, "failed") /\ UNCHANGED rows
        /\ UNCHANGED <<objects, uploads, jobs, runs, overlapped, crashes>>

ReprocessEnqueue(r) ==
    /\ requests[r].pc = "enqueue"
    /\ runs' = [runs EXCEPT ![r] = "waiting"]
    /\ ToPC(r, "done")
    /\ UNCHANGED <<rows, objects, uploads, jobs, overlapped, crashes>>

(* The objects remove deletes, by the row it read; their errors are        *)
(* swallowed by allSettled.                                                *)
RemovedKinds(r) == {"original"} \cup IF requests[r].display THEN {"display"} ELSE {}

RemoveObjects(r) ==
    LET i == requests[r].image
    IN  /\ requests[r].pc = "objects"
        /\ \/ objects' = [objects EXCEPT ![i] = @ \ RemovedKinds(r)]
           \/ /\ "api" \in Faults
              /\ \E S \in SUBSET RemovedKinds(r) :
                    objects' = [objects EXCEPT ![i] = @ \ S]
        /\ ToPC(r, "row")
        /\ UNCHANGED <<rows, uploads, jobs, runs, overlapped, crashes>>

RemoveRow(r) ==
    LET i == requests[r].image
    IN  /\ requests[r].pc = "row"
        /\ \/ Exists(i) /\ rows' = [rows EXCEPT ![i] = NoRow] /\ ToPC(r, "done")
           \/ ~Exists(i) /\ ToPC(r, "failed") /\ UNCHANGED rows
        /\ UNCHANGED <<objects, uploads, jobs, runs, overlapped, crashes>>

RequestFail(r) ==
    /\ "api" \in Faults
    /\ requests[r].pc \in {"mark", "enqueue", "objects", "row"}
    /\ ToPC(r, "failed")
    /\ UNCHANGED <<rows, objects, uploads, jobs, runs, overlapped, crashes>>

-----------------------------------------------------------------------------
UploadStep(i) == UploadStore(i) \/ UploadCreate(i) \/ UploadEnqueue(i)

JobStep(i) ==
    \/ Load(i) \/ Mark(i) \/ Fetch(i) \/ Scan(i) \/ Reject(i) \/ PutDisplay(i)
    \/ Accept(i) \/ EnqueueConvert(i) \/ Ack(i) \/ Throw(i) \/ FailedHandler(i)

MediaStep(x) == MediaStart(x) \/ MediaEnd(x) \/ MediaGone(x)

RequestStep(r) ==
    ReprocessMark(r) \/ ReprocessEnqueue(r) \/ RemoveObjects(r) \/ RemoveRow(r)

Next ==
    \/ \E i \in Images : UploadStep(i) \/ UploadFail(i) \/ JobStep(i) \/ StallOut(i)
    \/ \E x \in Images \cup Requests : MediaStep(x)
    \/ \E r \in Requests :
          \/ \E i \in Images : ReprocessFind(r, i) \/ RemoveFind(r, i)
          \/ RequestStep(r) \/ RequestFail(r)
    \/ Crash

Spec == Init /\ [][Next]_vars

(* As in MediaPipeline: who has begun goes on; clients, faults and crashes *)
(* are not forced.                                                         *)
Fairness ==
    /\ \A i \in Images : WF_vars(UploadCreate(i) \/ UploadEnqueue(i))
    /\ \A i \in Images : WF_vars(JobStep(i))
    /\ \A x \in Images \cup Requests : WF_vars(MediaStep(x))
    /\ \A r \in Requests : WF_vars(RequestStep(r))

FairSpec == Spec /\ Fairness

-----------------------------------------------------------------------------
(* Properties.                                                             *)

(* Every variable has its type; in particular a validate job never makes   *)
(* more attempts than its queue allows (queue.ts:27).                      *)
TypeOK ==
    /\ rows \in [Images -> Row \cup {NoRow}]
    /\ objects \in [Images -> SUBSET {"original", "display"}]
    /\ uploads \in [Images -> {"new", "stored", "created", "done", "failed"}]
    /\ jobs \in [Images -> Job]
    /\ runs \in [Images \cup Requests -> RunPCs]
    /\ requests \in [Requests -> Request \cup {NoRequest}]
    /\ overlapped \subseteq {{i, k} : i, k \in Images}
    /\ crashes \in 0..MaxCrashes

(* Two similar images are ACCEPTED together only if their validations      *)
(* overlapped: the scan (similarity.validator.ts:29) and the status write  *)
(* it decides (image.worker.ts:92) are separate calls, and that window is  *)
(* the only one through which a duplicate passes while the first image is  *)
(* still ACCEPTED, whatever retries and redelivered jobs do.               *)
DuplicatesOverlapped ==
    \A i, k \in Images :
        /\ i # k /\ {i, k} \in Similar
        /\ rows[i].status = "ACCEPTED" /\ rows[k].status = "ACCEPTED"
        => {i, k} \in overlapped

(* An image validated as HEIC has its display copy, in the row and in S3   *)
(* (image.worker.ts:80-97), unless the call that removes it is between its *)
(* S3 and its database deletes; other images have none.                    *)
DisplayBacked ==
    \A i \in Images :
        /\ rows[i].hash => (rows[i].display <=> i \in Heic)
        /\ rows[i].display =>
              \/ "display" \in objects[i]
              \/ \E r \in Requests : requests[r].image = i /\ requests[r].pc = "row"

(* Only images that passed validation enter the media pipeline on their    *)
(* own: the convert job with the fixed id exists only for an image whose   *)
(* row has the hash that markAccepted writes (image.worker.ts:92-109).     *)
AutomaticRunsAccepted ==
    \A i \in Images : runs[i] # "none" /\ Exists(i) => rows[i].hash

(* An image under validation, or accepted, has someone to move it on; the  *)
(* one gap is an accepted image whose convert job has run before and is    *)
(* retained, so that the add of a re-run is ignored (image.worker.ts:109,  *)
(* pipeline-queues.ts:49-50).                                              *)
ValidationHasOwner ==
    \A i \in Images :
        /\ rows[i].status \in Validating => Pending(i) \/ uploads[i] = "created"
        /\ rows[i].status = "ACCEPTED" => Pending(i) \/ runs[i] # "none"

(* Validation keeps the promise of Admission: the row, the hash and the    *)
(* convert job change only as it says (image.worker.ts:34-137,             *)
(* image.service.ts:71-106, 151-194).                                      *)
Admitted == INSTANCE Admission WITH
    presence <- [i \in Images |->
        IF Exists(i) THEN "live"
        ELSE IF uploads[i] \in {"new", "stored"} THEN "absent" ELSE "gone"],
    judging <- {i \in Images : Busy(i)},
    passed <- {i \in Images : rows[i].hash},
    accepted <- {i \in Images : rows[i].status = "ACCEPTED"},
    entered <- {i \in Images : runs[i] # "none"}

ImplementsAdmission == Admitted!AdmissionSpec

(* Every validation ends: no image stays PENDING or PROCESSING.            *)
ValidationEnds == \A i \in Images : <>[](rows[i].status \notin Validating)

-----------------------------------------------------------------------------
(* Statements of the documentation that the code does not keep.            *)

(* image.worker.ts:106-108: an accepted image "now flows automatically     *)
(* through the three downstream services".                                 *)
AcceptedFlowsOn == \A i \in Images : <>[](rows[i].status # "ACCEPTED")

(* similarity.validator.ts:2: "rejects images near-duplicate to an         *)
(* existing accepted one"; a COMPLETED image was accepted.                 *)
DuplicatesOfCompletedRejected ==
    [][\A i, k \in Images :
          /\ Scan(i) /\ {i, k} \in Similar /\ i # k
          /\ rows[k].status = "COMPLETED" /\ rows[k].hash
          => jobs'[i].pc = "reject"]_vars
=============================================================================
