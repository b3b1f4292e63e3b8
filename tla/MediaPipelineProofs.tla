-------------------------- MODULE MediaPipelineProofs --------------------------
(***************************************************************************)
(* Theorems about the media pipeline, for every set of images, job slots   *)
(* and requests, every number of attempts and crashes and every choice of  *)
(* faults.                                                                 *)
(***************************************************************************)
EXTENDS MediaPipeline, TLAPS

-----------------------------------------------------------------------------
(* Type correctness.                                                       *)

(* A job at the start of one of its attempts, or given up, is a job.       *)
LEMMA JobAtType ==
    ASSUME NEW stage \in Stages, NEW i \in Images, NEW n \in 0..Attempts,
           NEW pc \in {"waiting", "failing"}, pc = "waiting" => n < Attempts
    PROVE  JobAt(stage, i, n, pc) \in Job
<1>1. AllPut \in [VariantTypes -> BranchSteps]  BY DEF AllPut, BranchSteps
<1>2. QED  BY <1>1 DEF JobAt, Job, JobRecord, JobPCs

(* A freshly enqueued job is a job.                                        *)
LEMMA NewJobType ==
    ASSUME NEW stage \in Stages, NEW i \in Images
    PROVE  NewJob(stage, i) \in Job
<1>1. 0 \in 0..Attempts /\ 0 < Attempts
  BY ConstantsAssumption DEF ConstantsAssumption
<1>2. QED  BY <1>1, JobAtType DEF NewJob

(* A job slot that is not free holds a Job, so its image is an image.      *)
LEMMA LiveIsJob ==
    ASSUME TypeOK, NEW j \in Jobs, Live(j)
    PROVE  jobs[j] \in Job /\ jobs[j] \in JobRecord
  BY DEF TypeOK, Live, FreeJob, JobAt, Job

(* Moving a job to another call keeps its type.                            *)
LEMMA AdvanceType ==
    ASSUME TypeOK, NEW j \in Jobs, Live(j), jobs[j].pc # "failing",
           NEW pc \in JobPCs \ {"failing"}, Advance(j, pc),
           pc \in {"store", "record", "handoff"} => jobs[j].stage # "variants",
           pc = "render" => jobs[j].stage = "variants"
    PROVE  jobs' \in [Jobs -> Job \cup {FreeJob}]
<1>1. jobs[j] \in Job  BY LiveIsJob
<1>2. [jobs[j] EXCEPT !.pc = pc] \in Job  BY <1>1 DEF Job, JobRecord
<1>3. QED  BY <1>2 DEF TypeOK, Advance

(* Adding a job to a queue keeps the type of the queues.                   *)
LEMMA EnqueueType ==
    ASSUME TypeOK, NEW stage \in Stages, NEW i \in Images, Enqueue(stage, i)
    PROVE  jobs' \in [Jobs -> Job \cup {FreeJob}]
  BY NewJobType DEF TypeOK, Enqueue

(* A row that exists stays a row when one of its parts is written.         *)
LEMMA RowUpdateType ==
    ASSUME TypeOK, NEW i \in Images, Exists(i),
           \/ \E status \in Statuses : SetStatus(i, status)
           \/ \E key \in Keys : AddKey(i, key)
           \/ \E t \in VariantTypes : UpsertVariant(i, t)
           \/ MarkCompleted(i)
           \/ MarkProcessingFailed(i)
    PROVE  rows' \in [Images -> Row \cup {NoRow}]
<1>1. rows[i] \in Row  BY DEF TypeOK, Exists, NoRow
<1>2. ASSUME NEW row \in Row PROVE [rows EXCEPT ![i] = row] \in [Images -> Row \cup {NoRow}]
  BY DEF TypeOK
<1>3. CASE \E status \in Statuses : SetStatus(i, status)
  <2> PICK status \in Statuses : SetStatus(i, status)  BY <1>3
  <2>1. [rows[i] EXCEPT !.status = status, !.error = FALSE] \in Row  BY <1>1 DEF Row
  <2>2. QED  BY <2>1, <1>2 DEF SetStatus
<1>4. CASE \E key \in Keys : AddKey(i, key)
  <2> PICK key \in Keys : AddKey(i, key)  BY <1>4
  <2>1. [rows[i] EXCEPT !.keys = @ \cup {key}] \in Row  BY <1>1 DEF Row
  <2>2. QED  BY <2>1, <1>2 DEF AddKey
<1>5. CASE \E t \in VariantTypes : UpsertVariant(i, t)
  <2> PICK t \in VariantTypes : UpsertVariant(i, t)  BY <1>5
  <2>1. [rows[i] EXCEPT !.variants = @ \cup {t}] \in Row  BY <1>1 DEF Row
  <2>2. QED  BY <2>1, <1>2 DEF UpsertVariant
<1>6. CASE MarkCompleted(i)
  <2>1. [rows[i] EXCEPT !.status = "COMPLETED", !.error = FALSE] \in Row
    BY <1>1 DEF Row, Statuses
  <2>2. QED  BY <2>1, <1>2, <1>6 DEF MarkCompleted
<1>7. CASE MarkProcessingFailed(i)
  <2>1. [rows[i] EXCEPT !.status = "FAILED", !.error = TRUE] \in Row
    BY <1>1 DEF Row, Statuses
  <2>2. QED  BY <2>1, <1>2, <1>7 DEF MarkProcessingFailed
<1>8. QED  BY <1>3, <1>4, <1>5, <1>6, <1>7

(* The outputs and the successor of a stage that has them.                 *)
LEMMA StageSpecType ==
    /\ \A stage \in Stages : StageSpec[stage].status \in Statuses
    /\ \A stage \in Stages \ {"variants"} :
          /\ StageSpec[stage].output \in Keys
          /\ StageSpec[stage].next \in Stages
  BY DEF Stages, StageSpec, ConvertStage, CompressStage, VariantsStage, Statuses,
         InProgress, Keys

(* A step of one stage processor keeps the types.                          *)
LEMMA StageStepType ==
    ASSUME TypeOK, NEW j \in Jobs, StageStep(j)
    PROVE  TypeOK'
<1>0. jobs[j] \in Job /\ jobs[j] \in JobRecord /\ Live(j) /\ jobs[j].pc # "failing"
  <2>1. Live(j) /\ jobs[j].pc # "failing"
    BY DEF StageStep, Live, Load, Mark, Fetch, Store, Record, Handoff, RenderPut,
           RenderUpsert, Complete, Ack
  <2>2. QED  BY <2>1, LiveIsJob
<1> DEFINE i == jobs[j].image
<1>i. i \in Images /\ jobs[j].stage \in Stages  BY <1>0 DEF JobRecord
<1>1. CASE Load(j)
  <2>1. SourceOf(jobs[j].stage, rows[i]) \in {"none", "original"} \cup Keys
    BY <1>i DEF SourceOf, Stages, Keys
  <2>2. [jobs[j] EXCEPT !.pc = "ack"] \in Job  BY <1>0 DEF Job, JobRecord, JobPCs
  <2>3. ASSUME NEW s \in {"none", "original"} \cup Keys
        PROVE  [jobs[j] EXCEPT !.pc = "mark", !.source = s] \in Job
    BY <1>0 DEF Job, JobRecord, JobPCs
  <2>4. jobs' \in [Jobs -> Job \cup {FreeJob}]
    BY <1>1, <2>1, <2>2, <2>3 DEF Load, Advance, TypeOK
  <2>5. QED  BY <1>1, <2>4 DEF Load, TypeOK
<1>2. CASE Mark(j)
  <2>1. jobs' \in [Jobs -> Job \cup {FreeJob}]
    BY <1>2, <1>0, AdvanceType DEF Mark, JobPCs
  <2>2. rows' \in [Images -> Row \cup {NoRow}]
    BY <1>2, <1>i, StageSpecType, RowUpdateType DEF Mark
  <2>3. QED  BY <1>2, <2>1, <2>2 DEF Mark, Advance, TypeOK
<1>3. CASE Fetch(j)
  <2>1. jobs' \in [Jobs -> Job \cup {FreeJob}]
    BY <1>3, <1>0, AdvanceType DEF Fetch, JobPCs, Job, JobRecord, Stages
  <2>2. QED  BY <1>3, <2>1 DEF Fetch, Advance, TypeOK
<1>4. CASE Store(j)
  <2>1. jobs' \in [Jobs -> Job \cup {FreeJob}]
    BY <1>4, <1>0, AdvanceType DEF Store, JobPCs, Job, JobRecord, Stages
  <2>2. StageSpec[jobs[j].stage].output \in Keys
    BY <1>0, <1>4, <1>i, StageSpecType DEF Store, Job
  <2>3. objects' \in [Images -> SUBSET Kinds]
    BY <1>4, <2>2 DEF Store, PutObject, TypeOK, Kinds
  <2>4. QED  BY <1>4, <2>1, <2>3 DEF Store, Advance, TypeOK
<1>5. CASE Record(j)
  <2>1. jobs' \in [Jobs -> Job \cup {FreeJob}]
    BY <1>5, <1>0, AdvanceType DEF Record, JobPCs, Job, JobRecord, Stages
  <2>2. StageSpec[jobs[j].stage].output \in Keys
    BY <1>0, <1>5, <1>i, StageSpecType DEF Record, Job
  <2>3. rows' \in [Images -> Row \cup {NoRow}]
    BY <1>5, <1>i, <2>2, RowUpdateType DEF Record
  <2>4. QED  BY <1>5, <2>1, <2>3 DEF Record, Advance, TypeOK
<1>6. CASE Handoff(j)
  <2>1. PICK k \in Jobs :
           /\ ~Live(k)
           /\ jobs' = [jobs EXCEPT ![j].pc = "ack",
                                   ![k] = NewJob(StageSpec[jobs[j].stage].next, i)]
    BY <1>6 DEF Handoff
  <2>2. StageSpec[jobs[j].stage].next \in Stages
    BY <1>0, <1>6, <1>i, StageSpecType DEF Handoff, Job
  <2>3. /\ NewJob(StageSpec[jobs[j].stage].next, i) \in Job
        /\ [jobs[j] EXCEPT !.pc = "ack"] \in Job
    BY <1>0, <1>i, <2>2, NewJobType DEF Job, JobRecord, JobPCs
  <2>4. j # k  BY <1>0, <2>1
  <2>5. jobs' \in [Jobs -> Job \cup {FreeJob}]
    BY <2>1, <2>3, <2>4 DEF TypeOK
  <2>6. QED  BY <1>6, <2>5 DEF Handoff, TypeOK
<1>7. ASSUME NEW t \in VariantTypes, RenderPut(j, t) PROVE TypeOK'
  <2>1. [jobs[j] EXCEPT !.branch[t] = "upsert"] \in Job
    BY <1>0 DEF Job, JobRecord, BranchSteps
  <2>2. jobs' \in [Jobs -> Job \cup {FreeJob}]
    BY <1>7, <2>1 DEF RenderPut, TypeOK
  <2>3. objects' \in [Images -> SUBSET Kinds]
    BY <1>7 DEF RenderPut, PutObject, TypeOK, Kinds
  <2>4. QED  BY <1>7, <2>2, <2>3 DEF RenderPut, TypeOK
<1>8. ASSUME NEW t \in VariantTypes, RenderUpsert(j, t) PROVE TypeOK'
  <2>1. [jobs[j] EXCEPT !.branch[t] = "done"] \in Job
    BY <1>0 DEF Job, JobRecord, BranchSteps
  <2>2. jobs' \in [Jobs -> Job \cup {FreeJob}]
    BY <1>8, <2>1 DEF RenderUpsert, TypeOK
  <2>3. rows' \in [Images -> Row \cup {NoRow}]
    BY <1>8, <1>i, RowUpdateType DEF RenderUpsert
  <2>4. QED  BY <1>8, <2>2, <2>3 DEF RenderUpsert, TypeOK
<1>9. CASE Complete(j)
  <2>1. jobs' \in [Jobs -> Job \cup {FreeJob}]
    BY <1>9, <1>0, AdvanceType DEF Complete, JobPCs
  <2>2. rows' \in [Images -> Row \cup {NoRow}]
    BY <1>9, <1>i, RowUpdateType DEF Complete
  <2>3. QED  BY <1>9, <2>1, <2>2 DEF Complete, Advance, TypeOK
<1>10. CASE Ack(j)
  BY <1>10 DEF Ack, TypeOK, FreeJob, JobAt
<1>11. QED
  BY <1>1, <1>2, <1>3, <1>4, <1>5, <1>6, <1>7, <1>8, <1>9, <1>10 DEF StageStep

(* A step that fails, gives up or redelivers jobs keeps the types.         *)
LEMMA FailureStepType ==
    ASSUME TypeOK,
           Crash \/ \E j \in Jobs : Throw(j) \/ FailedHandler(j) \/ StallOut(j)
    PROVE  TypeOK'
<1>1. ASSUME NEW j \in Jobs, Throw(j) PROVE TypeOK'
  <2>1. jobs[j] \in Job /\ jobs[j] \in JobRecord /\ jobs[j].pc # "failing"
    BY <1>1, LiveIsJob DEF Throw, Live
  <2> DEFINE spent == jobs[j].attempts + 1
             pc == IF spent < Attempts THEN "waiting" ELSE "failing"
             retried == JobAt(jobs[j].stage, jobs[j].image, spent, pc)
  <2>2. spent \in 0..Attempts
    BY <2>1, ConstantsAssumption DEF Job, JobRecord, ConstantsAssumption
  <2>3. retried \in Job  BY <2>1, <2>2, JobAtType DEF JobRecord
  <2>4. jobs' \in [Jobs -> Job \cup {FreeJob}]
    <3>1. jobs' = [jobs EXCEPT ![j] = retried]  BY <1>1 DEF Throw
    <3>2. QED  BY <2>3, <3>1 DEF TypeOK
  <2>5. strays' \in [Images -> SUBSET (VariantTypes \X BranchSteps)]
    <3>1. jobs[j].branch \in [VariantTypes -> BranchSteps] /\ jobs[j].image \in Images
      BY <2>1 DEF JobRecord
    <3>2. PICK t \in VariantTypes : strays' = [strays EXCEPT ![jobs[j].image] = @ \cup
              {<<u, jobs[j].branch[u]>> : u \in
                  {v \in VariantTypes \ {t} : jobs[j].pc = "render"
                                              /\ jobs[j].branch[v] # "done"}}]
      BY <1>1 DEF Throw
    <3>3. QED  BY <3>1, <3>2 DEF TypeOK
  <2>6. QED  BY <1>1, <2>4, <2>5 DEF Throw, TypeOK
<1>2. ASSUME NEW j \in Jobs, FailedHandler(j) PROVE TypeOK'
  <2>1. jobs[j] \in JobRecord  BY <1>2, LiveIsJob DEF FailedHandler, Live
  <2>2. rows' \in [Images -> Row \cup {NoRow}]
    <3>1. jobs[j].image \in Images  BY <2>1 DEF JobRecord
    <3>2. CASE UNCHANGED rows  BY <3>2 DEF TypeOK
    <3>3. CASE Exists(jobs[j].image) /\ MarkProcessingFailed(jobs[j].image)
      BY <3>1, <3>3, RowUpdateType
    <3>4. QED  BY <1>2, <3>2, <3>3 DEF FailedHandler
  <2>3. QED  BY <1>2, <2>2 DEF FailedHandler, TypeOK, FreeJob, JobAt
<1>3. ASSUME NEW j \in Jobs, StallOut(j) PROVE TypeOK'
  <2>1. jobs[j] \in JobRecord  BY <1>3, LiveIsJob DEF StallOut, Running, Live
  <2>2. JobAt(jobs[j].stage, jobs[j].image, jobs[j].attempts, "failing") \in Job
    BY <2>1, JobAtType DEF JobRecord
  <2>3. crashes' \in 0..MaxCrashes
    BY <1>3, ConstantsAssumption DEF StallOut, TypeOK, ConstantsAssumption
  <2>4. QED  BY <1>3, <2>2, <2>3 DEF StallOut, TypeOK, JobAt
<1>4. ASSUME Crash PROVE TypeOK'
  <2>1. PICK S \in SUBSET {j \in Jobs : Running(j)} :
           jobs' = [j \in Jobs |->
                IF j \in S
                THEN JobAt(jobs[j].stage, jobs[j].image, jobs[j].attempts, "waiting")
                ELSE jobs[j]]
    BY <1>4 DEF Crash
  <2>2. ASSUME NEW j \in S
        PROVE  JobAt(jobs[j].stage, jobs[j].image, jobs[j].attempts, "waiting") \in Job
    <3>1. jobs[j] \in Job /\ jobs[j] \in JobRecord /\ jobs[j].pc # "failing"
      BY LiveIsJob DEF Running, Live
    <3>2. QED  BY <3>1, JobAtType DEF Job, JobRecord
  <2>3. jobs' \in [Jobs -> Job \cup {FreeJob}]
    BY <2>1, <2>2 DEF TypeOK
  <2>4. crashes' \in 0..MaxCrashes
    BY <1>4, ConstantsAssumption DEF Crash, TypeOK, ConstantsAssumption
  <2>5. QED  BY <1>4, <2>3, <2>4 DEF Crash, TypeOK
<1>5. QED  BY <1>1, <1>2, <1>3, <1>4

(* A step of an abandoned branch or of the seed call keeps the types.      *)
LEMMA ImageStepType ==
    ASSUME TypeOK, NEW i \in Images, StrayStep(i) \/ SeedStep(i) \/ SeedFail(i)
    PROVE  TypeOK'
<1>1. ASSUME NEW t \in VariantTypes, StrayPut(i, t) PROVE TypeOK'
  BY <1>1 DEF StrayPut, PutObject, TypeOK, Kinds, BranchSteps
<1>2. ASSUME NEW t \in VariantTypes, StrayUpsert(i, t) PROVE TypeOK'
  <2>1. rows' \in [Images -> Row \cup {NoRow}]
    BY <1>2, RowUpdateType DEF StrayUpsert
  <2>2. QED  BY <1>2, <2>1 DEF StrayUpsert, TypeOK
<1>3. ASSUME NEW t \in VariantTypes, NEW step \in BranchSteps, StrayLost(i, t, step)
      PROVE TypeOK'
  BY <1>3 DEF StrayLost, TypeOK
<1>4. CASE SeedStore(i)
  BY <1>4 DEF SeedStore, PutObject, TypeOK, Kinds, SeedPCs
<1>5. CASE SeedCreate(i)
  <2>1. NewRow \in Row  BY DEF NewRow, Row, Statuses, InProgress
  <2>2. QED  BY <1>5, <2>1 DEF SeedCreate, TypeOK, SeedPCs
<1>6. CASE SeedEnqueue(i)
  <2>1. Enqueue("convert", i)  BY <1>6 DEF SeedEnqueue
  <2>2. jobs' \in [Jobs -> Job \cup {FreeJob}]
    BY <2>1, EnqueueType DEF Stages
  <2>3. QED  BY <1>6, <2>2 DEF SeedEnqueue, TypeOK, SeedPCs
<1>7. CASE SeedFail(i)
  BY <1>7 DEF SeedFail, TypeOK, SeedPCs
<1>8. QED
  BY <1>1, <1>2, <1>3, <1>4, <1>5, <1>6, <1>7 DEF StrayStep, SeedStep

(* A request that is in flight names an image.                             *)
LEMMA InFlightIsRequest ==
    ASSUME TypeOK, NEW r \in Requests,
           requests[r].pc \in {"mark", "enqueue", "objects", "row"}
    PROVE  requests[r] \in Request /\ requests[r].image \in Images
<1>1. requests[r] \in Request  BY DEF TypeOK, NotInFlight
<1>2. QED  BY <1>1 DEF Request

(* A step of an API request keeps the types.                               *)
LEMMA RequestStepType ==
    ASSUME TypeOK, NEW r \in Requests,
           \/ \E i \in Images : ReprocessFind(r, i) \/ RemoveFind(r, i)
           \/ RequestStep(r) \/ RequestFail(r)
    PROVE  TypeOK'
<1> DEFINE Answers == Request \cup {NotInFlight(pc) : pc \in {"idle", "done", "failed"}}
<1>0. ASSUME NEW pc \in {"done", "failed"}, Finish(r, pc)
      PROVE  requests' \in [Requests -> Answers]
  BY <1>0 DEF Finish, TypeOK
<1>1. ASSUME NEW i \in Images, ReprocessFind(r, i) \/ RemoveFind(r, i) PROVE TypeOK'
  <2>1. CASE Exists(i)
    <3>1. /\ [op |-> "reprocess", image |-> i, pc |-> "mark"] \in Request
          /\ [op |-> "remove", image |-> i, pc |-> "objects"] \in Request
      BY DEF Request
    <3>2. requests' \in [Requests -> Answers]
      BY <1>1, <2>1, <3>1 DEF ReprocessFind, RemoveFind, Find, TypeOK
    <3>3. QED  BY <1>1, <3>2 DEF ReprocessFind, RemoveFind, Find, TypeOK
  <2>2. CASE ~Exists(i)
    BY <1>1, <2>2, <1>0 DEF ReprocessFind, RemoveFind, Find, TypeOK
  <2>3. QED  BY <2>1, <2>2
<1>2. CASE ReprocessMark(r)
  <2>1. requests[r] \in Request /\ requests[r].image \in Images
    BY <1>2, InFlightIsRequest DEF ReprocessMark
  <2>2. rows' \in [Images -> Row \cup {NoRow}]
    BY <1>2, <2>1, RowUpdateType DEF ReprocessMark, TypeOK, Statuses, InProgress
  <2>3. [requests[r] EXCEPT !.pc = "enqueue"] \in Request
    BY <1>2, <2>1 DEF ReprocessMark, Request
  <2>4. requests' \in [Requests -> Answers]
    BY <1>2, <1>0, <2>3 DEF ReprocessMark, TypeOK
  <2>5. QED  BY <1>2, <2>2, <2>4 DEF ReprocessMark, TypeOK
<1>3. CASE ReprocessEnqueue(r)
  <2>1. Enqueue("convert", requests[r].image) /\ requests[r].image \in Images
    BY <1>3, InFlightIsRequest DEF ReprocessEnqueue
  <2>2. jobs' \in [Jobs -> Job \cup {FreeJob}]
    BY <2>1, EnqueueType DEF Stages
  <2>3. QED  BY <1>3, <1>0, <2>2 DEF ReprocessEnqueue, TypeOK
<1>4. CASE RemoveObjects(r)
  <2>1. requests[r] \in Request /\ requests[r].image \in Images
    BY <1>4, InFlightIsRequest DEF RemoveObjects
  <2>2. [requests[r] EXCEPT !.pc = "row"] \in Request
    BY <1>4, <2>1 DEF RemoveObjects, Request
  <2>3. objects' \in [Images -> SUBSET Kinds]
    BY <1>4, <2>1 DEF RemoveObjects, DeleteOriginal, TypeOK
  <2>4. QED  BY <1>4, <2>2, <2>3 DEF RemoveObjects, TypeOK
<1>5. CASE RemoveRow(r)
  <2>1. rows' \in [Images -> Row \cup {NoRow}]
    BY <1>5 DEF RemoveRow, DeleteRow, TypeOK
  <2>2. QED  BY <1>5, <1>0, <2>1 DEF RemoveRow, TypeOK
<1>6. CASE RequestFail(r)
  BY <1>6, <1>0 DEF RequestFail, TypeOK
<1>7. QED  BY <1>1, <1>2, <1>3, <1>4, <1>5, <1>6 DEF RequestStep

(* Every variable keeps its type in every behaviour of the pipeline: in    *)
(* particular a job makes no more attempts than it has, only the variants  *)
(* stage renders, and only the other two store an output.                  *)
THEOREM TypeCorrect == Spec => []TypeOK
<1>1. Init => TypeOK
  <2>1. ASSUME Init PROVE TypeOK
    BY <2>1, ConstantsAssumption
       DEF Init, TypeOK, FreeJob, JobAt, SeedPCs, NoRequest, ConstantsAssumption
  <2>2. QED  BY <2>1
<1>2. TypeOK /\ [Next]_vars => TypeOK'
  <2>1. ASSUME TypeOK, Next PROVE TypeOK'
    BY <2>1, StageStepType, FailureStepType, ImageStepType, RequestStepType DEF Next
  <2>2. ASSUME TypeOK, UNCHANGED vars PROVE TypeOK'
    BY <2>2 DEF TypeOK, vars
  <2>3. QED  BY <2>1, <2>2
<1>3. QED  BY <1>1, <1>2, PTL DEF Spec
=============================================================================
