--------------------------- MODULE ValidationProofs ---------------------------
(***************************************************************************)
(* Theorems about upload and validation, for every set of images and of    *)
(* requests, every similarity, every number of attempts and crashes and,   *)
(* where a theorem does not say otherwise, every choice of faults.         *)
(***************************************************************************)
EXTENDS Validation, TLAPS

-----------------------------------------------------------------------------
(* Type correctness.                                                       *)

(* A row is there or it is NoRow.                                          *)
LEMMA RowCases ==
    ASSUME TypeOK, NEW i \in Images
    PROVE  /\ Exists(i) => rows[i] \in Row
           /\ ~Exists(i) => rows[i] = NoRow
  BY DEF TypeOK, Exists, Row, Statuses, Validating, NoRow

LEMMA RowStepType ==
    ASSUME TypeOK, NEW i \in Images,
           \/ Exists(i) /\ \E status \in Statuses : SetStatus(i, status)
           \/ Exists(i) /\ MarkAccepted(i)
           \/ rows' = [rows EXCEPT ![i] = NewRow]
           \/ rows' = [rows EXCEPT ![i] = NoRow]
    PROVE  rows' \in [Images -> Row \cup {NoRow}]
<1>1. Exists(i) => rows[i] \in Row  BY RowCases
<1>2. NewRow \in Row  BY DEF NewRow, Row, Statuses, Validating
<1>3. ASSUME Exists(i), NEW status \in Statuses
      PROVE  [rows[i] EXCEPT !.status = status] \in Row
  BY <1>1, <1>3 DEF Row
<1>4. Exists(i) => [status |-> "ACCEPTED", hash |-> TRUE,
                    display |-> rows[i].display \/ i \in Heic] \in Row
  BY <1>1 DEF Row, Statuses
<1>5. ASSUME NEW row \in Row \cup {NoRow}
      PROVE  [rows EXCEPT ![i] = row] \in [Images -> Row \cup {NoRow}]
  BY DEF TypeOK
<1>6. CASE Exists(i) /\ \E status \in Statuses : SetStatus(i, status)
  BY <1>3, <1>5, <1>6 DEF SetStatus
<1>7. CASE Exists(i) /\ MarkAccepted(i)
  BY <1>4, <1>5, <1>7 DEF MarkAccepted
<1>8. QED  BY <1>2, <1>5, <1>6, <1>7

LEMMA JobStepType ==
    ASSUME TypeOK, NEW i \in Images,
           \/ \E pc \in JobPCs : Advance(i, pc)
           \/ \E pc \in JobPCs, n \in 0..Attempts : jobs' = [jobs EXCEPT ![i] = JobAt(pc, n)]
    PROVE  jobs' \in [Images -> Job]
<1>1. jobs[i] \in Job  BY DEF TypeOK
<1>2. ASSUME NEW pc \in JobPCs PROVE [jobs[i] EXCEPT !.pc = pc] \in Job
  BY <1>1 DEF Job
<1>3. ASSUME NEW pc \in JobPCs, NEW n \in 0..Attempts PROVE JobAt(pc, n) \in Job
  BY DEF Job, JobAt
<1>4. QED  BY <1>2, <1>3 DEF TypeOK, Advance

(* The job of an image whose processor runs or waits has an attempt left.  *)
TypeInv ==
    /\ TypeOK
    /\ \A i \in Images : Running(i) \/ jobs[i].pc = "waiting" => jobs[i].attempts < Attempts

LEMMA InitType == Init => TypeInv
<1> SUFFICES ASSUME Init PROVE TypeInv  OBVIOUS
<1>1. 0 \in 0..Attempts /\ 0 \in 0..MaxCrashes
  BY ValidationAssumption DEF ValidationAssumption
<1>2. JobAt("none", 0) \in Job  BY <1>1 DEF Job, JobAt, JobPCs
<1>3. jobs \in [Images -> Job]  BY <1>2 DEF Init
<1>4. rows \in [Images -> Row \cup {NoRow}]  BY DEF Init
<1>5. TypeOK  BY <1>1, <1>3, <1>4 DEF Init, TypeOK, RunPCs
<1>6. QED  BY <1>5 DEF TypeInv, Init, Running, RunningPCs, JobAt

LEMMA UploadType ==
    ASSUME TypeInv, NEW i \in Images, UploadStep(i) \/ UploadFail(i)
    PROVE  TypeInv'
<1>0. TypeOK  BY DEF TypeInv
<1>1. CASE UploadStore(i)
  BY <1>0, <1>1 DEF UploadStore, TypeInv, TypeOK, Running
<1>2. CASE UploadCreate(i)
  <2>1. rows' \in [Images -> Row \cup {NoRow}]  BY <1>0, <1>2, RowStepType DEF UploadCreate
  <2>2. QED  BY <1>0, <1>2, <2>1 DEF UploadCreate, TypeInv, TypeOK, Running
<1>3. CASE UploadEnqueue(i)
  <2>1. 0 \in 0..Attempts /\ 0 < Attempts
    BY ValidationAssumption DEF ValidationAssumption
  <2>2. jobs' \in [Images -> Job]
    BY <1>0, <1>3, <2>1, JobStepType DEF UploadEnqueue, JobPCs
  <2>3. QED  BY <1>0, <1>3, <2>1, <2>2 DEF UploadEnqueue, TypeInv, TypeOK, Running, JobAt
<1>4. CASE UploadFail(i)
  BY <1>0, <1>4 DEF UploadFail, TypeInv, TypeOK, Running
<1>5. QED  BY <1>1, <1>2, <1>3, <1>4 DEF UploadStep

LEMMA MediaType ==
    ASSUME TypeInv, NEW x \in Images \cup Requests, MediaStep(x)
    PROVE  TypeInv'
<1>0. TypeOK  BY DEF TypeInv
<1>1. CASE MediaGone(x)
  BY <1>0, <1>1 DEF MediaGone, TypeInv, TypeOK, Running, RunPCs
<1>2. CASE Exists(RunImage(x))
  <2>1. PICK i : i = RunImage(x)  OBVIOUS
  <2>2. CASE i \in Images
    <3>1. rows' \in [Images -> Row \cup {NoRow}] \/ MediaGone(x)
      BY <1>0, <1>2, <2>1, <2>2, RowStepType
         DEF MediaStep, MediaStart, MediaEnd, Statuses
    <3>2. QED
      BY <1>0, <1>1, <3>1 DEF MediaStep, MediaStart, MediaEnd, TypeInv, TypeOK, Running, RunPCs
  <2>3. CASE i \notin Images
    <3>1. rows' = rows \/ MediaGone(x)
      BY <1>0, <1>2, <2>1, <2>3 DEF MediaStep, MediaStart, MediaEnd, SetStatus, TypeOK
    <3>2. QED
      BY <1>0, <1>1, <3>1 DEF MediaStep, MediaStart, MediaEnd, TypeInv, TypeOK, Running, RunPCs
  <2>4. QED  BY <2>2, <2>3
<1>3. QED  BY <1>1, <1>2 DEF MediaStep, MediaStart, MediaEnd

LEMMA ProcessorType ==
    ASSUME TypeInv, NEW i \in Images,
           \/ Load(i) \/ Mark(i) \/ Fetch(i) \/ Scan(i) \/ Reject(i) \/ PutDisplay(i)
           \/ Accept(i) \/ EnqueueConvert(i) \/ Ack(i)
    PROVE  TypeInv'
<1>0. TypeOK  BY DEF TypeInv
<1>1. PICK pc \in JobPCs \ {"none", "waiting", "failing"} : Advance(i, pc)
  BY DEF Load, Mark, Fetch, Scan, Reject, PutDisplay, Accept, EnqueueConvert, Ack,
         JobPCs, RunningPCs
<1>2. jobs' \in [Images -> Job]  BY <1>0, <1>1, JobStepType
<1>3. \A k \in Images : Running(k)' \/ jobs'[k].pc = "waiting" => jobs'[k].attempts < Attempts
  <2>1. jobs[i].attempts < Attempts
    BY DEF TypeInv, Load, Mark, Fetch, Scan, Reject, PutDisplay, Accept,
           EnqueueConvert, Ack, Running, RunningPCs
  <2>2. ASSUME NEW k \in Images PROVE jobs'[k].attempts = jobs[k].attempts
    BY <1>0, <1>1 DEF Advance, TypeOK, Job
  <2>3. ASSUME NEW k \in Images, k # i PROVE jobs'[k] = jobs[k]
    BY <1>0, <1>1, <2>3 DEF Advance, TypeOK
  <2>4. QED  BY <2>1, <2>2, <2>3 DEF TypeInv, Running
<1>4. rows' \in [Images -> Row \cup {NoRow}]
  <2>1. \/ rows' = rows
        \/ Exists(i) /\ \E status \in Statuses : SetStatus(i, status)
        \/ Exists(i) /\ MarkAccepted(i)
    BY DEF Load, Mark, Fetch, Scan, Reject, PutDisplay, Accept, EnqueueConvert, Ack,
           Statuses, Validating
  <2>2. QED  BY <1>0, <2>1, RowStepType DEF TypeOK
<1>5. objects' \in [Images -> SUBSET {"original", "display"}]
  BY <1>0 DEF TypeOK, Load, Mark, Fetch, Scan, Reject, PutDisplay, Accept, EnqueueConvert, Ack
<1>6. runs' \in [Images \cup Requests -> RunPCs]
  BY <1>0 DEF TypeOK, Load, Mark, Fetch, Scan, Reject, PutDisplay, Accept,
              EnqueueConvert, Ack, RunPCs
<1>7. overlapped' \subseteq {{l, k} : l, k \in Images}
  BY <1>0 DEF TypeOK, Load, Mark, Fetch, Scan, Reject, PutDisplay, Accept, EnqueueConvert, Ack
<1>8. UNCHANGED <<uploads, requests, crashes>>
  BY DEF Load, Mark, Fetch, Scan, Reject, PutDisplay, Accept, EnqueueConvert, Ack
<1>9. QED  BY <1>0, <1>2, <1>3, <1>4, <1>5, <1>6, <1>7, <1>8 DEF TypeInv, TypeOK

LEMMA FailureType ==
    ASSUME TypeInv, (\E i \in Images : Throw(i) \/ FailedHandler(i) \/ StallOut(i)) \/ Crash
    PROVE  TypeInv'
<1>0. TypeOK  BY DEF TypeInv
<1>1. ASSUME NEW i \in Images, Throw(i) PROVE TypeInv'
  <2> PICK spent : spent = jobs[i].attempts + 1  OBVIOUS
  <2>1. jobs[i].attempts < Attempts /\ jobs[i].attempts \in 0..Attempts /\ Attempts \in Nat
    BY <1>0, <1>1, ValidationAssumption DEF Throw, TypeInv, TypeOK, Job, ValidationAssumption
  <2>2. spent \in 0..Attempts  BY <2>1
  <2>3. PICK pc \in {"waiting", "failing"} :
           /\ pc = "waiting" => spent < Attempts
           /\ jobs' = [jobs EXCEPT ![i] = JobAt(pc, spent)]
    BY <1>1 DEF Throw
  <2>4. jobs' \in [Images -> Job]  BY <1>0, <2>2, <2>3, JobStepType DEF JobPCs
  <2>5. \A k \in Images : Running(k)' \/ jobs'[k].pc = "waiting" => jobs'[k].attempts < Attempts
    BY <1>0, <2>3 DEF TypeInv, TypeOK, Running, RunningPCs, JobAt
  <2>6. QED  BY <1>0, <1>1, <2>4, <2>5 DEF Throw, TypeInv, TypeOK
<1>2. ASSUME NEW i \in Images, FailedHandler(i) PROVE TypeInv'
  <2>1. \/ rows' = rows
        \/ Exists(i) /\ \E status \in Statuses : SetStatus(i, status)
    BY <1>2 DEF FailedHandler, Statuses
  <2>2. rows' \in [Images -> Row \cup {NoRow}]  BY <1>0, <2>1, RowStepType DEF TypeOK
  <2>3. Advance(i, "done") /\ jobs' \in [Images -> Job]
    BY <1>0, <1>2, JobStepType DEF FailedHandler, JobPCs
  <2>4. \A k \in Images : Running(k)' \/ jobs'[k].pc = "waiting" => jobs'[k].attempts < Attempts
    BY <1>0, <2>3 DEF TypeInv, TypeOK, Running, RunningPCs, Advance, Job
  <2>5. QED  BY <1>0, <1>2, <2>2, <2>3, <2>4 DEF FailedHandler, TypeInv, TypeOK
<1>3. CASE Crash
  <2> PICK S \in SUBSET {i \in Images : Running(i)} :
           jobs' = [i \in Images |->
              IF i \in S THEN JobAt("waiting", jobs[i].attempts) ELSE jobs[i]]
    BY <1>3 DEF Crash
  <2>1. \A i \in Images : JobAt("waiting", jobs[i].attempts) \in Job
    BY <1>0 DEF TypeOK, Job, JobAt, JobPCs
  <2>2. jobs' \in [Images -> Job]  BY <1>0, <2>1 DEF TypeOK
  <2>3. \A k \in Images : Running(k)' \/ jobs'[k].pc = "waiting" => jobs'[k].attempts < Attempts
    BY <1>0 DEF TypeInv, Running, JobAt
  <2>4. crashes' \in 0..MaxCrashes
    BY <1>0, <1>3, ValidationAssumption DEF TypeOK, Crash, ValidationAssumption
  <2>5. QED  BY <1>0, <1>3, <2>2, <2>3, <2>4 DEF Crash, TypeInv, TypeOK
<1>4. ASSUME NEW i \in Images, StallOut(i) PROVE TypeInv'
  <2>1. Advance(i, "failing") /\ jobs' \in [Images -> Job]
    BY <1>0, <1>4, JobStepType DEF StallOut, JobPCs
  <2>2. \A k \in Images : Running(k)' \/ jobs'[k].pc = "waiting" => jobs'[k].attempts < Attempts
    BY <1>0, <2>1 DEF TypeInv, TypeOK, Running, RunningPCs, Advance, Job
  <2>3. crashes' \in 0..MaxCrashes
    BY <1>0, <1>4, ValidationAssumption DEF TypeOK, StallOut, ValidationAssumption
  <2>4. QED  BY <1>0, <1>4, <2>1, <2>2, <2>3 DEF StallOut, TypeInv, TypeOK
<1>5. QED  BY <1>1, <1>2, <1>3, <1>4

LEMMA RequestType ==
    ASSUME TypeInv, NEW r \in Requests,
           \/ \E i \in Images : ReprocessFind(r, i) \/ RemoveFind(r, i)
           \/ RequestStep(r) \/ RequestFail(r)
    PROVE  TypeInv'
<1>0. TypeOK  BY DEF TypeInv
<1>1. ASSUME NEW i \in Images, NEW op \in {"reprocess", "remove"},
             NEW first \in {"mark", "objects"}, Find(r, op, first, i)
      PROVE  TypeInv'
  <2>1. rows[i].display \in BOOLEAN  BY <1>0, <1>1, RowCases DEF Find, Row
  <2>2. [op |-> op, image |-> i, display |-> rows[i].display, pc |-> first] \in Request
    BY <2>1 DEF Request
  <2>3. QED  BY <1>0, <1>1, <2>2 DEF Find, TypeInv, TypeOK, Running
<1>2. CASE RequestStep(r) \/ RequestFail(r)
  <2>1. requests[r] \in Request
    BY <1>0, <1>2 DEF TypeOK, NoRequest, RequestStep, RequestFail, ReprocessMark,
       ReprocessEnqueue, RemoveObjects, RemoveRow
  <2> PICK i \in Images : i = requests[r].image  BY <2>1 DEF Request
  <2>2. \A pc \in {"enqueue", "row", "done", "failed"} :
           [requests[r] EXCEPT !.pc = pc] \in Request
    BY <2>1 DEF Request
  <2>3. requests' \in [Requests -> Request \cup {NoRequest}]
    BY <1>0, <1>2, <2>2 DEF TypeOK, RequestStep, RequestFail, ReprocessMark,
       ReprocessEnqueue, RemoveObjects, RemoveRow, ToPC
  <2>4. rows' \in [Images -> Row \cup {NoRow}]
    <3>1. \/ rows' = rows
          \/ Exists(i) /\ \E status \in Statuses : SetStatus(i, status)
          \/ rows' = [rows EXCEPT ![i] = NoRow]
      BY <1>2 DEF RequestStep, RequestFail, ReprocessMark, ReprocessEnqueue,
         RemoveObjects, RemoveRow, Statuses
    <3>2. QED  BY <1>0, <3>1, RowStepType DEF TypeOK
  <2>5. objects' \in [Images -> SUBSET {"original", "display"}]
    BY <1>0, <1>2 DEF TypeOK, RequestStep, RequestFail, ReprocessMark,
       ReprocessEnqueue, RemoveObjects, RemoveRow
  <2>6. runs' \in [Images \cup Requests -> RunPCs]
    BY <1>0, <1>2 DEF TypeOK, RunPCs, RequestStep, RequestFail, ReprocessMark,
       ReprocessEnqueue, RemoveObjects, RemoveRow
  <2>7. UNCHANGED <<uploads, jobs, overlapped, crashes>>
    BY <1>2 DEF RequestStep, RequestFail, ReprocessMark, ReprocessEnqueue,
       RemoveObjects, RemoveRow
  <2>8. QED  BY <1>0, <2>3, <2>4, <2>5, <2>6, <2>7 DEF TypeInv, TypeOK, Running
<1>3. QED  BY <1>1, <1>2 DEF ReprocessFind, RemoveFind

LEMMA NextType ==
    ASSUME TypeInv, [Next]_vars
    PROVE  TypeInv'
<1>1. CASE Next
  <2>1. ASSUME NEW i \in Images, UploadStep(i) \/ UploadFail(i) \/ JobStep(i) PROVE TypeInv'
    BY <2>1, UploadType, ProcessorType, FailureType DEF JobStep
  <2>2. QED  BY <1>1, <2>1, MediaType, FailureType, RequestType DEF Next
<1>2. CASE UNCHANGED vars
  BY <1>2 DEF vars, TypeInv, TypeOK, Running
<1>3. QED  BY <1>1, <1>2

(* The type invariant of upload and validation: for any number of images   *)
(* and requests every value stays in its type, and no validate job makes   *)
(* more than Attempts attempts (queue.ts:27).                              *)
THEOREM TypeCorrect == Spec => []TypeOK
<1>1. TypeInv => TypeOK  BY DEF TypeInv
<1>2. QED  BY <1>1, InitType, NextType, PTL DEF Spec
-----------------------------------------------------------------------------
(* What the steps do to the rows and to the jobs.                          *)

LEMMA SetStatusEffect ==
    ASSUME TypeOK, NEW i \in Images, Exists(i),
           NEW status \in Statuses, SetStatus(i, status)
    PROVE  /\ rows'[i].status = status /\ Exists(i)'
           /\ rows'[i].hash = rows[i].hash /\ rows'[i].display = rows[i].display
           /\ \A k \in Images \ {i} : rows'[k] = rows[k]
<1>1. rows[i] \in Row  BY RowCases
<1>2. status # "NONE"  BY DEF Statuses, Validating
<1>3. QED  BY <1>1, <1>2 DEF TypeOK, SetStatus, Row, Exists

LEMMA AdvanceEffect ==
    ASSUME TypeOK, NEW i \in Images, NEW pc, Advance(i, pc)
    PROVE  jobs'[i].pc = pc /\ \A k \in Images \ {i} : jobs'[k] = jobs[k]
<1>1. jobs[i] \in Job  BY DEF TypeOK
<1>2. QED  BY <1>1 DEF TypeOK, Advance, Job

(* A worker stops, or BullMQ gives a job up that stalled too often.        *)
Interruption == Crash \/ \E i \in Images : StallOut(i)

LEMMA InterruptionEffect ==
    ASSUME TypeOK, Interruption
    PROVE  /\ UNCHANGED <<rows, objects, uploads, runs, requests, overlapped>>
           /\ \A i \in Images :
                 \/ jobs'[i] = jobs[i]
                 \/ Running(i) /\ jobs'[i].pc = "waiting"
                 \/ "stall" \in Faults /\ Running(i) /\ jobs'[i].pc = "failing"
<1>1. CASE Crash  BY <1>1 DEF Crash, JobAt
<1>2. ASSUME NEW i \in Images, StallOut(i)
      PROVE  /\ "stall" \in Faults /\ Running(i) /\ jobs'[i].pc = "failing"
             /\ \A k \in Images \ {i} : jobs'[k] = jobs[k]
             /\ UNCHANGED <<rows, objects, uploads, runs, requests, overlapped>>
  BY <1>2, AdvanceEffect DEF StallOut
<1>3. QED  BY <1>1, <1>2 DEF Interruption

(* An image whose upload has not created the row has no job and no run.    *)
UploadNotOver ==
    \A i \in Images : uploads[i] \in {"new", "stored"} =>
        ~Exists(i) /\ jobs[i].pc = "none" /\ runs[i] = "none"

(* A step that makes no row and no job but for images whose row was there. *)
LEMMA UploadFrame ==
    ASSUME UploadNotOver, uploads' = uploads,
           \A i \in Images : Exists(i)' => Exists(i),
           \A i \in Images : jobs[i].pc = "none" => jobs'[i].pc = "none",
           \A i \in Images : jobs[i].pc = "none" /\ ~Exists(i) => runs'[i] = runs[i]
    PROVE  UploadNotOver'
  BY DEF UploadNotOver

LEMMA ProcessorUpload ==
    ASSUME TypeOK, UploadNotOver, NEW i \in Images, JobStep(i)
    PROVE  UploadNotOver'
<1>1. /\ jobs[i].pc # "none" /\ \A k \in Images \ {i} : jobs'[k] = jobs[k]
  BY AdvanceEffect DEF JobStep, Load, Mark, Fetch, Scan, Reject, PutDisplay, Accept,
     EnqueueConvert, Ack, Throw, FailedHandler, Running, RunningPCs, TypeOK
<1>2. \A k \in Images : Exists(k)' => Exists(k)
  <2>1. CASE rows' = rows  BY <2>1 DEF Exists
  <2>2. CASE rows' # rows
    <3>1. Exists(i) /\ \A k \in Images \ {i} : rows'[k] = rows[k]
      BY <2>2 DEF JobStep, Load, Mark, Fetch, Scan, Reject, PutDisplay, Accept,
         EnqueueConvert, Ack, Throw, FailedHandler, SetStatus, MarkAccepted, TypeOK
    <3>2. QED  BY <3>1 DEF Exists
  <2>3. QED  BY <2>1, <2>2
<1>3. uploads' = uploads /\ \A k \in Images \ {i} : runs'[k] = runs[k]
  BY DEF JobStep, Load, Mark, Fetch, Scan, Reject, PutDisplay, Accept,
     EnqueueConvert, Ack, Throw, FailedHandler, TypeOK
<1>4. QED  BY <1>1, <1>2, <1>3 DEF UploadNotOver

LEMMA MediaEffect ==
    ASSUME TypeOK, NEW x \in Images \cup Requests, MediaStep(x)
    PROVE  /\ \A i \in Images : \/ rows'[i] = rows[i]
                                \/ /\ Exists(i) /\ Exists(i)'
                                   /\ rows'[i].status \in {"PROCESSING_CONVERT", "COMPLETED", "FAILED"}
                                   /\ rows'[i].hash = rows[i].hash
                                   /\ rows'[i].display = rows[i].display
           /\ \A y \in Images \cup Requests : runs[y] = "none" <=> runs'[y] = "none"
           /\ UNCHANGED <<objects, uploads, jobs, requests, overlapped, crashes>>
<1>1. \A y \in Images \cup Requests : runs[y] = "none" <=> runs'[y] = "none"
  BY DEF TypeOK, MediaStep, MediaStart, MediaEnd, MediaGone
<1>2. UNCHANGED <<objects, uploads, jobs, requests, overlapped, crashes>>
  BY DEF MediaStep, MediaStart, MediaEnd, MediaGone
<1>3. CASE rows' = rows  BY <1>1, <1>2, <1>3
<1>4. CASE rows' # rows
  <2>1. PICK status \in {"PROCESSING_CONVERT", "COMPLETED", "FAILED"} :
           Exists(RunImage(x)) /\ SetStatus(RunImage(x), status)
    BY <1>4 DEF MediaStep, MediaStart, MediaEnd, MediaGone
  <2>2. PICK i : i = RunImage(x)  OBVIOUS
  <2>3. status \in Statuses  BY DEF Statuses
  <2>4. CASE i \in Images
    <3>1. /\ rows'[i].status = status /\ Exists(i)'
          /\ rows'[i].hash = rows[i].hash /\ rows'[i].display = rows[i].display
          /\ \A k \in Images \ {i} : rows'[k] = rows[k]
      BY <2>1, <2>2, <2>3, <2>4, SetStatusEffect
    <3>2. QED  BY <1>1, <1>2, <2>1, <2>2, <3>1
  <2>5. CASE i \notin Images
    BY <1>4, <2>1, <2>2, <2>5 DEF SetStatus, TypeOK
  <2>6. QED  BY <2>4, <2>5
<1>5. QED  BY <1>3, <1>4

(* The image of a request that has begun.                                  *)
LEMMA RequestImage ==
    ASSUME TypeOK, NEW r \in Requests, requests[r].pc # "idle"
    PROVE  requests[r] \in Request /\ requests[r].image \in Images
  BY DEF TypeOK, NoRequest, Request

RequestMove(r) ==
    \/ \E i \in Images : ReprocessFind(r, i) \/ RemoveFind(r, i)
    \/ RequestStep(r) \/ RequestFail(r)

LEMMA RequestEffect ==
    ASSUME TypeOK, NEW r \in Requests, RequestMove(r)
    PROVE  /\ \A i \in Images : \/ rows'[i] = rows[i]
                                \/ rows'[i] = NoRow
                                \/ /\ Exists(i) /\ Exists(i)'
                                   /\ rows'[i].status = "PROCESSING_CONVERT"
                                   /\ rows'[i].hash = rows[i].hash
                                   /\ rows'[i].display = rows[i].display
           /\ \A i \in Images : runs'[i] = runs[i]
           /\ UNCHANGED <<uploads, jobs, overlapped, crashes>>
<1>1. UNCHANGED <<uploads, jobs, overlapped, crashes>>
  BY DEF RequestMove, ReprocessFind, RemoveFind, Find, RequestStep, RequestFail,
     ReprocessMark, ReprocessEnqueue, RemoveObjects, RemoveRow
<1>2. \A i \in Images : runs'[i] = runs[i]
  <2>1. r \notin Images  BY ValidationAssumption DEF ValidationAssumption
  <2>2. QED
    BY <2>1 DEF TypeOK, RequestMove, ReprocessFind, RemoveFind, Find, RequestStep,
       RequestFail, ReprocessMark, ReprocessEnqueue, RemoveObjects, RemoveRow
<1>3. CASE rows' = rows  BY <1>1, <1>2, <1>3
<1>4. CASE rows' # rows
  <2>1. \/ /\ requests[r].pc = "mark" /\ Exists(requests[r].image)
           /\ SetStatus(requests[r].image, "PROCESSING_CONVERT")
        \/ /\ requests[r].pc = "row"
           /\ rows' = [rows EXCEPT ![requests[r].image] = NoRow]
    BY <1>4 DEF RequestMove, ReprocessFind, RemoveFind, Find, RequestStep,
       RequestFail, ReprocessMark, ReprocessEnqueue, RemoveObjects, RemoveRow
  <2> PICK i \in Images : i = requests[r].image  BY <2>1, RequestImage
  <2>2. CASE Exists(i) /\ SetStatus(i, "PROCESSING_CONVERT")
    <3>1. "PROCESSING_CONVERT" \in Statuses  BY DEF Statuses
    <3>2. /\ rows'[i].status = "PROCESSING_CONVERT" /\ Exists(i)'
          /\ rows'[i].hash = rows[i].hash /\ rows'[i].display = rows[i].display
          /\ \A k \in Images \ {i} : rows'[k] = rows[k]
      BY <2>2, <3>1, SetStatusEffect
    <3>3. QED  BY <1>1, <1>2, <2>2, <3>2
  <2>3. CASE rows' = [rows EXCEPT ![i] = NoRow]
    BY <1>1, <1>2, <2>3 DEF TypeOK
  <2>4. QED  BY <2>1, <2>2, <2>3
<1>5. QED  BY <1>3, <1>4

LEMMA NextUpload ==
    ASSUME TypeOK, UploadNotOver, [Next]_vars
    PROVE  UploadNotOver'
<1>1. ASSUME NEW i \in Images, UploadStep(i) \/ UploadFail(i) PROVE UploadNotOver'
  <2>1. CASE UploadStore(i)
    BY <2>1 DEF UploadStore, UploadNotOver, TypeOK, Exists
  <2>2. CASE UploadCreate(i)
    BY <2>2 DEF UploadCreate, UploadNotOver, TypeOK, Exists
  <2>3. CASE UploadEnqueue(i)
    BY <2>3 DEF UploadEnqueue, UploadNotOver, TypeOK, Exists
  <2>4. CASE UploadFail(i)
    BY <2>4 DEF UploadFail, UploadNotOver, TypeOK, Exists
  <2>5. QED  BY <1>1, <2>1, <2>2, <2>3, <2>4 DEF UploadStep
<1>2. ASSUME NEW i \in Images, JobStep(i) PROVE UploadNotOver'
  BY <1>2, ProcessorUpload
<1>3. ASSUME NEW x \in Images \cup Requests, MediaStep(x) PROVE UploadNotOver'
  BY <1>3, MediaEffect DEF UploadNotOver, Exists
<1>4. ASSUME NEW r \in Requests, RequestMove(r) PROVE UploadNotOver'
  BY <1>4, RequestEffect DEF UploadNotOver, Exists, NoRow
<1>5. CASE Interruption
  BY <1>5, InterruptionEffect DEF UploadNotOver, Exists, Running, RunningPCs
<1>6. CASE UNCHANGED vars
  BY <1>6 DEF vars, UploadNotOver, Exists
<1>7. QED  BY <1>1, <1>2, <1>3, <1>4, <1>5, <1>6 DEF Next, RequestMove, Interruption
-----------------------------------------------------------------------------
(* What validation decides.                                                *)

(* A row is ACCEPTED, or about to be queued for conversion, only with its  *)
(* hash; and it has a display copy only as the row of a HEIC image.        *)
AcceptedHashed ==
    \A i \in Images :
        /\ rows[i].status = "ACCEPTED" => rows[i].hash
        /\ jobs[i].pc = "enqueue" /\ Exists(i) => rows[i].hash
        /\ rows[i].display => i \in Heic
        /\ rows[i].hash => (rows[i].display <=> i \in Heic)

(* The history has every two validations that are running.                 *)
BusyOverlapped ==
    \A i, k \in Images : i # k /\ Busy(i) /\ Busy(k) => {i, k} \in overlapped

(* A scan that found nothing is still right but for the images validated   *)
(* meanwhile: what makes the duplicates of DuplicatesOverlapped overlap.   *)
ScanStillHolds ==
    \A i, k \in Images :
        /\ i # k /\ {i, k} \in Similar
        /\ jobs[i].pc \in {"display", "accept"} /\ rows[k].status = "ACCEPTED"
        => {i, k} \in overlapped

DecisionInv ==
    /\ AcceptedHashed /\ AutomaticRunsAccepted
    /\ BusyOverlapped /\ ScanStillHolds /\ DuplicatesOverlapped

(* Steps that begin no validation, pass no scan, accept no image and queue *)
(* no convert job.                                                         *)
LEMMA DecisionFrame ==
    ASSUME DecisionInv, overlapped' = overlapped,
           \A i \in Images :
              \/ rows'[i] = rows[i]
              \/ rows'[i] = NoRow
              \/ /\ Exists(i) /\ rows'[i].status # "ACCEPTED"
                 /\ rows'[i].hash = rows[i].hash /\ rows'[i].display = rows[i].display,
           \A i \in Images :
              /\ Busy(i)' => Busy(i)
              /\ jobs'[i].pc \in {"display", "accept"} => jobs[i].pc \in {"display", "accept"}
              /\ jobs'[i].pc = "enqueue" => jobs[i].pc = "enqueue",
           \A i \in Images : runs'[i] # "none" => runs[i] # "none"
    PROVE  DecisionInv'
<1> USE DEF DecisionInv
<1>1. \A i \in Images : rows'[i].status = "ACCEPTED" => rows'[i] = rows[i]
  BY DEF NoRow
<1>2. AcceptedHashed'  BY <1>1 DEF AcceptedHashed, Exists, NoRow
<1>3. AutomaticRunsAccepted'  BY DEF AutomaticRunsAccepted, Exists, NoRow
<1>4. BusyOverlapped'  BY DEF BusyOverlapped
<1>5. ScanStillHolds'  BY <1>1 DEF ScanStillHolds
<1>6. DuplicatesOverlapped'  BY <1>1 DEF DuplicatesOverlapped
<1>7. QED  BY <1>2, <1>3, <1>4, <1>5, <1>6

LEMMA UploadDecision ==
    ASSUME TypeOK, UploadNotOver, DecisionInv, NEW i \in Images,
           UploadStep(i) \/ UploadFail(i)
    PROVE  DecisionInv'
<1>1. CASE UploadStore(i) \/ UploadFail(i)
  BY <1>1, DecisionFrame DEF UploadStore, UploadFail, Busy
<1>2. CASE UploadEnqueue(i)
  BY <1>2, DecisionFrame DEF UploadEnqueue, Busy, RunningPCs, TypeOK, JobAt
<1>3. CASE UploadCreate(i)
  <2>1. jobs[i].pc = "none" /\ runs[i] = "none"
    BY <1>3 DEF UploadCreate, UploadNotOver
  <2>2. rows'[i] = NewRow /\ \A k \in Images \ {i} : rows'[k] = rows[k]
    BY <1>3 DEF UploadCreate, TypeOK
  <2>3. UNCHANGED <<jobs, runs, overlapped>>  BY <1>3 DEF UploadCreate
  <2>4. AcceptedHashed'
    BY <2>1, <2>2, <2>3 DEF DecisionInv, AcceptedHashed, Exists, NewRow
  <2>5. AutomaticRunsAccepted'
    BY <2>1, <2>2, <2>3 DEF DecisionInv, AutomaticRunsAccepted, Exists
  <2>6. BusyOverlapped'  BY <2>3 DEF DecisionInv, BusyOverlapped, Busy
  <2>7. ScanStillHolds'  BY <2>2, <2>3 DEF DecisionInv, ScanStillHolds, NewRow
  <2>8. DuplicatesOverlapped'  BY <2>2, <2>3 DEF DecisionInv, DuplicatesOverlapped, NewRow
  <2>9. QED  BY <2>4, <2>5, <2>6, <2>7, <2>8 DEF DecisionInv
<1>4. QED  BY <1>1, <1>2, <1>3 DEF UploadStep

LEMMA LoadDecision ==
    ASSUME TypeOK, DecisionInv, NEW i \in Images, Load(i)
    PROVE  DecisionInv'
<1>1. UNCHANGED <<rows, runs>>  BY DEF Load
<1>2. CASE ~Exists(i)
  <2>1. Advance(i, "ack") /\ overlapped' = overlapped  BY <1>2 DEF Load
  <2>2. jobs'[i].pc = "ack" /\ \A k \in Images \ {i} : jobs'[k] = jobs[k]
    BY <2>1, AdvanceEffect
  <2>3. QED  BY <1>1, <2>1, <2>2, DecisionFrame DEF Busy
<1>3. CASE Exists(i)
  <2>1. /\ Advance(i, "mark")
        /\ overlapped' = overlapped \cup {{i, k} : k \in {l \in Images : Busy(l)}}
    BY <1>3 DEF Load
  <2>2. jobs'[i].pc = "mark" /\ \A k \in Images \ {i} : jobs'[k] = jobs[k]
    BY <2>1, AdvanceEffect
  <2>3. AcceptedHashed' /\ AutomaticRunsAccepted'
    BY <1>1, <2>2 DEF DecisionInv, AcceptedHashed, AutomaticRunsAccepted, Exists
  <2>4. ASSUME NEW k \in Images \ {i}, Busy(k)' PROVE {i, k} \in overlapped'
    BY <2>1, <2>2, <2>4 DEF Busy
  <2>5. ASSUME NEW k \in Images, NEW l \in Images, k # l, Busy(k)', Busy(l)'
        PROVE  {k, l} \in overlapped'
    <3>1. CASE k = i  BY <2>4, <2>5, <3>1
    <3>2. CASE l = i
      <4>1. {k, l} = {l, k}  OBVIOUS
      <4>2. QED  BY <2>4, <2>5, <3>2, <4>1
    <3>3. CASE k # i /\ l # i
      BY <2>1, <2>2, <2>5, <3>3 DEF DecisionInv, BusyOverlapped, Busy
    <3>4. QED  BY <3>1, <3>2, <3>3
  <2>6. BusyOverlapped'  BY <2>5 DEF BusyOverlapped
  <2>7. ScanStillHolds'  BY <1>1, <2>1, <2>2 DEF DecisionInv, ScanStillHolds
  <2>8. DuplicatesOverlapped'  BY <1>1, <2>1 DEF DecisionInv, DuplicatesOverlapped
  <2>9. QED  BY <2>3, <2>6, <2>7, <2>8 DEF DecisionInv
<1>4. QED  BY <1>2, <1>3

LEMMA ScanDecision ==
    ASSUME TypeOK, DecisionInv, NEW i \in Images, Scan(i)
    PROVE  DecisionInv'
<1>1. UNCHANGED <<rows, runs, overlapped>> /\ jobs[i].pc = "scan"  BY DEF Scan
<1>2. PICK pc \in {"reject", "display", "accept"} :
         /\ Advance(i, pc)
         /\ (\E k \in AcceptedHashes(i) : {i, k} \in Similar) => pc = "reject"
  BY DEF Scan
<1>3. jobs'[i].pc = pc /\ \A k \in Images \ {i} : jobs'[k] = jobs[k]
  BY <1>2, AdvanceEffect
<1>4. CASE pc = "reject"
  BY <1>1, <1>3, <1>4, DecisionFrame DEF Busy, RunningPCs
<1>5. CASE pc # "reject"
  <2>1. ASSUME NEW k \in Images \ {i}, {i, k} \in Similar PROVE rows[k].status # "ACCEPTED"
    BY <1>2, <1>5, <2>1 DEF AcceptedHashes, DecisionInv, AcceptedHashed
  <2>2. AcceptedHashed' /\ AutomaticRunsAccepted'
    BY <1>1, <1>3 DEF DecisionInv, AcceptedHashed, AutomaticRunsAccepted, Exists
  <2>3. \A k \in Images : Busy(k)' => Busy(k)
    BY <1>1, <1>3 DEF Busy, RunningPCs
  <2>4. BusyOverlapped'  BY <1>1, <2>3 DEF DecisionInv, BusyOverlapped
  <2>5. ScanStillHolds'  BY <1>1, <1>3, <2>1 DEF DecisionInv, ScanStillHolds
  <2>6. DuplicatesOverlapped'  BY <1>1 DEF DecisionInv, DuplicatesOverlapped
  <2>7. QED  BY <2>2, <2>4, <2>5, <2>6 DEF DecisionInv
<1>6. QED  BY <1>4, <1>5

LEMMA AcceptDecision ==
    ASSUME TypeOK, DecisionInv, NEW i \in Images, Accept(i)
    PROVE  DecisionInv'
<1>1. UNCHANGED <<runs, overlapped>> /\ jobs[i].pc = "accept" /\ Exists(i)  BY DEF Accept
<1>2. jobs'[i].pc = "enqueue" /\ \A k \in Images \ {i} : jobs'[k] = jobs[k]
  BY AdvanceEffect DEF Accept
<1>3. rows[i] \in Row  BY <1>1, RowCases
<1>4. /\ rows'[i].status = "ACCEPTED" /\ rows'[i].hash
      /\ rows'[i].display <=> rows[i].display \/ i \in Heic
      /\ \A k \in Images \ {i} : rows'[k] = rows[k]
  <2>1. rows' = [rows EXCEPT ![i] =
           [status |-> "ACCEPTED", hash |-> TRUE, display |-> rows[i].display \/ i \in Heic]]
    BY DEF Accept, MarkAccepted
  <2>2. rows'[i] = [status |-> "ACCEPTED", hash |-> TRUE,
                    display |-> rows[i].display \/ i \in Heic]
    BY <2>1 DEF TypeOK
  <2>3. rows'[i].display = (rows[i].display \/ i \in Heic)  BY <2>2
  <2>4. rows'[i].status = "ACCEPTED"  BY <2>2
  <2>5. rows'[i].hash = TRUE  BY <2>2
  <2>6. \A k \in Images \ {i} : rows'[k] = rows[k]  BY <2>1 DEF TypeOK
  <2>7. QED  BY <2>3, <2>4, <2>5, <2>6, Zenon
<1>5. AcceptedHashed'
  BY <1>2, <1>4 DEF DecisionInv, AcceptedHashed, Exists
<1>6. AutomaticRunsAccepted'
  BY <1>1, <1>4 DEF DecisionInv, AutomaticRunsAccepted, Exists
<1>7. \A k \in Images : Busy(k)' <=> Busy(k)
  BY <1>1, <1>2 DEF Busy, RunningPCs
<1>8. BusyOverlapped'  BY <1>1, <1>7 DEF DecisionInv, BusyOverlapped
<1>9. ASSUME NEW k \in Images, NEW l \in Images, k # l, {k, l} \in Similar,
             jobs'[k].pc \in {"display", "accept"}, rows'[l].status = "ACCEPTED"
      PROVE  {k, l} \in overlapped'
  <2>1. k # i /\ jobs[k].pc \in {"display", "accept"}  BY <1>2, <1>9
  <2>2. CASE l = i
    <3>1. Busy(k) /\ Busy(i)  BY <1>1, <2>1 DEF Busy, RunningPCs
    <3>2. QED  BY <1>1, <1>9, <2>2, <3>1 DEF DecisionInv, BusyOverlapped
  <2>3. CASE l # i
    BY <1>1, <1>4, <1>9, <2>1, <2>3 DEF DecisionInv, ScanStillHolds
  <2>4. QED  BY <2>2, <2>3
<1>10. ScanStillHolds'  BY <1>9 DEF ScanStillHolds
<1>11. ASSUME NEW k \in Images \ {i}, {i, k} \in Similar, rows[k].status = "ACCEPTED"
       PROVE  {i, k} \in overlapped'
  BY <1>1, <1>11 DEF DecisionInv, ScanStillHolds
<1>12. ASSUME NEW k \in Images, NEW l \in Images, k # l, {k, l} \in Similar,
              rows'[k].status = "ACCEPTED", rows'[l].status = "ACCEPTED"
       PROVE  {k, l} \in overlapped'
  <2>1. CASE k = i  BY <1>4, <1>11, <1>12, <2>1
  <2>2. CASE l = i
    <3>1. {k, l} = {l, k}  OBVIOUS
    <3>2. QED  BY <1>4, <1>11, <1>12, <2>2, <3>1
  <2>3. CASE k # i /\ l # i
    BY <1>1, <1>4, <1>12, <2>3 DEF DecisionInv, DuplicatesOverlapped
  <2>4. QED  BY <2>1, <2>2, <2>3
<1>13. DuplicatesOverlapped'  BY <1>12 DEF DuplicatesOverlapped
<1>14. QED  BY <1>5, <1>6, <1>8, <1>10, <1>13 DEF DecisionInv

LEMMA EnqueueDecision ==
    ASSUME TypeOK, DecisionInv, NEW i \in Images, EnqueueConvert(i)
    PROVE  DecisionInv'
<1>1. UNCHANGED <<rows, overlapped>> /\ jobs[i].pc = "enqueue"  BY DEF EnqueueConvert
<1>2. jobs'[i].pc = "ack" /\ \A k \in Images \ {i} : jobs'[k] = jobs[k]
  BY AdvanceEffect DEF EnqueueConvert
<1>3. \A k \in Images \ {i} : runs'[k] = runs[k]  BY DEF EnqueueConvert, TypeOK
<1>4. AcceptedHashed'  BY <1>1, <1>2 DEF DecisionInv, AcceptedHashed, Exists
<1>5. AutomaticRunsAccepted'
  BY <1>1, <1>3 DEF DecisionInv, AcceptedHashed, AutomaticRunsAccepted, Exists
<1>6. BusyOverlapped'
  BY <1>1, <1>2 DEF DecisionInv, BusyOverlapped, Busy
<1>7. ScanStillHolds'  BY <1>1, <1>2 DEF DecisionInv, ScanStillHolds
<1>8. DuplicatesOverlapped'  BY <1>1 DEF DecisionInv, DuplicatesOverlapped
<1>9. QED  BY <1>4, <1>5, <1>6, <1>7, <1>8 DEF DecisionInv

LEMMA OtherStepDecision ==
    ASSUME TypeOK, DecisionInv, NEW i \in Images,
           \/ Mark(i) \/ Fetch(i) \/ Reject(i) \/ PutDisplay(i) \/ Ack(i)
           \/ Throw(i) \/ FailedHandler(i)
    PROVE  DecisionInv'
<1>1. overlapped' = overlapped /\ runs' = runs
  BY DEF Mark, Fetch, Reject, PutDisplay, Ack, Throw, FailedHandler
<1>2. \A k \in Images :
         \/ rows'[k] = rows[k]
         \/ /\ Exists(k) /\ rows'[k].status # "ACCEPTED"
            /\ rows'[k].hash = rows[k].hash /\ rows'[k].display = rows[k].display
  <2>1. CASE rows' = rows  BY <2>1
  <2>2. CASE rows' # rows
    <3>1. PICK status \in {"PROCESSING", "REJECTED", "FAILED"} :
             Exists(i) /\ SetStatus(i, status)
      BY <2>2 DEF Mark, Fetch, Reject, PutDisplay, Ack, Throw, FailedHandler
    <3>2. status \in Statuses  BY DEF Statuses, Validating
    <3>3. /\ rows'[i].status = status
          /\ rows'[i].hash = rows[i].hash /\ rows'[i].display = rows[i].display
          /\ \A k \in Images \ {i} : rows'[k] = rows[k]
      BY <3>1, <3>2, SetStatusEffect
    <3>4. QED  BY <3>1, <3>3
  <2>3. QED  BY <2>1, <2>2
<1>3. \A k \in Images \ {i} : jobs'[k] = jobs[k]
  BY AdvanceEffect DEF Mark, Fetch, Reject, PutDisplay, Ack, Throw, FailedHandler, TypeOK
<1>4. /\ Busy(i)' => Busy(i)
      /\ jobs'[i].pc \in {"display", "accept"} => jobs[i].pc \in {"display", "accept"}
      /\ jobs'[i].pc = "enqueue" => jobs[i].pc = "enqueue"
  <2>1. CASE Throw(i)
    BY <2>1 DEF Throw, JobAt, Busy, RunningPCs, TypeOK
  <2>2. CASE Mark(i) \/ Fetch(i) \/ Reject(i) \/ PutDisplay(i) \/ Ack(i) \/ FailedHandler(i)
    BY <2>2, AdvanceEffect DEF Mark, Fetch, Reject, PutDisplay, Ack, FailedHandler,
       Busy, RunningPCs
  <2>3. QED  BY <2>1, <2>2
<1>5. \A k \in Images :
         /\ Busy(k)' => Busy(k)
         /\ jobs'[k].pc \in {"display", "accept"} => jobs[k].pc \in {"display", "accept"}
         /\ jobs'[k].pc = "enqueue" => jobs[k].pc = "enqueue"
  BY <1>3, <1>4 DEF Busy
<1>6. QED  BY <1>1, <1>2, <1>5, DecisionFrame

LEMMA NextDecision ==
    ASSUME TypeOK, UploadNotOver, DecisionInv, [Next]_vars
    PROVE  DecisionInv'
<1>1. ASSUME NEW i \in Images, UploadStep(i) \/ UploadFail(i) PROVE DecisionInv'
  BY <1>1, UploadDecision
<1>2. ASSUME NEW i \in Images, JobStep(i) PROVE DecisionInv'
  BY <1>2, LoadDecision, ScanDecision, AcceptDecision, EnqueueDecision, OtherStepDecision
     DEF JobStep
<1>3. ASSUME NEW x \in Images \cup Requests, MediaStep(x) PROVE DecisionInv'
  BY <1>3, MediaEffect, DecisionFrame DEF Busy
<1>4. ASSUME NEW r \in Requests, RequestMove(r) PROVE DecisionInv'
  BY <1>4, RequestEffect, DecisionFrame DEF Busy
<1>5. CASE Interruption
  <2>1. /\ \A i \in Images : jobs'[i] = jobs[i] \/ jobs'[i].pc \in {"waiting", "failing"}
        /\ UNCHANGED <<rows, runs, overlapped>>
    BY <1>5, InterruptionEffect
  <2>2. QED  BY <2>1, DecisionFrame DEF Busy, RunningPCs
<1>6. CASE UNCHANGED vars
  BY <1>6, DecisionFrame DEF vars, Busy
<1>7. QED  BY <1>1, <1>2, <1>3, <1>4, <1>5, <1>6 DEF Next, RequestMove, Interruption

ValidationInv == TypeInv /\ UploadNotOver /\ DecisionInv

LEMMA InitInv == Init => ValidationInv
<1> SUFFICES ASSUME Init PROVE ValidationInv  OBVIOUS
<1>1. TypeInv  BY InitType
<1>2. UploadNotOver  BY DEF Init, UploadNotOver, Exists, NoRow, JobAt
<1>3. DecisionInv
  BY DEF Init, DecisionInv, AcceptedHashed, AutomaticRunsAccepted, BusyOverlapped,
     Busy, RunningPCs, ScanStillHolds, DuplicatesOverlapped, NoRow, JobAt, Exists
<1>4. QED  BY <1>1, <1>2, <1>3 DEF ValidationInv

LEMMA NextInv ==
    ASSUME ValidationInv, [Next]_vars
    PROVE  ValidationInv'
  BY NextType, NextUpload, NextDecision DEF ValidationInv, TypeInv

LEMMA InvHolds == Spec => []ValidationInv
  BY InitInv, NextInv, PTL DEF Spec

(* Two similar images are ACCEPTED together only if their validations      *)
(* overlapped: no retry, redelivery, reprocess or remove opens another way *)
(* past the scan than the window between it and markAccepted               *)
(* (similarity.validator.ts:29, image.worker.ts:92).                       *)
THEOREM DuplicatesTheorem == Spec => []DuplicatesOverlapped
<1>1. ValidationInv => DuplicatesOverlapped  BY DEF ValidationInv, DecisionInv
<1>2. QED  BY <1>1, InvHolds, PTL

(* Only images that passed validation enter the media pipeline on their    *)
(* own, whatever fails and is retried (image.worker.ts:92-109).            *)
THEOREM AutomaticRunsTheorem == Spec => []AutomaticRunsAccepted
<1>1. ValidationInv => AutomaticRunsAccepted  BY DEF ValidationInv, DecisionInv
<1>2. QED  BY <1>1, InvHolds, PTL
-----------------------------------------------------------------------------
(* Display copies, when no API request is cut short.                       *)

NoRequestFaults == "api" \notin Faults

(* The display copy of i is there, or the call that removes it goes on.    *)
DisplayThere(i) ==
    \/ "display" \in objects[i]
    \/ \E r \in Requests : requests[r].image = i /\ requests[r].pc = "row"

(* The copy is uploaded before markAccepted points the row at it.          *)
DisplayPut ==
    \A i \in Images : jobs[i].pc = "accept" /\ i \in Heic /\ Exists(i) => DisplayThere(i)

DisplayInv == DisplayPut /\ \A i \in Images : rows[i].display => DisplayThere(i)

(* A display copy stays as long as its row.                                *)
LEMMA DisplayKept ==
    ASSUME NoRequestFaults, TypeOK, [Next]_vars,
           NEW i \in Images, DisplayThere(i), rows'[i] # NoRow
    PROVE  DisplayThere(i)'
<1>1. CASE objects[i] \subseteq objects'[i] /\ requests' = requests
  BY <1>1 DEF DisplayThere
<1>2. ASSUME NEW k \in Images, UploadStep(k) \/ UploadFail(k) \/ JobStep(k)
      PROVE  objects[i] \subseteq objects'[i] /\ requests' = requests
  <2>1. objects' = objects \/ \E o : objects' = [objects EXCEPT ![k] = @ \cup {o}]
    BY <1>2 DEF UploadStep, UploadStore, UploadCreate, UploadEnqueue, UploadFail,
       JobStep, Load, Mark, Fetch, Scan, Reject, PutDisplay, Accept, EnqueueConvert,
       Ack, Throw, FailedHandler
  <2>2. requests' = requests
    BY <1>2 DEF UploadStep, UploadStore, UploadCreate, UploadEnqueue, UploadFail,
       JobStep, Load, Mark, Fetch, Scan, Reject, PutDisplay, Accept, EnqueueConvert,
       Ack, Throw, FailedHandler
  <2>3. QED  BY <2>1, <2>2 DEF TypeOK
<1>3. ASSUME NEW r \in Requests, RequestMove(r) PROVE DisplayThere(i)'
  <2>0. \A q \in Requests \ {r} : requests'[q] = requests[q]
    BY <1>3 DEF TypeOK, RequestMove, ReprocessFind, RemoveFind, Find, RequestStep,
       RequestFail, ReprocessMark, ReprocessEnqueue, RemoveObjects, RemoveRow, ToPC
  <2>1. CASE RemoveRow(r)
    <3>1. rows'[requests[r].image] = NoRow
      BY <2>1, RequestImage, RowCases DEF RemoveRow, TypeOK
    <3>2. objects' = objects  BY <2>1 DEF RemoveRow
    <3>3. QED  BY <2>0, <3>1, <3>2 DEF DisplayThere
  <2>2. CASE RemoveObjects(r)
    <3> PICK l \in Images : l = requests[r].image
      BY <2>2, RequestImage DEF RemoveObjects
    <3>1. \A k \in Images \ {l} : objects'[k] = objects[k]
      BY <2>2 DEF RemoveObjects, TypeOK
    <3>2. requests'[r].image = l /\ requests'[r].pc = "row" /\ requests[r].pc # "row"
      BY <2>2, RequestImage DEF RemoveObjects, ToPC, TypeOK, Request
    <3>3. QED  BY <2>0, <3>1, <3>2 DEF DisplayThere
  <2>3. CASE ~RemoveRow(r) /\ ~RemoveObjects(r)
    <3>1. objects' = objects /\ requests[r].pc # "row"
      BY <1>3, <2>3 DEF NoRequestFaults, RequestMove, ReprocessFind, RemoveFind, Find,
         RequestStep, RequestFail, ReprocessMark, ReprocessEnqueue
    <3>2. QED  BY <2>0, <3>1 DEF DisplayThere
  <2>4. QED  BY <2>1, <2>2, <2>3
<1>4. ASSUME NEW x \in Images \cup Requests, MediaStep(x) PROVE DisplayThere(i)'
  BY <1>1, <1>4, MediaEffect
<1>5. CASE Interruption  BY <1>1, <1>5, InterruptionEffect DEF DisplayThere
<1>6. CASE UNCHANGED vars  BY <1>1, <1>6 DEF vars
<1>7. QED  BY <1>1, <1>2, <1>3, <1>4, <1>5, <1>6 DEF Next, RequestMove, Interruption

(* Which steps let a row have a display copy, or a HEIC image be accepted. *)
LEMMA DisplaySource ==
    ASSUME TypeOK, UploadNotOver, [Next]_vars, NEW i \in Images
    PROVE  /\ rows'[i].display => rows[i].display \/ (Accept(i) /\ i \in Heic)
           /\ jobs'[i].pc = "accept" /\ i \in Heic /\ Exists(i)' =>
                 (jobs[i].pc = "accept" /\ Exists(i)) \/ PutDisplay(i)
<1>1. ASSUME NEW k \in Images, UploadStep(k) \/ UploadFail(k)
      PROVE  /\ rows'[i].display => rows[i].display
             /\ jobs'[i].pc = "accept" /\ Exists(i)' => jobs[i].pc = "accept" /\ Exists(i)
  <2>1. CASE UploadCreate(k)
    <3>1. /\ jobs' = jobs /\ jobs[k].pc = "none" /\ rows'[k] = NewRow
          /\ \A l \in Images \ {k} : rows'[l] = rows[l]
      BY <2>1 DEF UploadCreate, UploadNotOver, TypeOK
    <3>2. QED  BY <3>1 DEF NewRow, Exists
  <2>2. CASE UploadEnqueue(k)
    BY <2>2 DEF UploadEnqueue, TypeOK, JobAt, Exists
  <2>3. CASE UploadStore(k) \/ UploadFail(k)
    BY <2>3 DEF UploadStore, UploadFail, Exists
  <2>4. QED  BY <1>1, <2>1, <2>2, <2>3 DEF UploadStep
<1>2. ASSUME NEW k \in Images, JobStep(k), k # i
      PROVE  jobs'[i] = jobs[i] /\ rows'[i] = rows[i]
  BY <1>2, AdvanceEffect
     DEF JobStep, Load, Mark, Fetch, Scan, Reject, PutDisplay, Accept,
         EnqueueConvert, Ack, Throw, FailedHandler, TypeOK, SetStatus, MarkAccepted
<1>3. ASSUME JobStep(i)
      PROVE  /\ rows'[i].display => rows[i].display \/ (Accept(i) /\ i \in Heic)
             /\ jobs'[i].pc = "accept" /\ i \in Heic => PutDisplay(i)
  <2>1. CASE rows' = rows
    <3>1. CASE Throw(i)  BY <2>1, <3>1 DEF Throw, JobAt, TypeOK
    <3>2. CASE Scan(i)
      <4>1. PICK pc : Advance(i, pc) /\ (i \in Heic => pc # "accept")
        BY <3>2 DEF Scan
      <4>2. jobs'[i].pc = pc  BY <4>1, AdvanceEffect
      <4>3. QED  BY <2>1, <4>1, <4>2
    <3>3. CASE ~Throw(i) /\ ~Scan(i)
      <4>1. PutDisplay(i) \/ \E pc \in JobPCs \ {"accept"} : Advance(i, pc)
        BY <1>3, <3>3 DEF JobStep, Load, Mark, Fetch, Reject, Accept, EnqueueConvert,
           Ack, FailedHandler, JobPCs, RunningPCs
      <4>2. PutDisplay(i) \/ jobs'[i].pc # "accept"  BY <4>1, AdvanceEffect
      <4>3. QED  BY <2>1, <4>2
    <3>4. QED  BY <3>1, <3>2, <3>3
  <2>2. CASE rows' # rows
    <3>1. Mark(i) \/ Reject(i) \/ FailedHandler(i) \/ Accept(i)
      BY <1>3, <2>2 DEF JobStep, Load, Fetch, Scan, PutDisplay, EnqueueConvert, Ack, Throw
    <3>2. jobs'[i].pc # "accept"
      BY <3>1, AdvanceEffect DEF Mark, Reject, FailedHandler, Accept
    <3>3. CASE Accept(i)
      <4>1. rows' = [rows EXCEPT ![i] = [status |-> "ACCEPTED", hash |-> TRUE,
                        display |-> rows[i].display \/ i \in Heic]]
        BY <3>3 DEF Accept, MarkAccepted
      <4>2. rows'[i] = [status |-> "ACCEPTED", hash |-> TRUE,
                        display |-> rows[i].display \/ i \in Heic]
        BY <4>1 DEF TypeOK
      <4>3. rows'[i].display = (rows[i].display \/ i \in Heic)  BY <4>2
      <4>4. QED  BY <3>2, <3>3, <4>3, Zenon
    <3>4. CASE ~Accept(i)
      <4>1. PICK status \in Statuses : Exists(i) /\ SetStatus(i, status)
        BY <2>2, <3>1, <3>4 DEF Mark, Reject, FailedHandler, Statuses, Validating
      <4>2. rows'[i].display = rows[i].display  BY <4>1, SetStatusEffect
      <4>3. QED  BY <3>2, <4>2
    <3>5. QED  BY <3>3, <3>4
  <2>3. QED  BY <2>1, <2>2
<1>4. ASSUME NEW x \in Images \cup Requests, MediaStep(x)
      PROVE  /\ rows'[i].display => rows[i].display
             /\ jobs' = jobs /\ (Exists(i)' => Exists(i))
  BY <1>4, MediaEffect DEF Exists
<1>5. ASSUME NEW r \in Requests, RequestMove(r)
      PROVE  /\ rows'[i].display => rows[i].display
             /\ jobs' = jobs /\ (Exists(i)' => Exists(i))
  BY <1>5, RequestEffect DEF Exists, NoRow
<1>6. CASE Interruption
  BY <1>6, InterruptionEffect DEF Exists
<1>7. CASE UNCHANGED vars
  BY <1>7 DEF vars, Exists
<1>8. ASSUME NEW k \in Images, JobStep(k)
      PROVE  /\ rows'[i].display => rows[i].display \/ (Accept(i) /\ i \in Heic)
             /\ jobs'[i].pc = "accept" /\ i \in Heic /\ Exists(i)' =>
                   (jobs[i].pc = "accept" /\ Exists(i)) \/ PutDisplay(i)
  BY <1>2, <1>3, <1>8 DEF Exists
<1>9. QED  BY <1>1, <1>4, <1>5, <1>6, <1>7, <1>8 DEF Next, RequestMove, Interruption

LEMMA NextDisplay ==
    ASSUME NoRequestFaults, TypeOK, UploadNotOver, DisplayInv, [Next]_vars
    PROVE  DisplayInv'
<1>1. ASSUME NEW i \in Images, rows'[i].display PROVE DisplayThere(i)'
  <2>1. rows'[i] # NoRow  BY <1>1 DEF NoRow
  <2>2. rows[i].display \/ (Accept(i) /\ i \in Heic)  BY <1>1, DisplaySource
  <2>3. DisplayThere(i)  BY <2>2 DEF DisplayInv, DisplayPut, Accept
  <2>4. QED  BY <2>1, <2>3, DisplayKept
<1>2. ASSUME NEW i \in Images, jobs'[i].pc = "accept", i \in Heic, Exists(i)'
      PROVE  DisplayThere(i)'
  <2>1. rows'[i] # NoRow  BY <1>2 DEF Exists, NoRow
  <2>2. CASE jobs[i].pc = "accept" /\ Exists(i)
    BY <1>2, <2>1, <2>2, DisplayKept DEF DisplayInv, DisplayPut
  <2>3. CASE PutDisplay(i)
    BY <2>3 DEF PutDisplay, DisplayThere, TypeOK
  <2>4. QED  BY <1>2, <2>2, <2>3, DisplaySource
<1>3. QED  BY <1>1, <1>2 DEF DisplayInv, DisplayPut

(* An image validated as HEIC has its display copy in the row and in S3,   *)
(* unless remove is between its two deletes, when no API request is cut    *)
(* short (image.worker.ts:80-97).                                          *)
THEOREM DisplayTheorem ==
    ASSUME NoRequestFaults
    PROVE  Spec => []DisplayBacked
<1>1. Init => DisplayInv
  BY DEF Init, DisplayInv, DisplayPut, NoRow, Exists
<1>2. ValidationInv /\ DisplayInv /\ [Next]_vars => DisplayInv'
  BY NoRequestFaults, NextDisplay DEF ValidationInv, TypeInv
<1>3. ValidationInv /\ DisplayInv => DisplayBacked
  BY DEF ValidationInv, DecisionInv, AcceptedHashed, DisplayInv, DisplayThere, DisplayBacked
<1>4. QED  BY <1>1, <1>2, <1>3, InvHolds, PTL DEF Spec

-----------------------------------------------------------------------------
(* Owners, when jobs and stages may fail and worker processes may stop, but*)
(* handlers and requests do not fail and no job stalls out.                *)

OnlyRetryFaults == Faults \subseteq {"job", "media"}

(* A convert job is added only after the outcome is written.               *)
EnqueueDecided == \A i \in Images : jobs[i].pc = "enqueue" => rows[i].status \notin Validating

(* The failed event comes after the last attempt.                          *)
FailingSpent == \A i \in Images : jobs[i].pc = "failing" => jobs[i].attempts = Attempts

OwnerInv == EnqueueDecided /\ FailingSpent /\ ValidationHasOwner

(* Steps that leave the jobs alone and put no row under validation.        *)
LEMMA OwnerFrame ==
    ASSUME OwnerInv, jobs' = jobs, uploads' = uploads,
           \A i \in Images : rows'[i] = rows[i] \/ rows'[i].status \notin Validating \cup {"ACCEPTED"},
           \A i \in Images : runs'[i] = "none" => runs[i] = "none"
    PROVE  OwnerInv'
<1>1. EnqueueDecided'  BY DEF OwnerInv, EnqueueDecided
<1>2. ValidationHasOwner'  BY DEF OwnerInv, ValidationHasOwner, Pending, Busy
<1>3. FailingSpent'  BY DEF OwnerInv, FailingSpent
<1>4. QED  BY <1>1, <1>2, <1>3 DEF OwnerInv

LEMMA ProcessorOwner ==
    ASSUME OnlyRetryFaults, TypeInv, UploadNotOver, OwnerInv, NEW i \in Images, JobStep(i)
    PROVE  OwnerInv'
<1> USE DEF TypeInv
<1>1. \A k \in Images \ {i} : jobs'[k] = jobs[k] /\ rows'[k] = rows[k] /\ runs'[k] = runs[k]
  BY AdvanceEffect
     DEF JobStep, Load, Mark, Fetch, Scan, Reject, PutDisplay, Accept,
         EnqueueConvert, Ack, Throw, FailedHandler, TypeOK, SetStatus, MarkAccepted
<1>2. uploads' = uploads
  BY DEF JobStep, Load, Mark, Fetch, Scan, Reject, PutDisplay, Accept,
     EnqueueConvert, Ack, Throw, FailedHandler
<1>3. /\ jobs'[i].pc = "enqueue" => rows'[i].status \notin Validating
      /\ rows'[i].status \in Validating => Pending(i)' \/ uploads[i] = "created"
      /\ rows'[i].status = "ACCEPTED" => Pending(i)' \/ runs'[i] # "none"
  <2>1. CASE Throw(i)
    <3>1. jobs'[i].pc \in {"waiting", "failing"}  BY <2>1 DEF Throw, JobAt, TypeOK
    <3>2. QED  BY <3>1 DEF Pending, Busy
  <2>2. CASE Load(i)
    <3>1. rows' = rows /\ jobs'[i].pc = IF Exists(i) THEN "mark" ELSE "ack"
      BY <2>2, AdvanceEffect DEF Load
    <3>2. QED  BY <3>1 DEF Pending, Busy, RunningPCs, Exists, Validating
  <2>3. CASE Mark(i) \/ Fetch(i) \/ Scan(i) \/ PutDisplay(i)
    <3>1. jobs'[i].pc \in {"fetch", "scan", "reject", "display", "accept"}
      BY <2>3, AdvanceEffect DEF Mark, Fetch, Scan, PutDisplay
    <3>2. QED  BY <3>1 DEF Pending, Busy, RunningPCs
  <2>4. CASE Reject(i) \/ FailedHandler(i)
    <3>1. jobs'[i].pc \in {"ack", "done"}
      BY <2>4, AdvanceEffect DEF Reject, FailedHandler
    <3>2. CASE Exists(i)
      <4>1. PICK status \in {"REJECTED", "FAILED"} : SetStatus(i, status)
        <5>1. FailedHandler(i) => jobs[i].attempts = Attempts
          BY DEF FailedHandler, OwnerInv, FailingSpent
        <5>2. Attempts \in Nat  BY ValidationAssumption DEF ValidationAssumption
        <5>3. QED  BY <2>4, <3>2, <5>1, <5>2 DEF Reject, FailedHandler, OnlyRetryFaults
      <4>2. status \in Statuses  BY DEF Statuses
      <4>3. rows'[i].status = status  BY <3>2, <4>1, <4>2, SetStatusEffect
      <4>4. QED  BY <3>1, <4>3 DEF Validating
    <3>3. CASE ~Exists(i)
      <4>1. rows' = rows  BY <2>4, <3>3 DEF Reject, FailedHandler
      <4>2. QED  BY <3>1, <3>3, <4>1 DEF Exists, Validating
    <3>4. QED  BY <3>2, <3>3
  <2>5. CASE Accept(i)
    <3>1. jobs'[i].pc = "enqueue"  BY <2>5, AdvanceEffect DEF Accept
    <3>2. rows' = [rows EXCEPT ![i] = [status |-> "ACCEPTED", hash |-> TRUE,
                      display |-> rows[i].display \/ i \in Heic]]
      BY <2>5 DEF Accept, MarkAccepted
    <3>3. rows'[i] = [status |-> "ACCEPTED", hash |-> TRUE,
                      display |-> rows[i].display \/ i \in Heic]
      BY <3>2 DEF TypeOK
    <3>4. rows'[i].status = "ACCEPTED"  BY <3>3
    <3>5. QED  BY <3>1, <3>4 DEF Pending, Busy, RunningPCs, Validating
  <2>6. CASE EnqueueConvert(i)
    <3>1. jobs'[i].pc = "ack" /\ rows' = rows /\ rows[i].status \notin Validating
      BY <2>6, AdvanceEffect DEF EnqueueConvert, OwnerInv, EnqueueDecided
    <3>2. runs'[i] # "none"  BY <2>6 DEF EnqueueConvert, TypeOK
    <3>3. QED  BY <3>1, <3>2
  <2>7. CASE Ack(i)
    <3>1. jobs'[i].pc = "done" /\ jobs[i].pc = "ack" /\ rows' = rows /\ runs' = runs
      BY <2>7, AdvanceEffect DEF Ack
    <3>2. ~Pending(i)  BY <3>1 DEF Pending, Busy, RunningPCs
    <3>3. QED  BY <3>1, <3>2 DEF OwnerInv, ValidationHasOwner
  <2>8. QED  BY <2>1, <2>2, <2>3, <2>4, <2>5, <2>6, <2>7 DEF JobStep
<1>4. EnqueueDecided'
  BY <1>1, <1>3 DEF OwnerInv, EnqueueDecided
<1>5. ValidationHasOwner'
  BY <1>1, <1>2, <1>3 DEF OwnerInv, ValidationHasOwner, Pending, Busy
<1>6. FailingSpent'
  <2>1. ASSUME jobs'[i].pc = "failing" PROVE jobs'[i].attempts = Attempts
    <3>1. Throw(i)
      BY <2>1, AdvanceEffect
         DEF JobStep, Load, Mark, Fetch, Scan, Reject, PutDisplay, Accept,
             EnqueueConvert, Ack, FailedHandler
    <3>2. /\ jobs[i].attempts < Attempts /\ jobs[i].attempts \in Nat /\ Attempts \in Nat
      BY <3>1, ValidationAssumption DEF Throw, TypeOK, Job, ValidationAssumption
    <3>3. /\ jobs'[i].attempts = jobs[i].attempts + 1
          /\ ~(jobs[i].attempts + 1 < Attempts)
      BY <2>1, <3>1 DEF Throw, JobAt, TypeOK
    <3>4. QED  BY <3>2, <3>3
  <2>2. QED  BY <1>1, <2>1 DEF OwnerInv, FailingSpent
<1>7. QED  BY <1>4, <1>5, <1>6 DEF OwnerInv

LEMMA NextOwner ==
    ASSUME OnlyRetryFaults, TypeInv, UploadNotOver, OwnerInv, [Next]_vars
    PROVE  OwnerInv'
<1>0. TypeOK  BY DEF TypeInv
<1>1. ASSUME NEW i \in Images, UploadStep(i) \/ UploadFail(i) PROVE OwnerInv'
  <2>1. CASE UploadStore(i)
    <3>1. UNCHANGED <<rows, jobs, runs>> /\ \A k \in Images : uploads[k] = "created" => uploads'[k] = "created"
      BY <1>0, <2>1 DEF UploadStore, TypeOK
    <3>2. QED
      BY <3>1 DEF OwnerInv, EnqueueDecided, FailingSpent, ValidationHasOwner, Pending, Busy
  <2>2. CASE UploadCreate(i)
    <3>1. /\ jobs[i].pc = "none" /\ UNCHANGED <<jobs, runs>> /\ uploads'[i] = "created"
          /\ rows'[i] = NewRow
          /\ \A k \in Images \ {i} : rows'[k] = rows[k] /\ uploads'[k] = uploads[k]
      BY <1>0, <2>2 DEF UploadCreate, UploadNotOver, TypeOK
    <3>2. EnqueueDecided'  BY <3>1 DEF OwnerInv, EnqueueDecided
    <3>3. ValidationHasOwner'
      BY <3>1 DEF OwnerInv, ValidationHasOwner, Pending, Busy, NewRow
    <3>4. FailingSpent'  BY <3>1 DEF OwnerInv, FailingSpent
    <3>5. QED  BY <3>2, <3>3, <3>4 DEF OwnerInv
  <2>3. CASE UploadEnqueue(i)
    <3>1. /\ jobs'[i].pc = "waiting" /\ UNCHANGED <<rows, runs>>
          /\ \A k \in Images \ {i} : jobs'[k] = jobs[k] /\ uploads'[k] = uploads[k]
      BY <1>0, <2>3 DEF UploadEnqueue, TypeOK, JobAt
    <3>2. EnqueueDecided'  BY <3>1 DEF OwnerInv, EnqueueDecided
    <3>3. ValidationHasOwner'  BY <3>1 DEF OwnerInv, ValidationHasOwner, Pending, Busy
    <3>4. FailingSpent'  BY <3>1 DEF OwnerInv, FailingSpent
    <3>5. QED  BY <3>2, <3>3, <3>4 DEF OwnerInv
  <2>4. ~UploadFail(i)  BY DEF UploadFail, OnlyRetryFaults
  <2>5. QED  BY <1>1, <2>1, <2>2, <2>3, <2>4 DEF UploadStep
<1>2. ASSUME NEW i \in Images, JobStep(i) PROVE OwnerInv'
  BY <1>2, ProcessorOwner
<1>3. ASSUME NEW x \in Images \cup Requests, MediaStep(x) PROVE OwnerInv'
  BY <1>0, <1>3, MediaEffect, OwnerFrame DEF Validating
<1>4. ASSUME NEW r \in Requests, RequestMove(r) PROVE OwnerInv'
  BY <1>0, <1>4, RequestEffect, OwnerFrame DEF Validating, NoRow
<1>5. CASE Interruption
  <2>1. /\ \A i \in Images : jobs'[i] = jobs[i] \/ jobs'[i].pc = "waiting"
        /\ UNCHANGED <<rows, runs, uploads>>
    BY <1>0, <1>5, InterruptionEffect DEF OnlyRetryFaults
  <2>2. QED
    BY <2>1 DEF OwnerInv, EnqueueDecided, FailingSpent, ValidationHasOwner, Pending, Busy
<1>6. CASE UNCHANGED vars
  BY <1>6, OwnerFrame DEF vars
<1>7. QED  BY <1>1, <1>2, <1>3, <1>4, <1>5, <1>6 DEF Next, RequestMove, Interruption

(* An image under validation, or accepted, has someone to move it on (or a *)
(* convert job that has run before), as long as failure handlers and API   *)
(* requests do not fail and no job stalls beyond BullMQ's limit, where the *)
(* test of image.worker.ts:120 leaves the row alone: no retry, redelivery, *)
(* reprocess or remove loses it (image.worker.ts:109,                      *)
(* pipeline-queues.ts:49-50).                                              *)
THEOREM OwnerTheorem ==
    ASSUME OnlyRetryFaults
    PROVE  Spec => []ValidationHasOwner
<1>1. Init => OwnerInv
  BY DEF Init, OwnerInv, EnqueueDecided, FailingSpent, ValidationHasOwner, NoRow, Validating, JobAt
<1>2. ValidationInv /\ OwnerInv /\ [Next]_vars => OwnerInv'
  BY OnlyRetryFaults, NextOwner DEF ValidationInv, TypeInv
<1>3. OwnerInv => ValidationHasOwner  BY DEF OwnerInv
<1>4. QED  BY <1>1, <1>2, <1>3, InvHolds, PTL DEF Spec
-----------------------------------------------------------------------------
(* The refinement.                                                         *)

(* Past the rules there is no image that breaks one.                       *)
RulesKept == \A i \in Images : jobs[i].pc \in {"scan", "display", "accept"} => i \notin Unsound

LEMMA RulesFrame ==
    ASSUME RulesKept,
           \A i \in Images : jobs'[i].pc \in {"scan", "display", "accept"} =>
               jobs[i].pc \in {"scan", "display", "accept"} \/ i \notin Unsound
    PROVE  RulesKept'
  BY DEF RulesKept

LEMMA NextRules ==
    ASSUME TypeOK, RulesKept, [Next]_vars
    PROVE  RulesKept'
<1>1. ASSUME NEW i \in Images, UploadStep(i) \/ UploadFail(i) PROVE RulesKept'
  <2>1. \A k \in Images : jobs'[k] = jobs[k] \/ jobs'[k].pc = "waiting"
    BY <1>1 DEF UploadStep, UploadStore, UploadCreate, UploadEnqueue, UploadFail, JobAt, TypeOK
  <2>2. QED  BY <2>1, RulesFrame
<1>2. ASSUME NEW i \in Images, JobStep(i) PROVE RulesKept'
  <2>1. CASE Throw(i)
    <3>1. jobs'[i].pc \in {"waiting", "failing"} /\ \A k \in Images \ {i} : jobs'[k] = jobs[k]
      BY <2>1 DEF Throw, JobAt, TypeOK
    <3>2. QED  BY <3>1, RulesFrame
  <2>2. CASE ~Throw(i)
    <3>1. PICK pc : /\ Advance(i, pc)
                    /\ pc \in {"scan", "display", "accept"} =>
                          jobs[i].pc \in {"scan", "display", "accept"} \/ i \notin Unsound
      BY <1>2, <2>2 DEF JobStep, Load, Mark, Fetch, Scan, Reject, PutDisplay, Accept,
         EnqueueConvert, Ack, FailedHandler
    <3>2. jobs'[i].pc = pc /\ \A k \in Images \ {i} : jobs'[k] = jobs[k]
      BY <3>1, AdvanceEffect
    <3>3. QED  BY <3>1, <3>2, RulesFrame
  <2>3. QED  BY <2>1, <2>2
<1>3. ASSUME NEW x \in Images \cup Requests, MediaStep(x) PROVE RulesKept'
  BY <1>3, MediaEffect, RulesFrame
<1>4. ASSUME NEW r \in Requests, RequestMove(r) PROVE RulesKept'
  BY <1>4, RequestEffect, RulesFrame
<1>5. CASE Interruption
  <2>1. \A i \in Images : jobs'[i] = jobs[i] \/ jobs'[i].pc \in {"waiting", "failing"}
    BY <1>5, InterruptionEffect
  <2>2. QED  BY <2>1, RulesFrame
<1>6. CASE UNCHANGED vars  BY <1>6, RulesFrame DEF vars
<1>7. QED  BY <1>1, <1>2, <1>3, <1>4, <1>5, <1>6 DEF Next, RequestMove, Interruption

RefinementInv == ValidationInv /\ RulesKept

LEMMA RefinementInvHolds == Spec => []RefinementInv
<1>1. Init => RulesKept  BY DEF Init, RulesKept, JobAt
<1>2. ValidationInv /\ RulesKept /\ [Next]_vars => RulesKept'
  BY NextRules DEF ValidationInv, TypeInv
<1>3. Spec => []RulesKept  BY <1>1, <1>2, InvHolds, PTL DEF Spec
<1>4. QED  BY <1>3, InvHolds, PTL DEF RefinementInv

(* The refinement mapping, by its parts.                                   *)
Presence(i) ==
    IF Exists(i) THEN "live" ELSE IF uploads[i] \in {"new", "stored"} THEN "absent" ELSE "gone"

AdmissionStep == [Admitted!AdmissionNext]_(Admitted!admissionVars)

(* An image with a row or with a job is past the creation of its row.      *)
LEMMA CreatedBefore ==
    ASSUME UploadNotOver, NEW i \in Images, jobs[i].pc # "none" \/ Exists(i)
    PROVE  uploads[i] \notin {"new", "stored"}
  BY DEF UploadNotOver

(* Steps in which no row changes, but in which judgements may end.         *)
LEMMA BreakOffStep ==
    ASSUME rows' = rows, overlapped' = overlapped,
           \A i \in Images : Presence(i)' = Presence(i),
           \A i \in Images : Busy(i)' => Busy(i),
           \A i \in Images : runs[i] = "none" <=> runs'[i] = "none"
    PROVE  AdmissionStep
<1> DEFINE S == {i \in Images : Busy(i) /\ ~Busy(i)'}
<1>1. Admitted!BreakOff(S)
  BY DEF Admitted!BreakOff, Presence, Exists
<1>2. S \in SUBSET {i \in Images : Busy(i)}  OBVIOUS
<1>3. QED  BY <1>1, <1>2 DEF AdmissionStep, Admitted!AdmissionNext

(* Steps that give one image a status other than ACCEPTED.                 *)
LEMMA MoveOnStep ==
    ASSUME NEW i \in Images, Exists(i), Exists(i)', UNCHANGED <<uploads, overlapped>>,
           rows'[i].status # "ACCEPTED", rows'[i].hash = rows[i].hash,
           \A k \in Images \ {i} : rows'[k] = rows[k],
           \A k \in Images : Busy(k)' <=> Busy(k),
           \A k \in Images : runs[k] = "none" <=> runs'[k] = "none"
    PROVE  AdmissionStep
<1>1. \A k \in Images : Exists(k)' <=> Exists(k)  BY DEF Exists
<1>2. Admitted!MoveOn(i)
  BY <1>1 DEF Admitted!MoveOn, Exists
<1>3. QED  BY <1>2 DEF AdmissionStep, Admitted!AdmissionNext
LEMMA UploadRefines ==
    ASSUME TypeOK, UploadNotOver, NEW i \in Images, UploadStep(i) \/ UploadFail(i)
    PROVE  AdmissionStep
<1>1. UNCHANGED <<overlapped, runs>> /\ \A k \in Images \ {i} : uploads'[k] = uploads[k]
  BY DEF UploadStep, UploadStore, UploadCreate, UploadEnqueue, UploadFail, TypeOK
<1>2. \A k \in Images : jobs'[k] = jobs[k] \/ jobs'[k].pc = "waiting"
  BY DEF UploadStep, UploadStore, UploadCreate, UploadEnqueue, UploadFail, JobAt, TypeOK
<1>3. \A k \in Images : Busy(k)' => Busy(k)  BY <1>2 DEF Busy, RunningPCs
<1>4. CASE /\ rows' = rows
           /\ uploads[i] \in {"new", "stored"} <=> uploads'[i] \in {"new", "stored"}
  <2>1. \A k \in Images : Presence(k)' = Presence(k)  BY <1>1, <1>4 DEF Presence, Exists
  <2>2. QED  BY <1>1, <1>3, <1>4, <2>1, BreakOffStep
<1>5. CASE UploadCreate(i)
  <2>1. /\ uploads[i] = "stored" /\ uploads'[i] = "created" /\ ~Exists(i) /\ jobs' = jobs
        /\ rows'[i] = NewRow /\ \A k \in Images \ {i} : rows'[k] = rows[k]
    BY <1>5 DEF UploadCreate, UploadNotOver, TypeOK
  <2>2. rows[i] = NoRow  BY <2>1, RowCases
  <2>3. /\ rows[i].status = "NONE" /\ rows[i].hash = FALSE
        /\ rows'[i].status = "PENDING" /\ rows'[i].hash = FALSE
    BY <2>1, <2>2 DEF NoRow, NewRow
  <2>4. Admitted!Appear(i)
    BY <1>1, <2>1, <2>3 DEF Admitted!Appear, Exists, Busy
  <2>5. QED  BY <2>4 DEF AdmissionStep, Admitted!AdmissionNext
<1>6. CASE UploadFail(i) /\ uploads[i] \in {"new", "stored"}
  <2>1. rows' = rows /\ jobs' = jobs /\ uploads'[i] = "failed" /\ ~Exists(i)
    BY <1>6 DEF UploadFail, UploadNotOver, TypeOK
  <2>2. Admitted!NeverAppear(i)
    BY <1>1, <1>6, <2>1 DEF Admitted!NeverAppear, Exists, Busy
  <2>3. QED  BY <2>2 DEF AdmissionStep, Admitted!AdmissionNext
<1>7. QED
  <2>1. CASE UploadStore(i)
    BY <1>4, <2>1 DEF UploadStore, TypeOK
  <2>2. CASE UploadEnqueue(i)
    BY <1>4, <2>2 DEF UploadEnqueue, TypeOK
  <2>3. CASE UploadFail(i) /\ uploads[i] = "created"
    BY <1>4, <2>3 DEF UploadFail, TypeOK
  <2>4. QED  BY <1>5, <1>6, <2>1, <2>2, <2>3 DEF UploadStep, UploadFail

LEMMA BeginRefines ==
    ASSUME TypeOK, NEW i \in Images, Load(i), Exists(i)
    PROVE  AdmissionStep
<1>1. /\ UNCHANGED <<rows, uploads, runs>> /\ jobs[i].pc = "waiting" /\ Advance(i, "mark")
      /\ overlapped' = overlapped \cup {{i, k} : k \in {l \in Images : Busy(l)}}
  BY DEF Load
<1>2. jobs'[i].pc = "mark" /\ \A k \in Images \ {i} : jobs'[k] = jobs[k]
  BY <1>1, AdvanceEffect
<1>3. ~Busy(i) /\ Busy(i)' /\ \A k \in Images \ {i} : Busy(k)' <=> Busy(k)
  BY <1>1, <1>2 DEF Busy, RunningPCs
<1>4. {k \in Images : Busy(k)}' = {k \in Images : Busy(k)} \cup {i}  BY <1>3
<1>5. Admitted!Begin(i)
  BY <1>1, <1>3, <1>4 DEF Admitted!Begin, Exists
<1>6. QED  BY <1>5 DEF AdmissionStep, Admitted!AdmissionNext

LEMMA RefuseRefines ==
    ASSUME TypeOK, NEW i \in Images, Reject(i)
    PROVE  AdmissionStep
<1>1. /\ UNCHANGED <<uploads, runs, overlapped>> /\ jobs[i].pc = "reject" /\ Exists(i)
      /\ SetStatus(i, "REJECTED") /\ Advance(i, "ack")
  BY DEF Reject
<1>2. jobs'[i].pc = "ack" /\ \A k \in Images \ {i} : jobs'[k] = jobs[k]
  BY <1>1, AdvanceEffect
<1>3. /\ rows'[i].status = "REJECTED" /\ Exists(i)' /\ rows'[i].hash = rows[i].hash
      /\ \A k \in Images \ {i} : rows'[k] = rows[k]
  BY <1>1, SetStatusEffect DEF Statuses
<1>4. Busy(i) /\ ~Busy(i)' /\ \A k \in Images \ {i} : Busy(k)' <=> Busy(k)
  BY <1>1, <1>2 DEF Busy, RunningPCs
<1>5. \A k \in Images : Exists(k)' <=> Exists(k)  BY <1>1, <1>3 DEF Exists
<1>6. Admitted!Refuse(i)
  BY <1>1, <1>3, <1>4, <1>5 DEF Admitted!Refuse, Exists
<1>7. QED  BY <1>6 DEF AdmissionStep, Admitted!AdmissionNext

LEMMA PassRefines ==
    ASSUME TypeOK, DecisionInv, RulesKept, NEW i \in Images, Accept(i)
    PROVE  AdmissionStep
<1>1. /\ UNCHANGED <<uploads, runs, overlapped>> /\ jobs[i].pc = "accept" /\ Exists(i)
      /\ MarkAccepted(i) /\ Advance(i, "enqueue")
  BY DEF Accept
<1>2. jobs'[i].pc = "enqueue" /\ \A k \in Images \ {i} : jobs'[k] = jobs[k]
  BY <1>1, AdvanceEffect
<1>3. /\ rows'[i].status = "ACCEPTED" /\ rows'[i].hash = TRUE
      /\ \A k \in Images \ {i} : rows'[k] = rows[k]
  BY <1>1 DEF MarkAccepted, TypeOK
<1>4. Busy(i) /\ Busy(i)' /\ \A k \in Images : Busy(k)' <=> Busy(k)
  BY <1>1, <1>2 DEF Busy, RunningPCs
<1>5. \A k \in Images : Exists(k)' <=> Exists(k)  BY <1>1, <1>3 DEF Exists
<1>6. i \notin Unsound  BY <1>1 DEF RulesKept
<1>7. \A k \in {k \in Images : rows[k].status = "ACCEPTED"} \ {i} :
         {i, k} \in Similar => {i, k} \in overlapped
  BY <1>1 DEF DecisionInv, ScanStillHolds
<1>8. Admitted!Pass(i)
  <2>1. {k \in Images : rows[k].hash}' = {k \in Images : rows[k].hash} \cup {i}
    BY <1>3
  <2>2. {k \in Images : rows[k].status = "ACCEPTED"}'
        = {k \in Images : rows[k].status = "ACCEPTED"} \cup {i}
    BY <1>3
  <2>3. {k \in Images : Busy(k)}' = {k \in Images : Busy(k)}  BY <1>4
  <2>4. QED
    BY <1>1, <1>4, <1>5, <1>6, <1>7, <2>1, <2>2, <2>3 DEF Admitted!Pass, Exists
<1>9. QED  BY <1>8 DEF AdmissionStep, Admitted!AdmissionNext

LEMMA EnterRefines ==
    ASSUME TypeOK, UploadNotOver, DecisionInv, NEW i \in Images, EnqueueConvert(i)
    PROVE  AdmissionStep
<1>1. UNCHANGED <<rows, uploads, overlapped>> /\ jobs[i].pc = "enqueue" /\ Advance(i, "ack")
  BY DEF EnqueueConvert
<1>2. jobs'[i].pc = "ack" /\ \A k \in Images \ {i} : jobs'[k] = jobs[k]
  BY <1>1, AdvanceEffect
<1>3. runs'[i] # "none" /\ \A k \in Images \ {i} : runs'[k] = runs[k]
  BY DEF EnqueueConvert, TypeOK
<1>4. Busy(i) /\ ~Busy(i)' /\ \A k \in Images \ {i} : Busy(k)' <=> Busy(k)
  BY <1>1, <1>2 DEF Busy, RunningPCs
<1>5. rows[i].hash \/ Presence(i) = "gone"
  <2>1. CASE Exists(i)  BY <1>1, <2>1 DEF DecisionInv, AcceptedHashed
  <2>2. CASE ~Exists(i)  BY <1>1, <2>2, CreatedBefore DEF Presence
  <2>3. QED  BY <2>1, <2>2
<1>6. Admitted!Enter(i)
  <2>1. {k \in Images : runs[k] # "none"}' = {k \in Images : runs[k] # "none"} \cup {i}
    BY <1>3
  <2>2. {k \in Images : Busy(k)}' = {k \in Images : Busy(k)} \ {i}  BY <1>4
  <2>3. i \in {k \in Images : Busy(k)}  BY <1>4
  <2>4. QED
    BY <1>1, <1>5, <2>1, <2>2, <2>3 DEF Admitted!Enter, Exists, Presence
<1>7. QED  BY <1>6 DEF AdmissionStep, Admitted!AdmissionNext

LEMMA OtherJobRefines ==
    ASSUME TypeOK, UploadNotOver, NEW i \in Images,
           \/ Load(i) /\ ~Exists(i)
           \/ Mark(i) \/ Fetch(i) \/ Scan(i) \/ PutDisplay(i) \/ Ack(i)
           \/ Throw(i) \/ FailedHandler(i)
    PROVE  AdmissionStep
<1>1. UNCHANGED <<uploads, runs, overlapped>>
  BY DEF Load, Mark, Fetch, Scan, PutDisplay, Ack, Throw, FailedHandler
<1>2. \A k \in Images \ {i} : jobs'[k] = jobs[k]
  BY AdvanceEffect DEF Load, Mark, Fetch, Scan, PutDisplay, Ack, Throw, FailedHandler, TypeOK
<1>3. Busy(i)' => Busy(i)
  <2>1. CASE Throw(i)
    BY <2>1 DEF Throw, JobAt, Busy, RunningPCs, TypeOK
  <2>2. CASE (Load(i) /\ ~Exists(i)) \/ Mark(i) \/ Fetch(i) \/ Scan(i) \/ PutDisplay(i)
             \/ Ack(i) \/ FailedHandler(i)
    BY <2>2, AdvanceEffect DEF Load, Mark, Fetch, Scan, PutDisplay, Ack, FailedHandler,
       Busy, RunningPCs
  <2>3. QED  BY <2>1, <2>2
<1>4. CASE rows' = rows
  <2>1. \A k \in Images : Presence(k)' = Presence(k)  BY <1>1, <1>4 DEF Presence, Exists
  <2>2. \A k \in Images : Busy(k)' => Busy(k)  BY <1>2, <1>3 DEF Busy
  <2>3. QED  BY <1>1, <1>4, <2>1, <2>2, BreakOffStep
<1>5. CASE rows' # rows
  <2>1. PICK status \in {"PROCESSING", "FAILED"} :
           /\ Exists(i) /\ SetStatus(i, status)
           /\ Mark(i) \/ FailedHandler(i)
    BY <1>5 DEF Load, Mark, Fetch, Scan, PutDisplay, Ack, Throw, FailedHandler
  <2>2. status \in Statuses  BY DEF Statuses, Validating
  <2>3. /\ rows'[i].status = status /\ Exists(i)' /\ rows'[i].hash = rows[i].hash
        /\ \A k \in Images \ {i} : rows'[k] = rows[k]
    BY <2>1, <2>2, SetStatusEffect
  <2>4. Busy(i)' <=> Busy(i)
    BY <2>1, AdvanceEffect DEF Mark, FailedHandler, Busy, RunningPCs
  <2>5. \A k \in Images : Busy(k)' <=> Busy(k)  BY <1>2, <2>4 DEF Busy
  <2>6. QED  BY <1>1, <2>1, <2>3, <2>5, MoveOnStep
<1>6. QED  BY <1>4, <1>5

LEMMA MediaRefines ==
    ASSUME TypeOK, NEW x \in Images \cup Requests, MediaStep(x)
    PROVE  AdmissionStep
<1>1. /\ \A y \in Images \cup Requests : runs[y] = "none" <=> runs'[y] = "none"
      /\ UNCHANGED <<uploads, jobs, overlapped>>
  BY MediaEffect
<1>2. \A k \in Images : Busy(k)' <=> Busy(k)  BY <1>1 DEF Busy
<1>3. CASE rows' = rows
  <2>1. \A k \in Images : Presence(k)' = Presence(k)  BY <1>1, <1>3 DEF Presence, Exists
  <2>2. QED  BY <1>1, <1>2, <1>3, <2>1, BreakOffStep
<1>4. CASE rows' # rows
  <2>1. PICK status \in {"PROCESSING_CONVERT", "COMPLETED", "FAILED"} :
           Exists(RunImage(x)) /\ SetStatus(RunImage(x), status)
    BY <1>4 DEF MediaStep, MediaStart, MediaEnd, MediaGone
  <2>2. status \in Statuses  BY DEF Statuses
  <2>3. RunImage(x) \in Images  BY <1>4, <2>1 DEF SetStatus, TypeOK
  <2> PICK i \in Images : i = RunImage(x)  BY <2>3
  <2>4. /\ rows'[i].status = status /\ Exists(i)' /\ rows'[i].hash = rows[i].hash
        /\ \A k \in Images \ {i} : rows'[k] = rows[k]
    BY <2>1, <2>2, SetStatusEffect
  <2>5. QED  BY <1>1, <1>2, <2>1, <2>4, MoveOnStep
<1>5. QED  BY <1>3, <1>4

LEMMA RequestRefines ==
    ASSUME TypeOK, UploadNotOver, NEW r \in Requests, RequestMove(r)
    PROVE  AdmissionStep
<1>1. UNCHANGED <<uploads, jobs, overlapped>> /\ \A i \in Images : runs'[i] = runs[i]
  BY RequestEffect
<1>2. \A k \in Images : Busy(k)' <=> Busy(k)  BY <1>1 DEF Busy
<1>3. CASE rows' = rows
  <2>1. \A k \in Images : Presence(k)' = Presence(k)  BY <1>1, <1>3 DEF Presence, Exists
  <2>2. QED  BY <1>1, <1>2, <1>3, <2>1, BreakOffStep
<1>4. CASE rows' # rows
  <2>1. \/ /\ requests[r].pc = "mark" /\ Exists(requests[r].image)
           /\ SetStatus(requests[r].image, "PROCESSING_CONVERT")
        \/ /\ requests[r].pc = "row" /\ Exists(requests[r].image)
           /\ rows' = [rows EXCEPT ![requests[r].image] = NoRow]
    BY <1>4 DEF RequestMove, ReprocessFind, RemoveFind, Find, RequestStep,
       RequestFail, ReprocessMark, ReprocessEnqueue, RemoveObjects, RemoveRow
  <2> PICK i \in Images : i = requests[r].image  BY <2>1, RequestImage
  <2>2. CASE Exists(i) /\ SetStatus(i, "PROCESSING_CONVERT")
    <3>1. "PROCESSING_CONVERT" \in Statuses  BY DEF Statuses
    <3>2. /\ rows'[i].status = "PROCESSING_CONVERT" /\ Exists(i)'
          /\ rows'[i].hash = rows[i].hash
          /\ \A k \in Images \ {i} : rows'[k] = rows[k]
      BY <2>2, <3>1, SetStatusEffect
    <3>3. QED  BY <1>1, <1>2, <2>2, <3>2, MoveOnStep
  <2>3. CASE Exists(i) /\ rows' = [rows EXCEPT ![i] = NoRow]
    <3>1. rows'[i] = NoRow /\ \A k \in Images \ {i} : rows'[k] = rows[k]
      BY <2>3 DEF TypeOK
    <3>2. rows'[i].status = "NONE" /\ rows'[i].hash = FALSE  BY <3>1 DEF NoRow
    <3>3. uploads[i] \notin {"new", "stored"}  BY <2>3, CreatedBefore
    <3>4. Admitted!Vanish(i)
      BY <1>1, <1>2, <2>3, <3>1, <3>2, <3>3 DEF Admitted!Vanish, Exists
    <3>5. QED  BY <3>4 DEF AdmissionStep, Admitted!AdmissionNext
  <2>4. QED  BY <2>1, <2>2, <2>3
<1>5. QED  BY <1>3, <1>4

(* Validation implements Admission, for every set of images and requests,  *)
(* every similarity and every choice of faults: whatever is retried,       *)
(* redelivered, reprocessed or removed, an image passes only when it       *)
(* breaks no rule and no similar image stands accepted but one judged at   *)
(* the same time, and only then enters the media pipeline by itself        *)
(* (image.worker.ts:34-137, image.service.ts:71-106, 151-194).             *)
THEOREM ValidationImplementsAdmission == Spec => ImplementsAdmission
<1>1. Init => Admitted!AdmissionInit
  <2> SUFFICES ASSUME Init PROVE Admitted!AdmissionInit  OBVIOUS
  <2>1. \A i \in Images : /\ uploads[i] = "new" /\ rows[i].status = "NONE"
                          /\ rows[i].hash = FALSE /\ jobs[i].pc = "none" /\ runs[i] = "none"
    BY DEF Init, NoRow, JobAt
  <2>2. \A i \in Images : ~Busy(i)  BY <2>1 DEF Busy, RunningPCs
  <2>3. overlapped = {}  BY DEF Init
  <2>4. QED  BY <2>1, <2>2, <2>3 DEF Admitted!AdmissionInit, Exists
<1>2. RefinementInv /\ [Next]_vars => AdmissionStep
  <2> SUFFICES ASSUME RefinementInv, [Next]_vars PROVE AdmissionStep  OBVIOUS
  <2> USE DEF RefinementInv, ValidationInv, TypeInv
  <2>1. ASSUME NEW i \in Images, UploadStep(i) \/ UploadFail(i) PROVE AdmissionStep
    BY <2>1, UploadRefines
  <2>2. ASSUME NEW i \in Images, JobStep(i) PROVE AdmissionStep
    BY <2>2, BeginRefines, RefuseRefines, PassRefines, EnterRefines, OtherJobRefines
       DEF JobStep
  <2>3. ASSUME NEW x \in Images \cup Requests, MediaStep(x) PROVE AdmissionStep
    BY <2>3, MediaRefines
  <2>4. ASSUME NEW r \in Requests, RequestMove(r) PROVE AdmissionStep
    BY <2>4, RequestRefines
  <2>5. ASSUME Interruption \/ UNCHANGED vars PROVE AdmissionStep
    <3>1. /\ UNCHANGED <<rows, uploads, runs, overlapped>>
          /\ \A i \in Images : jobs'[i] = jobs[i] \/ jobs'[i].pc \in {"waiting", "failing"}
      BY <2>5, InterruptionEffect DEF vars
    <3>2. \A i \in Images : Presence(i)' = Presence(i)  BY <3>1 DEF Presence, Exists
    <3>3. \A i \in Images : Busy(i)' => Busy(i)  BY <3>1 DEF Busy, RunningPCs
    <3>4. QED  BY <3>1, <3>2, <3>3, BreakOffStep
  <2>6. QED  BY <2>1, <2>2, <2>3, <2>4, <2>5 DEF Next, RequestMove, Interruption
<1>3. QED
  BY <1>1, <1>2, RefinementInvHolds, PTL
     DEF Spec, ImplementsAdmission, Admitted!AdmissionSpec, AdmissionStep
=============================================================================
