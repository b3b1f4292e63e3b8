------------------------ MODULE MediaPipelineTheorems ------------------------
(***************************************************************************)
(* What follows from the types and the inductive invariant of the media    *)
(* pipeline: no image in progress is stranded, the original of an image is *)
(* kept, and the pipeline implements ArtifactLadder.                       *)
(***************************************************************************)
EXTENDS MediaPipelineInvariant

-----------------------------------------------------------------------------
(***************************************************************************)
(* No image is stranded by transient errors, retries, redelivered jobs and *)
(* concurrent runs alone: when no API request and no final-failure handler *)
(* is cut short and BullMQ gives no job up early, an image in progress     *)
(* always has someone who will move it on.                                 *)
(***************************************************************************)

(* Only transient errors of stage processors (and crashes) happen.         *)
OnlyJobFaults == Faults \subseteq {"job"}

(* A job is given up only with its attempts used, so that the handler does *)
(* not return early.                                                       *)
GivenUpIsSpent == \A j \in Jobs : jobs[j].pc = "failing" => jobs[j].attempts = Attempts

OwnerInv == InProgressHasOwner /\ GivenUpIsSpent

Owns(j, i) == jobs[j].image = i /\ jobs[j].pc \notin {"free", "ack"}

(* The owners of an image a step does not concern are still there.         *)
LEMMA OwnedFrame ==
    ASSUME NEW i \in Images, Owned(i), seeds'[i] = seeds[i],
           \A j \in Jobs : Owns(j, i) => Owns(j, i)' \/ \E k \in Jobs : Owns(k, i)',
           \A r \in Requests : requests[r].image = i /\ requests[r].pc = "enqueue" =>
              \/ requests'[r].image = i /\ requests'[r].pc = "enqueue"
              \/ \E k \in Jobs : Owns(k, i)'
    PROVE  Owned(i)'
  BY DEF Owned, Owns

LEMMA StageStepOwned ==
    ASSUME TypeOK, OwnerInv, NEW j \in Jobs, StageStep(j)
    PROVE  OwnerInv'
<1>0. jobs[j] \in JobRecord /\ Live(j) /\ jobs[j].pc # "failing"
  <2>1. Live(j) /\ jobs[j].pc # "failing"
    BY DEF StageStep, Live, Load, Mark, Fetch, Store, Record, Handoff, RenderPut,
           RenderUpsert, Complete, Ack
  <2>2. QED  BY <2>1, LiveIsJob
<1> PICK i \in Images : i = jobs[j].image  BY <1>0 DEF JobRecord
(* A step after which j still owns its image, or that settles it.          *)
<1>q. ASSUME \A k \in Jobs \ {j} : jobs'[k] = jobs[k], jobs'[j].pc # "failing",
             \A l \in Images \ {i} : rows'[l] = rows[l],
             Owns(j, i)' \/ rows'[i].status \notin InProgress
             \/ (\E k \in Jobs \ {j} : Owns(k, i)'),
             UNCHANGED <<seeds, requests>>
      PROVE  OwnerInv'
  <2>1. GivenUpIsSpent'
    BY <1>q DEF OwnerInv, GivenUpIsSpent
  <2>2. ASSUME NEW l \in Images, rows'[l].status \in InProgress PROVE Owned(l)'
    <3>1. CASE l = i
      BY <1>q, <2>2, <3>1 DEF Owned, Owns
    <3>2. CASE l # i
      <4>1. Owned(l)  BY <1>q, <2>2, <3>2 DEF OwnerInv, InProgressHasOwner
      <4>2. \A k \in Jobs : Owns(k, l) => Owns(k, l)'
        BY <1>q, <3>2 DEF Owns
      <4>3. QED  BY <1>q, <4>1, <4>2, OwnedFrame
    <3>3. QED  BY <3>1, <3>2
  <2>3. QED  BY <2>1, <2>2 DEF OwnerInv, InProgressHasOwner
<1>1. CASE Load(j)
  <2>1. rows' = rows  BY <1>1 DEF Load
  <2>2. CASE ~Exists(i) /\ Advance(j, "ack")
    <3>1. /\ \A k \in Jobs \ {j} : jobs'[k] = jobs[k]
          /\ jobs'[j].pc = "ack"
      BY <1>0, <2>2 DEF Advance, TypeOK, JobRecord
    <3>2. rows'[i].status \notin InProgress
      BY <2>1, <2>2 DEF Exists, InProgress
    <3>3. QED  BY <1>1, <1>q, <2>1, <3>1, <3>2 DEF Load
  <2>3. ASSUME NEW source,
               jobs' = [jobs EXCEPT ![j].pc = "mark", ![j].source = source]
        PROVE  OwnerInv'
    <3>1. /\ \A k \in Jobs \ {j} : jobs'[k] = jobs[k]
          /\ jobs'[j].image = i
          /\ jobs'[j].pc = "mark"
      BY <1>0, <2>3 DEF TypeOK, JobRecord
    <3>2. QED  BY <1>1, <1>q, <2>1, <3>1 DEF Load, Owns
  <2>4. QED  BY <1>1, <2>2, <2>3 DEF Load
<1>2. CASE Mark(j) \/ Fetch(j) \/ Store(j) \/ Record(j)
  <2>1. /\ \A k \in Jobs \ {j} : jobs'[k] = jobs[k]
        /\ jobs'[j].image = i
        /\ jobs'[j].pc \in {"fetch", "store", "render", "record", "handoff"}
    BY <1>0, <1>2 DEF Mark, Fetch, Store, Record, Advance, TypeOK, JobRecord
  <2>2. \A l \in Images \ {i} : rows'[l] = rows[l]
    BY <1>2 DEF Mark, Fetch, Store, Record, SetStatus, AddKey, TypeOK
  <2>3. QED  BY <1>2, <1>q, <2>1, <2>2 DEF Mark, Fetch, Store, Record, Owns
<1>3. CASE Handoff(j)
  <2>1. PICK k \in Jobs :
           /\ ~Live(k)
           /\ jobs' = [jobs EXCEPT ![j].pc = "ack",
                                   ![k] = NewJob(StageSpec[jobs[j].stage].next, i)]
    BY <1>3 DEF Handoff
  <2>2. /\ j # k /\ \A l \in Jobs \ {j, k} : jobs'[l] = jobs[l]
        /\ jobs'[j].pc = "ack"
        /\ jobs'[k].pc = "waiting" /\ jobs'[k].image = i
    BY <1>0, <2>1 DEF TypeOK, JobRecord, NewJob, JobAt
  <2>3. GivenUpIsSpent'
    BY <2>2 DEF OwnerInv, GivenUpIsSpent
  <2>4. ASSUME NEW l \in Images, rows'[l].status \in InProgress PROVE Owned(l)'
    <3>1. CASE l = i
      BY <2>2, <3>1 DEF Owned
    <3>2. CASE l # i
      <4>1. Owned(l)  BY <1>3, <2>4 DEF Handoff, OwnerInv, InProgressHasOwner
      <4>2. \A m \in Jobs : Owns(m, l) => Owns(m, l)'
        BY <2>1, <2>2, <3>2 DEF Owns, Live
      <4>3. QED  BY <1>3, <4>1, <4>2, OwnedFrame DEF Handoff
    <3>3. QED  BY <3>1, <3>2
  <2>5. QED  BY <2>3, <2>4 DEF OwnerInv, InProgressHasOwner
<1>4. ASSUME NEW t \in VariantTypes, RenderPut(j, t) \/ RenderUpsert(j, t)
      PROVE  OwnerInv'
  <2>1. /\ \A k \in Jobs \ {j} : jobs'[k] = jobs[k]
        /\ jobs'[j].image = i /\ jobs'[j].pc = "render"
    BY <1>0, <1>4 DEF RenderPut, RenderUpsert, TypeOK, JobRecord
  <2>2. \A l \in Images \ {i} : rows'[l] = rows[l]
    BY <1>4 DEF RenderPut, RenderUpsert, UpsertVariant, TypeOK
  <2>3. QED  BY <1>4, <1>q, <2>1, <2>2 DEF RenderPut, RenderUpsert, Owns
<1>5. CASE Complete(j)
  <2>1. /\ \A k \in Jobs \ {j} : jobs'[k] = jobs[k]
        /\ jobs'[j].pc = "ack"
    BY <1>0, <1>5 DEF Complete, Advance, TypeOK, JobRecord
  <2>2. /\ \A l \in Images \ {i} : rows'[l] = rows[l]
        /\ rows'[i].status = "COMPLETED"
    <3>1. rows[i] \in Row  BY <1>5 DEF Complete, TypeOK, Exists, NoRow
    <3>2. QED  BY <1>5, <3>1 DEF Complete, MarkCompleted, TypeOK, Row
  <2>3. QED  BY <1>5, <1>q, <2>1, <2>2 DEF Complete, InProgress
<1>6. CASE Ack(j)
  <2>1. /\ \A k \in Jobs \ {j} : jobs'[k] = jobs[k]
        /\ jobs'[j].pc = "free"
    BY <1>6 DEF Ack, TypeOK, FreeJob, JobAt
  <2>2. GivenUpIsSpent'
    BY <2>1 DEF OwnerInv, GivenUpIsSpent
  <2>3. ASSUME NEW l \in Images, rows'[l].status \in InProgress PROVE Owned(l)'
    <3>1. Owned(l)  BY <1>6, <2>3 DEF Ack, OwnerInv, InProgressHasOwner
    <3>2. \A k \in Jobs : Owns(k, l) => Owns(k, l)'
      BY <1>6, <2>1 DEF Ack, Owns
    <3>3. QED  BY <1>6, <3>1, <3>2, OwnedFrame DEF Ack
  <2>4. QED  BY <2>2, <2>3 DEF OwnerInv, InProgressHasOwner
<1>7. QED
  BY <1>1, <1>2, <1>3, <1>4, <1>5, <1>6 DEF StageStep

LEMMA FailureStepOwned ==
    ASSUME TypeOK, OwnerInv, OnlyJobFaults,
           Crash \/ \E j \in Jobs : Throw(j) \/ FailedHandler(j) \/ StallOut(j)
    PROVE  OwnerInv'
<1>1. ASSUME NEW j \in Jobs, Throw(j) PROVE OwnerInv'
  <2>1. jobs[j] \in Job /\ jobs[j] \in JobRecord /\ jobs[j].pc # "failing"
    BY <1>1, LiveIsJob DEF Throw, Live
  <2>2. /\ \A k \in Jobs \ {j} : jobs'[k] = jobs[k]
        /\ jobs'[j].image = jobs[j].image
        /\ jobs'[j].attempts = jobs[j].attempts + 1
        /\ jobs'[j].pc = IF jobs[j].attempts + 1 < Attempts THEN "waiting" ELSE "failing"
    BY <1>1 DEF Throw, TypeOK, JobAt
  <2>3. GivenUpIsSpent'
    <3>1. jobs'[j].pc = "failing" => jobs'[j].attempts = Attempts
      BY <2>1, <2>2, ConstantsAssumption DEF Job, JobRecord, ConstantsAssumption
    <3>2. QED  BY <2>2, <3>1 DEF OwnerInv, GivenUpIsSpent
  <2>4. ASSUME NEW l \in Images, rows'[l].status \in InProgress PROVE Owned(l)'
    <3>1. Owned(l)  BY <1>1, <2>4 DEF Throw, OwnerInv, InProgressHasOwner
    <3>2. \A k \in Jobs : Owns(k, l) => Owns(k, l)'
      BY <2>2 DEF Owns
    <3>3. QED  BY <1>1, <3>1, <3>2, OwnedFrame DEF Throw
  <2>5. QED  BY <2>3, <2>4 DEF OwnerInv, InProgressHasOwner
<1>2. ASSUME NEW j \in Jobs, FailedHandler(j) PROVE OwnerInv'
  <2>1. jobs[j] \in JobRecord  BY <1>2, LiveIsJob DEF FailedHandler, Live
  <2> PICK i \in Images : i = jobs[j].image  BY <2>1 DEF JobRecord
  <2>2. /\ \A k \in Jobs \ {j} : jobs'[k] = jobs[k]
        /\ jobs'[j].pc = "free"
    BY <1>2 DEF FailedHandler, TypeOK, FreeJob, JobAt
  <2>3. GivenUpIsSpent'
    BY <2>2 DEF OwnerInv, GivenUpIsSpent
  <2>4. \A l \in Images \ {i} : rows'[l] = rows[l]
    BY <1>2 DEF FailedHandler, MarkProcessingFailed, TypeOK
  <2>5. rows'[i].status \notin InProgress
    <3>1. jobs[j].attempts = Attempts /\ "handler" \notin Faults
      BY <1>2 DEF FailedHandler, OwnerInv, GivenUpIsSpent, OnlyJobFaults
    <3>2. CASE ~Exists(i)
      BY <1>2, <3>1, <3>2, ConstantsAssumption
         DEF FailedHandler, Exists, InProgress, ConstantsAssumption
    <3>3. CASE Exists(i)
      <4>1. rows[i] \in Row  BY <3>3 DEF TypeOK, Exists, NoRow
      <4>2. MarkProcessingFailed(i)
        BY <1>2, <3>1, <3>3, ConstantsAssumption DEF FailedHandler, ConstantsAssumption
      <4>3. QED  BY <4>1, <4>2 DEF MarkProcessingFailed, TypeOK, Row, InProgress
    <3>4. QED  BY <3>2, <3>3
  <2>6. ASSUME NEW l \in Images, rows'[l].status \in InProgress PROVE Owned(l)'
    <3>1. l # i  BY <2>5, <2>6
    <3>2. Owned(l)  BY <2>4, <2>6, <3>1 DEF OwnerInv, InProgressHasOwner
    <3>3. \A k \in Jobs : Owns(k, l) => Owns(k, l)'
      BY <2>2, <3>1 DEF Owns
    <3>4. QED  BY <1>2, <3>2, <3>3, OwnedFrame DEF FailedHandler
  <2>7. QED  BY <2>3, <2>6 DEF OwnerInv, InProgressHasOwner
<1>3. ASSUME NEW j \in Jobs, StallOut(j) PROVE OwnerInv'
  BY <1>3 DEF StallOut, OnlyJobFaults
<1>4. ASSUME Crash PROVE OwnerInv'
  <2>1. \A k \in Jobs : \/ jobs'[k] = jobs[k]
                        \/ jobs'[k].pc = "waiting" /\ jobs'[k].image = jobs[k].image
    BY <1>4 DEF Crash, JobAt
  <2>2. GivenUpIsSpent'
    BY <2>1 DEF OwnerInv, GivenUpIsSpent
  <2>3. ASSUME NEW l \in Images, rows'[l].status \in InProgress PROVE Owned(l)'
    <3>1. Owned(l)  BY <1>4, <2>3 DEF Crash, OwnerInv, InProgressHasOwner
    <3>2. \A k \in Jobs : Owns(k, l) => Owns(k, l)'
      BY <2>1 DEF Owns
    <3>3. QED  BY <1>4, <3>1, <3>2, OwnedFrame DEF Crash
  <2>4. QED  BY <2>2, <2>3 DEF OwnerInv, InProgressHasOwner
<1>5. QED  BY <1>1, <1>2, <1>3, <1>4

LEMMA ImageStepOwned ==
    ASSUME TypeOK, OwnerInv, OnlyJobFaults, NEW i \in Images,
           StrayStep(i) \/ SeedStep(i) \/ SeedFail(i)
    PROVE  OwnerInv'
(* A step that leaves jobs, requests, seeds and statuses alone.            *)
<1>q. ASSUME UNCHANGED <<jobs, requests, seeds>>,
             \A l \in Images : rows'[l].status = rows[l].status
      PROVE  OwnerInv'
  BY <1>q DEF OwnerInv, GivenUpIsSpent, InProgressHasOwner, Owned
<1>1. ASSUME NEW t \in VariantTypes, StrayPut(i, t) PROVE OwnerInv'
  BY <1>1, <1>q DEF StrayPut
<1>2. ASSUME NEW t \in VariantTypes, StrayUpsert(i, t) PROVE OwnerInv'
  <2>1. rows[i] \in Row  BY <1>2 DEF StrayUpsert, TypeOK, Exists, NoRow
  <2>2. \A l \in Images : rows'[l].status = rows[l].status
    BY <1>2, <2>1 DEF StrayUpsert, UpsertVariant, TypeOK, Row
  <2>3. QED  BY <1>2, <1>q, <2>2 DEF StrayUpsert
<1>3. ASSUME NEW t \in VariantTypes, NEW step \in BranchSteps, StrayLost(i, t, step)
      PROVE OwnerInv'
  BY <1>3, <1>q DEF StrayLost
<1>4. CASE SeedStore(i)
  <2>1. \A l \in Images : Owned(l) => Owned(l)'
    BY <1>4 DEF SeedStore, Owned, TypeOK
  <2>2. QED
    BY <1>4, <2>1 DEF SeedStore, OwnerInv, GivenUpIsSpent, InProgressHasOwner
<1>5. CASE SeedCreate(i)
  <2>1. Owned(i)'  BY <1>5 DEF SeedCreate, Owned, TypeOK
  <2>2. \A l \in Images : Owned(l) => Owned(l)'
    BY <1>5, <2>1 DEF SeedCreate, Owned, TypeOK
  <2>3. \A l \in Images \ {i} : rows'[l] = rows[l]
    BY <1>5 DEF SeedCreate, TypeOK
  <2>4. QED
    BY <1>5, <2>1, <2>2, <2>3
       DEF SeedCreate, OwnerInv, GivenUpIsSpent, InProgressHasOwner
<1>6. CASE SeedEnqueue(i)
  <2>1. PICK k \in Jobs : ~Live(k) /\ jobs' = [jobs EXCEPT ![k] = NewJob("convert", i)]
    BY <1>6 DEF SeedEnqueue, Enqueue
  <2>2. /\ \A j \in Jobs \ {k} : jobs'[j] = jobs[j]
        /\ jobs'[k].pc = "waiting" /\ jobs'[k].image = i
    BY <2>1 DEF TypeOK, NewJob, JobAt
  <2>3. Owned(i)'  BY <2>2 DEF Owned
  <2>4. \A l \in Images \ {i} : Owned(l) => Owned(l)'
    <3>1. \A l \in Images \ {i} : seeds'[l] = seeds[l]
      BY <1>6 DEF SeedEnqueue, TypeOK
    <3>2. \A j \in Jobs, l \in Images : Owns(j, l) => Owns(j, l)'
      BY <2>1, <2>2 DEF Owns, Live
    <3>3. QED  BY <1>6, <3>1, <3>2, OwnedFrame DEF SeedEnqueue
  <2>5. GivenUpIsSpent'  BY <2>2 DEF OwnerInv, GivenUpIsSpent
  <2>6. InProgressHasOwner'
    BY <1>6, <2>3, <2>4 DEF SeedEnqueue, OwnerInv, InProgressHasOwner
  <2>7. QED  BY <2>5, <2>6 DEF OwnerInv
<1>7. CASE SeedFail(i)
  BY <1>7 DEF SeedFail, OnlyJobFaults
<1>8. QED
  BY <1>1, <1>2, <1>3, <1>4, <1>5, <1>6, <1>7 DEF StrayStep, SeedStep

LEMMA RequestStepOwned ==
    ASSUME TypeOK, OwnerInv, OnlyJobFaults, NEW r \in Requests,
           \/ \E i \in Images : ReprocessFind(r, i) \/ RemoveFind(r, i)
           \/ RequestStep(r) \/ RequestFail(r)
    PROVE  OwnerInv'
(* A step of r that is not about to enqueue a job, after which no row has  *)
(* come to be in progress.                                                 *)
<1>q. ASSUME UNCHANGED <<jobs, seeds>>, requests[r].pc # "enqueue",
             \A q \in Requests \ {r} : requests'[q] = requests[q],
             \A l \in Images : rows'[l].status \in InProgress =>
                 rows[l].status \in InProgress \/ Owned(l)'
      PROVE  OwnerInv'
  <2>1. \A l \in Images : Owned(l) => Owned(l)'
    BY <1>q DEF Owned
  <2>2. QED  BY <1>q, <2>1 DEF OwnerInv, GivenUpIsSpent, InProgressHasOwner
<1>1. ASSUME NEW i \in Images, ReprocessFind(r, i) \/ RemoveFind(r, i) PROVE OwnerInv'
  <2>1. \A q \in Requests \ {r} : requests'[q] = requests[q]
    BY <1>1 DEF ReprocessFind, RemoveFind, Find, Finish, TypeOK
  <2>2. QED  BY <1>1, <1>q, <2>1 DEF ReprocessFind, RemoveFind, Find
<1>2. CASE ReprocessMark(r)
  <2>1. requests[r] \in Request /\ requests[r].image \in Images
    BY <1>2, InFlightIsRequest DEF ReprocessMark
  <2> PICK i \in Images : i = requests[r].image  BY <2>1
  <2>2. \A q \in Requests \ {r} : requests'[q] = requests[q]
    BY <1>2 DEF ReprocessMark, Finish, TypeOK
  <2>3. CASE Exists(i)
    <3>1. requests'[r].image = i /\ requests'[r].pc = "enqueue"
      BY <1>2, <2>1, <2>3 DEF ReprocessMark, TypeOK, Request
    <3>2. Owned(i)'  BY <3>1 DEF Owned
    <3>3. \A l \in Images \ {i} : rows'[l] = rows[l]
      BY <1>2, <2>3 DEF ReprocessMark, SetStatus, TypeOK
    <3>4. QED  BY <1>2, <1>q, <2>2, <3>2, <3>3 DEF ReprocessMark
  <2>4. CASE ~Exists(i)
    BY <1>2, <1>q, <2>2, <2>4 DEF ReprocessMark
  <2>5. QED  BY <2>3, <2>4
<1>3. CASE ReprocessEnqueue(r)
  <2>1. requests[r].image \in Images
    BY <1>3, InFlightIsRequest DEF ReprocessEnqueue
  <2> PICK i \in Images : i = requests[r].image  BY <2>1
  <2>2. PICK k \in Jobs : ~Live(k) /\ jobs' = [jobs EXCEPT ![k] = NewJob("convert", i)]
    BY <1>3 DEF ReprocessEnqueue, Enqueue
  <2>3. /\ \A j \in Jobs \ {k} : jobs'[j] = jobs[j]
        /\ jobs'[k].pc = "waiting" /\ jobs'[k].image = i
    BY <2>2 DEF TypeOK, NewJob, JobAt
  <2>4. Owns(k, i)'  BY <2>3 DEF Owns
  <2>5. \A l \in Images : Owned(l) => Owned(l)'
    <3>1. \A j \in Jobs, l \in Images : Owns(j, l) => Owns(j, l)'
      BY <2>2, <2>3 DEF Owns, Live
    <3>2. \A q \in Requests \ {r} : requests'[q] = requests[q]
      BY <1>3 DEF ReprocessEnqueue, Finish, TypeOK
    <3>3. QED  BY <1>3, <2>4, <3>1, <3>2, OwnedFrame DEF ReprocessEnqueue
  <2>6. GivenUpIsSpent'  BY <2>3 DEF OwnerInv, GivenUpIsSpent
  <2>7. InProgressHasOwner'
    BY <1>3, <2>5 DEF ReprocessEnqueue, OwnerInv, InProgressHasOwner
  <2>8. QED  BY <2>6, <2>7 DEF OwnerInv
<1>4. CASE RemoveObjects(r)
  <2>1. \A q \in Requests \ {r} : requests'[q] = requests[q]
    BY <1>4 DEF RemoveObjects, TypeOK
  <2>2. QED  BY <1>4, <1>q, <2>1 DEF RemoveObjects
<1>5. CASE RemoveRow(r)
  <2>1. \A q \in Requests \ {r} : requests'[q] = requests[q]
    BY <1>5 DEF RemoveRow, Finish, TypeOK
  <2>2. \A l \in Images : rows'[l] = rows[l] \/ rows'[l] = NoRow
    BY <1>5 DEF RemoveRow, DeleteRow, TypeOK
  <2>3. NoRow.status \notin InProgress  BY DEF NoRow, InProgress
  <2>4. QED  BY <1>5, <1>q, <2>1, <2>2, <2>3 DEF RemoveRow
<1>6. CASE RequestFail(r)
  BY <1>6 DEF RequestFail, OnlyJobFaults
<1>7. QED  BY <1>1, <1>2, <1>3, <1>4, <1>5, <1>6 DEF RequestStep

(* Whatever transient errors, retries, crashes with redelivery, duplicate  *)
(* runs and concurrent reprocess and remove calls happen, an image in      *)
(* progress has a job, the seed call or a reprocess call to move it on.    *)
THEOREM NoneStranded ==
    ASSUME OnlyJobFaults
    PROVE  Spec => []InProgressHasOwner
<1>1. Init => OwnerInv
  <2>1. ASSUME Init PROVE OwnerInv
    BY <2>1 DEF Init, OwnerInv, GivenUpIsSpent, InProgressHasOwner, NoRow, InProgress,
                FreeJob, JobAt
  <2>2. QED  BY <2>1
<1>2. TypeOK /\ OwnerInv /\ [Next]_vars => OwnerInv'
  <2>1. ASSUME TypeOK, OwnerInv, Next PROVE OwnerInv'
    BY <2>1, OnlyJobFaults, StageStepOwned, FailureStepOwned, ImageStepOwned,
       RequestStepOwned DEF Next
  <2>2. ASSUME OwnerInv, UNCHANGED vars PROVE OwnerInv'
    BY <2>2 DEF OwnerInv, GivenUpIsSpent, InProgressHasOwner, Owned, vars
  <2>3. QED  BY <2>1, <2>2
<1>3. OwnerInv => InProgressHasOwner  BY DEF OwnerInv
<1>4. QED  BY <1>1, <1>2, <1>3, TypeCorrect, PTL DEF Spec

-----------------------------------------------------------------------------
(***************************************************************************)
(* The original of an image is kept for the next run as long as the image  *)
(* exists, up to the window in which remove has deleted it and not yet the *)
(* row, when no API request is cut short: the pipeline writes only derived *)
(* objects, a row is created after its original is stored, and only remove *)
(* deletes it.                                                             *)
(***************************************************************************)

NoRequestFaults == "api" \notin Faults

(* The seed call stores the original before it creates the row.            *)
SeedStored == \A i \in Images : seeds[i] = "stored" => "original" \in objects[i]

OriginalInv == OriginalKept /\ SeedStored

(* A step that loses no object, makes no row and ends no remove.           *)
LEMMA OriginalFrame ==
    ASSUME OriginalInv, seeds' = seeds,
           \A i \in Images : objects[i] \subseteq objects'[i] /\ (Exists(i)' => Exists(i)),
           \A r \in Requests : requests[r].pc = "row" => requests'[r] = requests[r]
    PROVE  OriginalInv'
  BY DEF OriginalInv, OriginalKept, SeedStored

LEMMA StageStepOriginal ==
    ASSUME TypeOK, OriginalInv, NEW j \in Jobs, StageStep(j)
    PROVE  OriginalInv'
<1>0. seeds' = seeds /\ requests' = requests
  BY DEF StageStep, Load, Mark, Fetch, Store, Record, Handoff, RenderPut,
         RenderUpsert, Complete, Ack
<1>1. \A i \in Images : objects[i] \subseteq objects'[i]
  BY DEF StageStep, Load, Mark, Fetch, Store, Record, Handoff, RenderPut,
         RenderUpsert, Complete, Ack, PutObject, TypeOK
<1>2. ASSUME NEW i \in Images, i = jobs[j].image, Exists(i)
      PROVE  \A l \in Images : Exists(l)' => Exists(l)
  <2>1. CASE rows' = rows
    BY <2>1 DEF Exists
  <2>2. CASE rows' # rows
    BY <1>2, <2>2, RowEffect
       DEF StageStep, Load, Mark, Fetch, Store, Record, Handoff, RenderPut,
           RenderUpsert, Complete, Ack, Exists
  <2>3. QED  BY <2>1, <2>2
<1>3. CASE rows' = rows
  BY <1>0, <1>1, <1>3, OriginalFrame DEF Exists
<1>4. CASE rows' # rows
  <2>1. Live(j) /\ Exists(jobs[j].image)
    BY <1>4 DEF StageStep, Load, Mark, Fetch, Store, Record, Handoff, RenderPut,
           RenderUpsert, Complete, Ack, Live
  <2>2. jobs[j].image \in Images  BY <2>1, LiveIsJob DEF JobRecord
  <2>3. QED  BY <1>0, <1>1, <1>2, <2>1, <2>2, OriginalFrame
<1>5. QED  BY <1>3, <1>4

LEMMA FailureStepOriginal ==
    ASSUME TypeOK, OriginalInv,
           \/ \E j \in Jobs : Throw(j) \/ FailedHandler(j) \/ StallOut(j)
           \/ Crash
    PROVE  OriginalInv'
<1>0. seeds' = seeds /\ requests' = requests /\ objects' = objects
  BY DEF Throw, FailedHandler, StallOut, Crash
<1>1. CASE rows' = rows
  BY <1>0, <1>1, OriginalFrame DEF Exists
<1>2. ASSUME NEW j \in Jobs, FailedHandler(j), rows' # rows PROVE OriginalInv'
  <2>1. Live(j) /\ Exists(jobs[j].image) /\ MarkProcessingFailed(jobs[j].image)
    BY <1>2 DEF FailedHandler, Live
  <2>2. jobs[j].image \in Images  BY <2>1, LiveIsJob DEF JobRecord
  <2>3. \A l \in Images \ {jobs[j].image} : rows'[l] = rows[l]
    BY <2>1, <2>2, RowEffect
  <2>4. \A l \in Images : Exists(l)' => Exists(l)
    BY <2>1, <2>2, <2>3 DEF Exists
  <2>5. QED  BY <1>0, <2>4, OriginalFrame
<1>3. QED  BY <1>1, <1>2 DEF Throw, StallOut, Crash

LEMMA ImageStepOriginal ==
    ASSUME TypeOK, OriginalInv, NEW i \in Images,
           StrayStep(i) \/ SeedStep(i) \/ SeedFail(i)
    PROVE  OriginalInv'
<1>0. requests' = requests
  BY DEF StrayStep, StrayPut, StrayUpsert, StrayLost, SeedStep, SeedStore, SeedCreate,
         SeedEnqueue, SeedFail
<1>1. CASE StrayStep(i)
  <2>1. seeds' = seeds /\ \A l \in Images : objects[l] \subseteq objects'[l]
    BY <1>1 DEF StrayStep, StrayPut, StrayUpsert, StrayLost, PutObject, TypeOK
  <2>2. rows' = rows \/ \E t : Exists(i) /\ UpsertVariant(i, t)
    BY <1>1 DEF StrayStep, StrayPut, StrayUpsert, StrayLost
  <2>3. \A l \in Images : Exists(l)' => Exists(l)
    BY <2>2, RowEffect DEF Exists
  <2>4. QED  BY <1>0, <2>1, <2>3, OriginalFrame
<1>2. CASE SeedStore(i)
  <2>1. objects' = [objects EXCEPT ![i] = @ \cup {"original"}] /\ rows' = rows
    BY <1>2 DEF SeedStore, PutObject
  <2>2. \A l \in Images \ {i} : seeds'[l] = seeds[l]
    BY <1>2 DEF SeedStore, TypeOK
  <2>3. "original" \in objects'[i] /\ \A l \in Images : objects[l] \subseteq objects'[l]
    BY <2>1 DEF TypeOK
  <2>4. QED
    BY <1>0, <2>1, <2>2, <2>3 DEF OriginalInv, OriginalKept, SeedStored, Exists
<1>3. CASE SeedCreate(i)
  <2>1. "original" \in objects[i] /\ objects' = objects
    BY <1>3 DEF SeedCreate, OriginalInv, SeedStored
  <2>2. \A l \in Images \ {i} : seeds'[l] = seeds[l] /\ rows'[l] = rows[l]
    BY <1>3 DEF SeedCreate, TypeOK
  <2>3. QED  BY <1>0, <2>1, <2>2 DEF OriginalInv, OriginalKept, SeedStored, Exists
<1>4. CASE SeedEnqueue(i) \/ SeedFail(i)
  <2>1. rows' = rows /\ objects' = objects
    BY <1>4 DEF SeedEnqueue, SeedFail
  <2>2. \A l \in Images : seeds'[l] = "stored" => seeds[l] = "stored"
    BY <1>4 DEF SeedEnqueue, SeedFail, TypeOK
  <2>3. QED  BY <1>0, <2>1, <2>2 DEF OriginalInv, OriginalKept, SeedStored, Exists
<1>5. QED  BY <1>1, <1>2, <1>3, <1>4 DEF SeedStep

LEMMA RequestStepOriginal ==
    ASSUME TypeOK, IInv, OriginalInv, NoRequestFaults, NEW r \in Requests,
           \/ \E i \in Images : ReprocessFind(r, i) \/ RemoveFind(r, i)
           \/ RequestStep(r) \/ RequestFail(r)
    PROVE  OriginalInv'
<1>1. seeds' = seeds /\ \A q \in Requests \ {r} : requests'[q] = requests[q]
  BY DEF ReprocessFind, RemoveFind, Find, RequestStep, ReprocessMark, ReprocessEnqueue,
         RemoveObjects, RemoveRow, RequestFail, Finish, TypeOK
<1>2. CASE RemoveObjects(r)
  <2>1. requests[r] \in Request /\ requests[r].image \in Images
    BY <1>2, InFlightIsRequest DEF RemoveObjects
  <2> PICK i \in Images : i = requests[r].image  BY <2>1
  <2>2. Created(i)
    BY <1>2, IInvParts DEF RemoveObjects, RequestSound
  <2>3. rows' = rows /\ \A l \in Images \ {i} : objects'[l] = objects[l]
    BY <1>2 DEF RemoveObjects, DeleteOriginal, TypeOK
  <2>4. requests'[r].image = i /\ requests'[r].pc = "row"
    BY <1>2, <2>1 DEF RemoveObjects, TypeOK, Request
  <2>5. requests[r].pc # "row"  BY <1>2 DEF RemoveObjects
  <2>6. SeedStored'
    BY <1>1, <2>2, <2>3 DEF OriginalInv, SeedStored, Created
  <2>7. OriginalKept'
    BY <1>1, <2>3, <2>4, <2>5 DEF OriginalInv, OriginalKept, Exists
  <2>8. QED  BY <2>6, <2>7 DEF OriginalInv
<1>3. CASE RemoveRow(r)
  <2>1. requests[r].image \in Images
    BY <1>3, InFlightIsRequest DEF RemoveRow
  <2> PICK i \in Images : i = requests[r].image  BY <2>1
  <2>2. objects' = objects /\ ~Exists(i)'
    BY <1>3 DEF RemoveRow, DeleteRow, TypeOK, Exists, NoRow
  <2>3. \A l \in Images \ {i} : rows'[l] = rows[l]
    BY <1>3 DEF RemoveRow, DeleteRow, TypeOK
  <2>4. SeedStored'  BY <1>1, <2>2 DEF OriginalInv, SeedStored
  <2>5. OriginalKept'
    BY <1>1, <2>2, <2>3 DEF OriginalInv, OriginalKept, Exists
  <2>6. QED  BY <2>4, <2>5 DEF OriginalInv
<1>4. CASE ReprocessMark(r)
  <2>1. requests[r].image \in Images
    BY <1>4, InFlightIsRequest DEF ReprocessMark
  <2> PICK i \in Images : i = requests[r].image  BY <2>1
  <2>2. \A l \in Images : Exists(l)' => Exists(l)
    BY <1>4, RowEffect DEF ReprocessMark, Exists
  <2>3. objects' = objects /\ requests[r].pc # "row"  BY <1>4 DEF ReprocessMark
  <2>4. QED  BY <1>1, <2>2, <2>3, OriginalFrame
<1>5. CASE \/ \E i \in Images : ReprocessFind(r, i) \/ RemoveFind(r, i)
           \/ ReprocessEnqueue(r)
  <2>1. rows' = rows /\ objects' = objects /\ requests[r].pc # "row"
    BY <1>5 DEF ReprocessFind, RemoveFind, Find, ReprocessEnqueue
  <2>2. QED  BY <1>1, <2>1, OriginalFrame DEF Exists
<1>6. ~RequestFail(r)  BY DEF NoRequestFaults, RequestFail
<1>7. QED  BY <1>2, <1>3, <1>4, <1>5, <1>6 DEF RequestStep

(* Without faults of API requests, and under all faults of the workers,    *)
(* the original of an image that exists is in S3 unless its remove is at   *)
(* the delete of the row (image.service.ts:118-140, 182-193).              *)
THEOREM OriginalsAreKept ==
    ASSUME NoRequestFaults
    PROVE  Spec => []OriginalKept
<1>1. Init => OriginalInv
  BY DEF Init, OriginalInv, OriginalKept, SeedStored, Exists, NoRow
<1>2. TypeOK /\ IInv /\ OriginalInv /\ [Next]_vars => OriginalInv'
  <2>1. ASSUME TypeOK, IInv, OriginalInv, Next PROVE OriginalInv'
    BY NoRequestFaults, <2>1, StageStepOriginal, FailureStepOriginal, ImageStepOriginal,
       RequestStepOriginal DEF Next
  <2>2. ASSUME OriginalInv, UNCHANGED vars PROVE OriginalInv'
    BY <2>2 DEF OriginalInv, OriginalKept, SeedStored, Exists, vars
  <2>3. QED  BY <2>1, <2>2
<1>3. OriginalInv => OriginalKept  BY DEF OriginalInv
<1>4. QED  BY <1>1, <1>2, <1>3, TypeCorrect, Invariance, PTL DEF Spec

-----------------------------------------------------------------------------
(***************************************************************************)
(* MediaPipeline implements ArtifactLadder: every call of a worker or of   *)
(* the API is one step of the ladder, or none.  The inductive invariant    *)
(* gives the rungs below an output their place in the row when the output  *)
(* is written, and keeps an id whose row is gone from coming back.         *)
(***************************************************************************)

LadderStep == Ladder!LadderNext \/ UNCHANGED Ladder!ladderVars

(* Calls that the gallery does not see.                                    *)
LEMMA QuietStep ==
    ASSUME rows' = rows,
           \A l \in Images : seeds'[l] \in {"new", "stored"} <=> seeds[l] \in {"new", "stored"}
    PROVE  LadderStep
  BY DEF LadderStep, Ladder!ladderVars, Exists

(* A status other than COMPLETED is written.                               *)
LEMMA ReopenStep ==
    ASSUME NEW i \in Images, Exists(i), seeds' = seeds,
           rows'[i].status \notin {"NONE", "COMPLETED"},
           rows'[i].keys = rows[i].keys, rows'[i].variants = rows[i].variants,
           \A l \in Images \ {i} : rows'[l] = rows[l]
    PROVE  LadderStep
<1>1. Ladder!Reopen(i)  BY DEF Ladder!Reopen, Exists
<1>2. QED  BY <1>1 DEF LadderStep, Ladder!LadderNext

LEMMA PublishStep ==
    ASSUME NEW i \in Images, Exists(i), seeds' = seeds, NEW k \in Keys \cup VariantTypes,
           rows'[i].status = rows[i].status,
           rows'[i].keys \cup rows'[i].variants = rows[i].keys \cup rows[i].variants \cup {k},
           \A l \in Images \ {i} : rows'[l] = rows[l],
           Ladder!Below(k) \subseteq rows[i].keys \cup rows[i].variants
    PROVE  LadderStep
<1>1. Ladder!Publish(i, k)  BY DEF Ladder!Publish, Exists
<1>2. k \in Ladder!Outputs  BY DEF Ladder!Outputs, Keys
<1>3. QED  BY <1>1, <1>2 DEF LadderStep, Ladder!LadderNext

(* A job of an existing image that is about to write its output finds the  *)
(* outputs below it in the row.                                            *)
LEMMA RungsBelow ==
    ASSUME TypeOK, IInv, NEW j \in Jobs, Live(j), Exists(jobs[j].image)
    PROVE  LET row == rows[jobs[j].image]
           IN  /\ jobs[j].stage \in {"compress", "variants"} => "normalized" \in row.keys
               /\ jobs[j].stage = "variants" => "compressed" \in row.keys
<1>1. jobs[j].image \in Images /\ jobs[j].stage \in Stages  BY LiveIsJob DEF JobRecord
<1>2. InputReady(j) /\ RowSound(jobs[j].image)  BY <1>1, IInvParts DEF ImageSound
<1>3. QED  BY <1>1, <1>2 DEF InputReady, InputOf, RowSound

LEMMA StageStepRefines ==
    ASSUME TypeOK, IInv, NEW j \in Jobs, StageStep(j)
    PROVE  LadderStep
<1>0. seeds' = seeds /\ Live(j)
  BY DEF StageStep, Load, Mark, Fetch, Store, Record, Handoff, RenderPut,
         RenderUpsert, Complete, Ack, Live
<1>1. jobs[j] \in Job /\ jobs[j] \in JobRecord  BY <1>0, LiveIsJob
<1> PICK i \in Images : i = jobs[j].image  BY <1>1 DEF JobRecord
<1>2. CASE rows' = rows
  BY <1>0, <1>2, QuietStep
<1>3. CASE Mark(j)
  <2>1. StageSpec[jobs[j].stage].status \notin {"NONE", "COMPLETED"}
    BY <1>1 DEF JobRecord, Stages, StageSpec, ConvertStage, CompressStage, VariantsStage
  <2>2. QED  BY <1>0, <1>3, <2>1, RowEffect, ReopenStep DEF Mark
<1>4. CASE Record(j)
  <2> DEFINE output == StageSpec[jobs[j].stage].output
  <2>1. \/ jobs[j].stage = "convert" /\ output = "normalized"
        \/ jobs[j].stage = "compress" /\ output = "compressed"
    BY <1>1, <1>4 DEF Record, Job, JobRecord, Stages, StageSpec, ConvertStage, CompressStage
  <2>2. output \in Keys  BY <2>1 DEF Keys
  <2>3. Ladder!Below(output) \subseteq rows[i].keys
    BY <1>0, <1>4, <2>1, RungsBelow DEF Record, Ladder!Below
  <2>4. QED  BY <1>0, <1>4, <2>2, <2>3, RowEffect, PublishStep DEF Record
<1>5. ASSUME NEW t \in VariantTypes, RenderUpsert(j, t) PROVE LadderStep
  <2>1. jobs[j].stage = "variants"  BY <1>1, <1>5 DEF RenderUpsert, Job
  <2>2. Ladder!Below(t) \subseteq rows[i].keys
    BY <1>0, <1>5, <2>1, RungsBelow DEF RenderUpsert, Ladder!Below
  <2>3. QED  BY <1>0, <1>5, <2>2, RowEffect, PublishStep DEF RenderUpsert
<1>6. CASE Complete(j)
  <2>1. jobs[j].stage = "variants" /\ Exists(i)  BY <1>1, <1>6 DEF Complete, Job
  <2>2. VariantTypes \subseteq rows[i].variants
    BY <1>0, <1>6, <2>1, IInvParts DEF Complete, JobSound
  <2>3. rows[i].keys \subseteq Keys /\ rows[i].variants \subseteq VariantTypes
    BY DEF TypeOK, Row, NoRow
  <2>4. "normalized" \in rows[i].keys /\ "compressed" \in rows[i].keys
    BY <1>0, <2>1, RungsBelow
  <2>5. rows[i].keys \cup rows[i].variants = Ladder!Outputs
    BY <2>2, <2>3, <2>4 DEF Ladder!Outputs, Keys
  <2>6. /\ rows'[i].status = "COMPLETED"
        /\ rows'[i].keys = rows[i].keys /\ rows'[i].variants = rows[i].variants
        /\ \A l \in Images \ {i} : rows'[l] = rows[l]
    BY <1>6, <2>1, RowEffect DEF Complete
  <2>7. Ladder!Announce(i)  BY <1>0, <2>1, <2>5, <2>6 DEF Ladder!Announce, Exists
  <2>8. QED  BY <2>7 DEF LadderStep, Ladder!LadderNext
<1>7. QED
  BY <1>2, <1>3, <1>4, <1>5, <1>6
     DEF StageStep, Load, Fetch, Store, Handoff, RenderPut, Ack

LEMMA FailureStepRefines ==
    ASSUME TypeOK,
           \/ \E j \in Jobs : Throw(j) \/ FailedHandler(j) \/ StallOut(j)
           \/ Crash
    PROVE  LadderStep
<1>0. seeds' = seeds  BY DEF Throw, FailedHandler, StallOut, Crash
<1>1. CASE rows' = rows
  BY <1>0, <1>1, QuietStep
<1>2. ASSUME NEW j \in Jobs, FailedHandler(j), rows' # rows PROVE LadderStep
  <2>1. Live(j) /\ Exists(jobs[j].image) /\ MarkProcessingFailed(jobs[j].image)
    BY <1>2 DEF FailedHandler, Live
  <2>2. jobs[j].image \in Images  BY <2>1, LiveIsJob DEF JobRecord
  <2>3. QED  BY <1>0, <2>1, <2>2, RowEffect, ReopenStep
<1>3. QED  BY <1>1, <1>2 DEF Throw, StallOut, Crash

LEMMA ImageStepRefines ==
    ASSUME TypeOK, IInv, NEW i \in Images, StrayStep(i) \/ SeedStep(i) \/ SeedFail(i)
    PROVE  LadderStep
<1>0. ImageSound(i) /\ StraysSound(i) /\ RowSound(i)  BY IInvParts DEF ImageSound
<1>1. ASSUME NEW t \in VariantTypes, StrayUpsert(i, t) PROVE LadderStep
  <2>1. "compressed" \in rows[i].keys /\ "normalized" \in rows[i].keys
    BY <1>0, <1>1 DEF StrayUpsert, StraysSound, RowSound
  <2>2. Ladder!Below(t) \subseteq rows[i].keys  BY <2>1 DEF Ladder!Below
  <2>3. QED  BY <1>1, <2>2, RowEffect, PublishStep DEF StrayUpsert
<1>2. CASE \E t \in VariantTypes : StrayPut(i, t) \/ \E step \in BranchSteps : StrayLost(i, t, step)
  BY <1>2, QuietStep DEF StrayPut, StrayLost
<1>3. CASE SeedStore(i) \/ SeedEnqueue(i)
  BY <1>3, QuietStep DEF SeedStore, SeedEnqueue, TypeOK
<1>4. CASE SeedCreate(i)
  <2>1. ~Exists(i)  BY <1>0, <1>4 DEF SeedCreate, RowSound, Created
  <2>2. rows[i] = NoRow  BY <2>1 DEF TypeOK, Exists, Row, Statuses, InProgress
  <2>3. rows'[i] = NewRow /\ \A l \in Images \ {i} : rows'[l] = rows[l] /\ seeds'[l] = seeds[l]
    BY <1>4 DEF SeedCreate, TypeOK
  <2>4. seeds[i] = "stored"  BY <1>4 DEF SeedCreate
  <2>5. /\ rows[i].status = "NONE" /\ rows[i].keys = {} /\ rows[i].variants = {}
        /\ rows'[i].status = "ACCEPTED"
        /\ rows'[i].keys = {} /\ rows'[i].variants = {}
    BY <2>2, <2>3 DEF NewRow, NoRow
  <2>6. Ladder!Appear(i)
    BY <2>3, <2>4, <2>5 DEF Ladder!Appear, Exists
  <2>7. QED  BY <2>6 DEF LadderStep, Ladder!LadderNext
<1>5. CASE SeedFail(i) /\ seeds[i] = "created"
  BY <1>5, QuietStep DEF SeedFail, TypeOK
<1>6. CASE SeedFail(i) /\ seeds[i] # "created"
  <2>1. ~Exists(i)  BY <1>0, <1>6 DEF SeedFail, RowSound, Created
  <2>2. rows' = rows /\ seeds'[i] = "failed" /\ \A l \in Images \ {i} : seeds'[l] = seeds[l]
    BY <1>6 DEF SeedFail, TypeOK
  <2>3. seeds[i] \in {"new", "stored"}  BY <1>6 DEF SeedFail
  <2>4. Ladder!NeverAppear(i)  BY <2>1, <2>2, <2>3 DEF Ladder!NeverAppear, Exists
  <2>5. QED  BY <2>4 DEF LadderStep, Ladder!LadderNext
<1>7. QED  BY <1>1, <1>2, <1>3, <1>4, <1>5, <1>6 DEF StrayStep, SeedStep

LEMMA RequestStepRefines ==
    ASSUME TypeOK, IInv, NEW r \in Requests,
           \/ \E i \in Images : ReprocessFind(r, i) \/ RemoveFind(r, i)
           \/ RequestStep(r) \/ RequestFail(r)
    PROVE  LadderStep
<1>0. seeds' = seeds
  BY DEF ReprocessFind, RemoveFind, Find, RequestStep, ReprocessMark, ReprocessEnqueue,
         RemoveObjects, RemoveRow, RequestFail
<1>1. CASE rows' = rows
  BY <1>0, <1>1, QuietStep
<1>2. CASE (ReprocessMark(r) \/ RemoveRow(r)) /\ rows' # rows
  <2>1. requests[r].pc \in {"mark", "row"} /\ Exists(requests[r].image)
    BY <1>2 DEF ReprocessMark, RemoveRow
  <2>2. requests[r].image \in Images /\ Created(requests[r].image)
    BY <2>1, InFlightIsRequest, IInvParts DEF RequestSound
  <2> PICK i \in Images : i = requests[r].image  BY <2>2
  <2>3. CASE ReprocessMark(r)
    BY <1>0, <1>2, <2>1, <2>3, RowEffect, ReopenStep DEF ReprocessMark
  <2>4. CASE RemoveRow(r)
    <3>1. rows'[i] = NoRow /\ \A l \in Images \ {i} : rows'[l] = rows[l]
      BY <1>2, <2>4 DEF RemoveRow, DeleteRow, TypeOK
    <3>2. rows'[i].status = "NONE" /\ rows'[i].keys = {} /\ rows'[i].variants = {}
      BY <3>1 DEF NoRow
    <3>3. Ladder!Vanish(i)
      BY <1>0, <2>1, <2>2, <3>1, <3>2 DEF Ladder!Vanish, Exists, Created
    <3>4. QED  BY <3>3 DEF LadderStep, Ladder!LadderNext
  <2>5. QED  BY <1>2, <2>3, <2>4
<1>3. QED
  BY <1>1, <1>2
     DEF ReprocessFind, RemoveFind, Find, RequestStep, ReprocessEnqueue, RemoveObjects,
         RequestFail

(* The media pipeline keeps the promise made to the gallery, for any       *)
(* number of images, jobs and requests and under every fault of the model  *)
(* (the repository writes of the three workers, image.repository.ts:       *)
(* 126-192, and the API calls around them).                                *)
THEOREM PipelineImplementsLadder == Spec => ImplementsLadder
<1>1. Init => Ladder!LadderInit
  <2> SUFFICES ASSUME Init PROVE Ladder!LadderInit  OBVIOUS
  <2>1. \A i \in Images : /\ seeds[i] = "new" /\ rows[i].status = "NONE"
                          /\ rows[i].keys = {} /\ rows[i].variants = {}
    BY DEF Init, NoRow
  <2>2. QED  BY <2>1 DEF Ladder!LadderInit, Exists
<1>2. TypeOK /\ IInv /\ [Next]_vars => [Ladder!LadderNext]_(Ladder!ladderVars)
  <2>1. ASSUME TypeOK, IInv, Next PROVE LadderStep
    BY <2>1, StageStepRefines, FailureStepRefines, ImageStepRefines,
       RequestStepRefines DEF Next
  <2>2. ASSUME UNCHANGED vars PROVE LadderStep
    BY <2>2, QuietStep DEF vars
  <2>3. QED  BY <2>1, <2>2 DEF LadderStep
<1>3. QED
  BY <1>1, <1>2, TypeCorrect, Invariance, PTL DEF Spec, ImplementsLadder, Ladder!LadderSpec
=============================================================================
