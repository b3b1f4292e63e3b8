------------------------- MODULE WorkerProcessProofs -------------------------
(***************************************************************************)
(* Theorems about the worker processes, for every number of processes,     *)
(* jobs, slots, attempts, signals, crashes and faults.                     *)
(***************************************************************************)
EXTENDS WorkerProcess, TLAPS

-----------------------------------------------------------------------------
(* The inductive invariant.                                                *)

(* A job that will run again has an attempt left, and a job that runs has  *)
(* a process that is up.                                                   *)
JobsPlaced ==
    \A j \in Jobs :
        /\ Active(j) \/ jobs[j].pc = "waiting" => jobs[j].attempts < Attempts
        /\ Active(j) => jobs[j].at \in Processes /\ up[jobs[j].at]

(* A job detects only after the promise of its process has resolved, and   *)
(* that is when the weights are loaded.                                    *)
ModelReady ==
    /\ \A j \in Jobs : jobs[j].pc = "detect" => initialized[jobs[j].at] = "resolved"
    /\ \A p \in Processes : initialized[p] = "resolved" <=> faceapi[p] = "loaded"

(* The promise is pending as long as the one load is under way.            *)
LoadCounted ==
    \A p \in Processes : loading[p] = IF initialized[p] = "pending" THEN 1 ELSE 0

(* Once worker.close() has resolved, the process runs no job and takes     *)
(* none.                                                                   *)
ReleasingIdle ==
    \A p \in Processes, s \in Signals : shutdowns[p][s] = "releasing" =>
        \A j \in Jobs : Active(j) => jobs[j].at # p

WInv == TypeOK /\ JobsPlaced /\ ModelReady /\ LoadCounted /\ ReleasingIdle

LEMMA InitWInv == Init => WInv
<1> SUFFICES ASSUME Init PROVE WInv  OBVIOUS
<1>1. 0 \in 0..Attempts /\ 0 < Attempts /\ 0 \in 0..MaxStops
      /\ 0 \in 0..MaxCrashes /\ 0 \in 0..MaxFaults
  BY WorkerAssumption DEF WorkerAssumption
<1>2. JobAt("waiting", 0, NoProcess) \in Job  BY <1>1 DEF Job, JobAt, JobPCs
<1>3. jobs \in [Jobs -> Job]  BY <1>2 DEF Init
<1>4. TypeOK  BY <1>1, <1>3 DEF Init, TypeOK
<1>5. \A j \in Jobs : jobs[j].pc = "waiting" /\ jobs[j].attempts = 0 /\ ~Active(j)
  BY DEF Init, JobAt, Active, ActivePCs
<1>6. JobsPlaced  BY <1>1, <1>5 DEF JobsPlaced
<1>7. ModelReady /\ LoadCounted /\ ReleasingIdle
  BY <1>5 DEF Init, ModelReady, LoadCounted, ReleasingIdle
<1>8. QED  BY <1>4, <1>6, <1>7 DEF WInv

-----------------------------------------------------------------------------
(* Steps of the jobs.                                                      *)

(* A job goes on in its process, or ends or waits again.                   *)
LEMMA JobMove ==
    ASSUME WInv, NEW j \in Jobs, NEW job \in Job, jobs' = [jobs EXCEPT ![j] = job],
           UNCHANGED <<up, initialized, faceapi, loading, shutdowns, stops, crashes>>,
           faults' \in 0..MaxFaults,
           job.pc \in ActivePCs => Active(j) /\ job.at = jobs[j].at,
           job.pc \in ActivePCs \cup {"waiting"} => job.attempts < Attempts,
           job.pc = "detect" => initialized[job.at] = "resolved"
    PROVE  WInv'
<1>1. jobs'[j] = job /\ \A k \in Jobs \ {j} : jobs'[k] = jobs[k]
  BY DEF WInv, TypeOK
<1>2. TypeOK'  BY DEF WInv, TypeOK
<1>3. JobsPlaced'  BY <1>1 DEF WInv, JobsPlaced, Active, ActivePCs
<1>4. ModelReady'  BY <1>1 DEF WInv, ModelReady
<1>5. LoadCounted'  BY DEF WInv, LoadCounted
<1>6. ReleasingIdle'  BY <1>1 DEF WInv, ReleasingIdle, Active
<1>7. QED  BY <1>2, <1>3, <1>4, <1>5, <1>6 DEF WInv

LEMMA JobFields ==
    ASSUME TypeOK, NEW j \in Jobs
    PROVE  /\ jobs[j] \in Job /\ jobs[j].attempts \in 0..Attempts
           /\ jobs[j].at \in Processes \cup {NoProcess}
           /\ \A pc \in JobPCs : [jobs[j] EXCEPT !.pc = pc]
                                    = JobAt(pc, jobs[j].attempts, jobs[j].at)
  BY DEF TypeOK, Job, JobAt

LEMMA JobAtType ==
    ASSUME NEW pc \in JobPCs, NEW n \in 0..Attempts, NEW p \in Processes \cup {NoProcess}
    PROVE  /\ JobAt(pc, n, p) \in Job /\ JobAt(pc, n, p).pc = pc
           /\ JobAt(pc, n, p).attempts = n /\ JobAt(pc, n, p).at = p
  BY DEF Job, JobAt

LEMMA JobAtMoved ==
    ASSUME TypeOK, NEW j \in Jobs, NEW pc \in JobPCs, NEW p \in Processes \cup {NoProcess}
    PROVE  LET job == JobAt(pc, jobs[j].attempts, p)
           IN  job \in Job /\ job.pc = pc /\ job.attempts = jobs[j].attempts /\ job.at = p
<1>1. jobs[j].attempts \in 0..Attempts  BY JobFields
<1>2. QED  BY <1>1, JobAtType

LEMMA RejectedMove ==
    ASSUME WInv, NEW j \in Jobs, Active(j), Rejected(j),
           UNCHANGED <<up, initialized, faceapi, loading, shutdowns, stops, crashes>>,
           faults' \in 0..MaxFaults
    PROVE  WInv'
<1> PICK spent : spent = jobs[j].attempts + 1  OBVIOUS
<1>1. jobs[j].attempts < Attempts /\ jobs[j].attempts \in 0..Attempts /\ Attempts \in Nat
  BY WorkerAssumption, JobFields DEF WInv, JobsPlaced, WorkerAssumption
<1>2. spent \in 0..Attempts  BY <1>1
<1>3. jobs[j].at \in Processes \cup {NoProcess}  BY JobFields DEF WInv
<1>4. PICK pc \in {"waiting", "handling"}, p \in Processes \cup {NoProcess} :
         /\ jobs' = [jobs EXCEPT ![j] = JobAt(pc, spent, p)]
         /\ pc = "waiting" => spent < Attempts
  BY <1>3 DEF Rejected
<1>5. /\ JobAt(pc, spent, p) \in Job /\ JobAt(pc, spent, p).pc = pc
      /\ JobAt(pc, spent, p).attempts = spent
  BY <1>2, JobAtType DEF JobPCs
<1>6. QED  BY <1>4, <1>5, JobMove DEF ActivePCs

LEMMA TakeWInv ==
    ASSUME WInv, NEW p \in Processes, NEW j \in Jobs, Take(p, j)
    PROVE  WInv'
<1>0. TypeOK  BY DEF WInv
<1>1. /\ jobs' = [jobs EXCEPT ![j] = JobAt("start", jobs[j].attempts, p)]
      /\ jobs[j].pc = "waiting" /\ up[p] /\ ~Closing(p)
      /\ UNCHANGED <<up, initialized, faceapi, loading, shutdowns, stops, crashes, faults>>
  BY DEF Take
<1>2. /\ JobAt("start", jobs[j].attempts, p) \in Job
      /\ JobAt("start", jobs[j].attempts, p).pc = "start"
      /\ JobAt("start", jobs[j].attempts, p).attempts = jobs[j].attempts
      /\ JobAt("start", jobs[j].attempts, p).at = p
  <2>1. "start" \in JobPCs  BY DEF JobPCs, ActivePCs
  <2>2. QED  BY <1>0, <2>1, JobAtMoved
<1>3. /\ jobs'[j].pc = "start" /\ jobs'[j].attempts = jobs[j].attempts /\ jobs'[j].at = p
      /\ \A k \in Jobs \ {j} : jobs'[k] = jobs[k]
  BY <1>0, <1>1, <1>2 DEF TypeOK
<1>4. TypeOK'  BY <1>0, <1>1, <1>2 DEF TypeOK
<1>5. JobsPlaced'  BY <1>1, <1>3 DEF WInv, JobsPlaced, Active
<1>6. ModelReady'  BY <1>1, <1>3 DEF WInv, ModelReady
<1>7. LoadCounted'  BY <1>1 DEF WInv, LoadCounted
<1>8. ReleasingIdle'  BY <1>1, <1>3 DEF WInv, ReleasingIdle, Active, Closing
<1>9. QED  BY <1>4, <1>5, <1>6, <1>7, <1>8 DEF WInv

LEMMA EnsureWInv ==
    ASSUME WInv, NEW j \in Jobs, EnsureInitialized(j)
    PROVE  WInv'
<1>0. TypeOK /\ Active(j)  BY DEF WInv, EnsureInitialized, Active, ActivePCs
<1> PICK p \in Processes : p = jobs[j].at  BY <1>0 DEF WInv, JobsPlaced
<1>1. jobs' = [jobs EXCEPT ![j] = JobAt("init", jobs[j].attempts, p)]
  BY <1>0, JobFields DEF EnsureInitialized, JobPCs, ActivePCs
<1>2. /\ JobAt("init", jobs[j].attempts, p) \in Job
      /\ JobAt("init", jobs[j].attempts, p).pc = "init"
      /\ JobAt("init", jobs[j].attempts, p).attempts = jobs[j].attempts
      /\ JobAt("init", jobs[j].attempts, p).at = p
  <2>1. "init" \in JobPCs  BY DEF JobPCs, ActivePCs
  <2>2. QED  BY <1>0, <2>1, JobAtMoved
<1>3. /\ jobs'[j].pc = "init" /\ jobs'[j].attempts = jobs[j].attempts /\ jobs'[j].at = p
      /\ \A k \in Jobs \ {j} : jobs'[k] = jobs[k]
  BY <1>0, <1>1, <1>2 DEF TypeOK
<1>4. UNCHANGED <<up, shutdowns, stops, crashes, faults>>  BY DEF EnsureInitialized
<1>5. \/ UNCHANGED <<initialized, faceapi, loading>>
      \/ /\ initialized[p] = "null"
         /\ initialized' = [initialized EXCEPT ![p] = "pending"]
         /\ faceapi' = [faceapi EXCEPT ![p] = "required"]
         /\ loading' = [loading EXCEPT ![p] = @ + 1]
  BY DEF EnsureInitialized
<1>6. TypeOK'
  <2>1. jobs' \in [Jobs -> Job]  BY <1>0, <1>1, <1>2 DEF TypeOK
  <2>2. /\ initialized' \in [Processes -> {"null", "pending", "resolved", "rejected"}]
        /\ faceapi' \in [Processes -> {"null", "required", "loaded"}]
    BY <1>0, <1>5 DEF TypeOK
  <2>3. loading' \in [Processes -> Nat]  BY <1>0, <1>5 DEF TypeOK
  <2>4. QED  BY <1>0, <1>4, <2>1, <2>2, <2>3 DEF TypeOK
<1>7. JobsPlaced'  BY <1>3, <1>4, <1>0 DEF WInv, JobsPlaced, Active, ActivePCs
<1>8. ModelReady'
  BY <1>0, <1>3, <1>5 DEF WInv, ModelReady, TypeOK, JobsPlaced, Active, ActivePCs
<1>9. LoadCounted'  BY <1>0, <1>5 DEF WInv, LoadCounted, TypeOK
<1>10. ReleasingIdle'  BY <1>0, <1>3, <1>4 DEF WInv, ReleasingIdle, Active
<1>11. QED  BY <1>6, <1>7, <1>8, <1>9, <1>10 DEF WInv

LEMMA JobStepWInv ==
    ASSUME WInv, NEW j \in Jobs, JobStep(j)
    PROVE  WInv'
<1>0. TypeOK /\ faults \in 0..MaxFaults  BY DEF WInv, TypeOK
<1> PICK n \in 0..Attempts : n = jobs[j].attempts  BY <1>0, JobFields
<1>1. CASE EnsureInitialized(j)  BY <1>1, EnsureWInv
<1>2. CASE Awaited(j)
  <2>1. Active(j) /\ UNCHANGED <<up, initialized, faceapi, loading, shutdowns, stops, crashes, faults>>
    BY <1>2 DEF Awaited, Active, ActivePCs
  <2>2. CASE initialized[jobs[j].at] = "resolved" /\ jobs' = [jobs EXCEPT ![j].pc = "detect"]
    <3>1. jobs' = [jobs EXCEPT ![j] = JobAt("detect", n, jobs[j].at)]
      BY <1>0, <2>2, JobFields DEF JobPCs, ActivePCs
    <3>2. /\ JobAt("detect", n, jobs[j].at) \in Job
          /\ JobAt("detect", n, jobs[j].at).attempts = n
          /\ JobAt("detect", n, jobs[j].at).at = jobs[j].at
          /\ JobAt("detect", n, jobs[j].at).pc = "detect"
      <4>1. "detect" \in JobPCs  BY DEF JobPCs, ActivePCs
      <4>2. jobs[j].at \in Processes \cup {NoProcess}  BY <1>0, JobFields
      <4>3. QED  BY <4>1, <4>2, JobAtType
    <3>3. n < Attempts  BY <2>1 DEF WInv, JobsPlaced
    <3> PICK job \in Job : job = JobAt("detect", n, jobs[j].at)  BY <3>2
    <3>4. /\ jobs' = [jobs EXCEPT ![j] = job] /\ job.pc = "detect" /\ job.attempts = n
          /\ job.at = jobs[j].at /\ initialized[job.at] = "resolved"
      BY <2>2, <3>1, <3>2
    <3>5. faults' \in 0..MaxFaults  BY <1>0, <2>1
    <3>6. QED  BY <2>1, <3>3, <3>4, <3>5, JobMove
  <2>3. CASE Rejected(j)
    BY <1>0, <2>1, <2>3, RejectedMove
  <2>4. QED  BY <1>2, <2>2, <2>3 DEF Awaited
<1>3. CASE Detect(j)
  <2>1. /\ JobAt("done", n, NoProcess) \in Job /\ JobAt("done", n, NoProcess).pc = "done"
    BY JobAtType DEF JobPCs
  <2>2. QED  BY <1>0, <1>3, <2>1, JobMove DEF Detect, ActivePCs
<1>4. CASE DetectFails(j)
  <2>1. Active(j)  BY <1>4 DEF DetectFails, Active, ActivePCs
  <2>2. faults' \in 0..MaxFaults
    BY <1>0, <1>4, WorkerAssumption DEF DetectFails, WorkerAssumption
  <2>3. QED  BY <1>4, <2>1, <2>2, RejectedMove DEF DetectFails
<1>5. CASE FailedHandler(j)
  <2>1. /\ JobAt("failed", n, NoProcess) \in Job /\ JobAt("failed", n, NoProcess).pc = "failed"
    BY JobAtType DEF JobPCs
  <2>2. QED  BY <1>0, <1>5, <2>1, JobMove DEF FailedHandler, ActivePCs
<1>6. QED  BY <1>1, <1>2, <1>3, <1>4, <1>5 DEF JobStep

-----------------------------------------------------------------------------
(* Steps of the processes.                                                 *)

LEMMA LoadEndsWInv ==
    ASSUME WInv, NEW p \in Processes, LoadEnds(p)
    PROVE  WInv'
<1>0. TypeOK /\ initialized[p] = "pending"  BY DEF WInv, LoadEnds
<1>1. /\ UNCHANGED <<up, shutdowns, jobs, stops, crashes>>
      /\ loading' = [loading EXCEPT ![p] = 0]
  <2>1. loading[p] - 1 = 0  BY <1>0 DEF WInv, LoadCounted
  <2>2. QED  BY <2>1 DEF LoadEnds
<1>2. faults' \in 0..MaxFaults
  BY <1>0, WorkerAssumption DEF LoadEnds, TypeOK, WorkerAssumption
<1>3. TypeOK'
  <2>1. loading' \in [Processes -> Nat]  BY <1>0, <1>1 DEF TypeOK
  <2>2. /\ initialized' \in [Processes -> {"null", "pending", "resolved", "rejected"}]
        /\ faceapi' \in [Processes -> {"null", "required", "loaded"}]
    BY <1>0 DEF LoadEnds, TypeOK
  <2>3. QED  BY <1>0, <1>1, <1>2, <2>1, <2>2 DEF TypeOK
<1>4. JobsPlaced'  BY <1>1 DEF WInv, JobsPlaced, Active
<1>5. ModelReady'
  <2>1. ASSUME NEW j \in Jobs, jobs'[j].pc = "detect"
        PROVE  initialized'[jobs'[j].at] = "resolved"
    <3>1. jobs' = jobs /\ jobs[j].at \in Processes
      BY <1>1, <2>1 DEF WInv, JobsPlaced, Active, ActivePCs
    <3>2. initialized[jobs[j].at] = "resolved" /\ jobs[j].at # p
      BY <1>0, <2>1, <3>1 DEF WInv, ModelReady
    <3>3. QED  BY <1>0, <3>1, <3>2 DEF LoadEnds, TypeOK
  <2>2. ASSUME NEW q \in Processes
        PROVE  initialized'[q] = "resolved" <=> faceapi'[q] = "loaded"
    BY <1>0, <2>2 DEF WInv, ModelReady, LoadEnds, TypeOK
  <2>3. QED  BY <2>1, <2>2 DEF ModelReady
<1>6. LoadCounted'  BY <1>0, <1>1 DEF WInv, LoadCounted, LoadEnds, TypeOK
<1>7. ReleasingIdle'  BY <1>1 DEF WInv, ReleasingIdle, Active
<1>8. QED  BY <1>3, <1>4, <1>5, <1>6, <1>7 DEF WInv

LEMMA SignalWInv ==
    ASSUME WInv, NEW p \in Processes, NEW s \in Signals, Signal(p, s) \/ Closed(p, s)
    PROVE  WInv'
<1>0. TypeOK  BY DEF WInv
<1>1. UNCHANGED <<up, initialized, faceapi, loading, jobs, crashes, faults>>
  BY DEF Signal, Closed
<1>2. PICK phase \in {"closing", "releasing"} :
         /\ shutdowns' = [shutdowns EXCEPT ![p][s] = phase]
         /\ phase = "releasing" => ActiveIn(p) = {}
  BY DEF Signal, Closed
<1>3. stops' \in 0..MaxStops
  BY <1>0, WorkerAssumption DEF Signal, Closed, TypeOK, WorkerAssumption
<1>4. TypeOK'  BY <1>0, <1>1, <1>2, <1>3 DEF TypeOK
<1>5. JobsPlaced' /\ ModelReady' /\ LoadCounted'
  BY <1>1 DEF WInv, JobsPlaced, Active, ModelReady, LoadCounted
<1>6. ASSUME NEW q \in Processes, NEW t \in Signals, shutdowns'[q][t] = "releasing"
      PROVE  shutdowns[q][t] = "releasing" \/ (q = p /\ ActiveIn(p) = {})
  BY <1>0, <1>2, <1>6 DEF TypeOK
<1>7. ReleasingIdle'
  BY <1>1, <1>6 DEF WInv, ReleasingIdle, Active, ActiveIn
<1>8. QED  BY <1>4, <1>5, <1>7 DEF WInv

(* A process that runs no job any more is gone.                            *)
LEMMA EndsWInv ==
    ASSUME WInv, NEW p \in Processes, Ends(p), crashes' \in 0..MaxCrashes,
           UNCHANGED <<stops, faults>>,
           jobs' \in [Jobs -> Job],
           \A j \in Jobs :
              \/ jobs'[j] = jobs[j] /\ (Active(j) => jobs[j].at # p)
              \/ ~Active(j)' /\ (jobs'[j].pc = "waiting" => jobs'[j].attempts < Attempts)
    PROVE  WInv'
<1>0. TypeOK  BY DEF WInv
<1>1. /\ \A q \in Processes \ {p} :
            /\ up'[q] = up[q] /\ initialized'[q] = initialized[q]
            /\ faceapi'[q] = faceapi[q] /\ loading'[q] = loading[q]
            /\ shutdowns'[q] = shutdowns[q]
      /\ initialized'[p] = "null" /\ faceapi'[p] = "null" /\ loading'[p] = 0
      /\ \A s \in Signals : shutdowns'[p][s] = "idle"
  BY <1>0 DEF Ends, TypeOK
<1>2. TypeOK'  BY <1>0 DEF Ends, TypeOK
<1>3. JobsPlaced'  BY <1>1 DEF WInv, JobsPlaced, Active
<1>4. ASSUME NEW j \in Jobs, jobs'[j].pc = "detect" PROVE initialized'[jobs'[j].at] = "resolved"
  <2>1. Active(j)'  BY <1>4 DEF Active, ActivePCs
  <2>2. jobs'[j] = jobs[j] /\ Active(j) /\ jobs[j].at # p  BY <2>1 DEF Active
  <2>3. jobs[j].at \in Processes  BY <2>2 DEF WInv, JobsPlaced
  <2>4. QED  BY <1>1, <1>4, <2>2, <2>3 DEF WInv, ModelReady
<1>5. ModelReady'  BY <1>1, <1>4 DEF WInv, ModelReady
<1>6. LoadCounted'  BY <1>1 DEF WInv, LoadCounted
<1>7. ReleasingIdle'  BY <1>1 DEF WInv, ReleasingIdle, Active
<1>8. QED  BY <1>2, <1>3, <1>5, <1>6, <1>7 DEF WInv

LEMMA ExitWInv ==
    ASSUME WInv, NEW p \in Processes, NEW s \in Signals, Exit(p, s)
    PROVE  WInv'
<1>0. TypeOK  BY DEF WInv
<1>1. \A j \in Jobs : Active(j) => jobs[j].at # p
  BY DEF WInv, ReleasingIdle, Exit
<1>2. \A j \in Jobs : jobs[j] \in Job /\ JobAt("unrecorded", jobs[j].attempts, NoProcess) \in Job
  BY <1>0, JobFields, JobAtType DEF JobPCs
<1>3. jobs' \in [Jobs -> Job]  BY <1>2 DEF Exit
<1>4. \A j \in Jobs : jobs'[j] = jobs[j] \/ jobs'[j].pc = "unrecorded"
  BY DEF Exit, JobAt
<1>5. \A j \in Jobs : jobs'[j].pc = "unrecorded" => ~Active(j)'
  BY DEF Active, ActivePCs
<1>6. Ends(p) /\ UNCHANGED <<stops, faults>> /\ crashes' \in 0..MaxCrashes
  BY <1>0 DEF Exit, TypeOK
<1>7. QED  BY <1>1, <1>3, <1>4, <1>5, <1>6, EndsWInv

LEMMA CrashWInv ==
    ASSUME WInv, NEW p \in Processes, Crash(p)
    PROVE  WInv'
<1>0. TypeOK  BY DEF WInv
<1>1. \A j \in Jobs : /\ jobs[j] \in Job
                      /\ JobAt("unrecorded", jobs[j].attempts, NoProcess) \in Job
                      /\ JobAt("waiting", jobs[j].attempts, NoProcess) \in Job
  BY <1>0, JobFields, JobAtType DEF JobPCs
<1>2. jobs' \in [Jobs -> Job]  BY <1>1 DEF Crash
<1>3. ASSUME NEW j \in Jobs
      PROVE  \/ jobs'[j] = jobs[j] /\ (Active(j) => jobs[j].at # p)
             \/ ~Active(j)' /\ (jobs'[j].pc = "waiting" => jobs'[j].attempts < Attempts)
  <2>1. CASE j \in ActiveIn(p)
    <3>1. jobs'[j].pc = "waiting" /\ jobs'[j].attempts = jobs[j].attempts
      BY <2>1 DEF Crash, JobAt
    <3>2. jobs[j].attempts < Attempts
      BY <2>1 DEF ActiveIn, WInv, JobsPlaced
    <3>3. QED  BY <3>1, <3>2 DEF Active, ActivePCs
  <2>2. CASE j \notin ActiveIn(p) /\ j \in Listening(p)
    <3>1. jobs'[j].pc = "unrecorded"  BY <2>2 DEF Crash, JobAt
    <3>2. QED  BY <3>1 DEF Active, ActivePCs
  <2>3. CASE j \notin ActiveIn(p) /\ j \notin Listening(p)
    BY <2>3 DEF Crash, ActiveIn
  <2>4. QED  BY <2>1, <2>2, <2>3
<1>4. Ends(p) /\ UNCHANGED <<stops, faults>> /\ crashes' \in 0..MaxCrashes
  BY <1>0, WorkerAssumption DEF Crash, TypeOK, WorkerAssumption
<1>5. QED  BY <1>2, <1>3, <1>4, EndsWInv

LEMMA RestartWInv ==
    ASSUME WInv, NEW p \in Processes, Restart(p)
    PROVE  WInv'
<1>1. UNCHANGED <<initialized, faceapi, loading, shutdowns, jobs, stops, crashes, faults>>
  BY DEF Restart
<1>2. \A q \in Processes : up[q] => up'[q]  BY DEF Restart, WInv, TypeOK
<1>3. TypeOK'  BY <1>1 DEF Restart, WInv, TypeOK
<1>4. JobsPlaced'  BY <1>1, <1>2 DEF WInv, JobsPlaced, Active
<1>5. ModelReady' /\ LoadCounted' /\ ReleasingIdle'
  BY <1>1 DEF WInv, ModelReady, LoadCounted, ReleasingIdle, Active
<1>6. QED  BY <1>3, <1>4, <1>5 DEF WInv

LEMMA NextWInv ==
    ASSUME WInv, [Next]_vars
    PROVE  WInv'
<1>1. CASE UNCHANGED vars
  BY <1>1 DEF vars, WInv, TypeOK, JobsPlaced, ModelReady, LoadCounted, ReleasingIdle, Active
<1>2. CASE Next
  BY <1>2, TakeWInv, JobStepWInv, LoadEndsWInv, SignalWInv, ExitWInv, CrashWInv, RestartWInv
     DEF Next, ShutdownStep
<1>3. QED  BY <1>1, <1>2

LEMMA WInvHolds == Spec => []WInv
  BY InitWInv, NextWInv, PTL DEF Spec

(* The type invariant of the worker processes: no job is tried beyond its  *)
(* attempts (queue.ts:27).                                                 *)
THEOREM TypeCorrect == Spec => []TypeOK
<1>1. WInv => TypeOK  BY DEF WInv
<1>2. QED  BY <1>1, WInvHolds, PTL

(* Any number of jobs that ask for the model share one load, and none      *)
(* begins beside a model in use (face-detector.ts:30).                     *)
THEOREM OneLoadTheorem == Spec => []OneLoadAtATime
<1>1. ASSUME WInv PROVE OneLoadAtATime
  BY <1>1 DEF WInv, LoadCounted, ModelReady, OneLoadAtATime
<1>2. QED  BY <1>1, WInvHolds, PTL

(* No job detects faces before the weights are loaded, through crashes,    *)
(* restarts and failed loads (face-detector.ts:57).                        *)
THEOREM DetectsWithModelTheorem == Spec => []DetectsWithModel
<1>1. ASSUME WInv PROVE DetectsWithModel
  <2>1. ASSUME NEW j \in Jobs, jobs[j].pc = "detect" PROVE jobs[j].at \in Processes
    BY <1>1, <2>1 DEF WInv, JobsPlaced, Active, ActivePCs
  <2>2. QED  BY <1>1, <2>1 DEF WInv, ModelReady, DetectsWithModel
<1>2. QED  BY <1>1, WInvHolds, PTL

(* A stop, however many signals arrive, interrupts no job (worker.ts:21).  *)
THEOREM StopTheorem == Spec => []StopInterruptsNoJob
<1>1. WInv => StopInterruptsNoJob  BY DEF WInv, JobsPlaced, StopInterruptsNoJob
<1>2. QED  BY <1>1, WInvHolds, PTL
=============================================================================
