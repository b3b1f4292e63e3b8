---------------------------- MODULE WorkerProcess ----------------------------
(***************************************************************************)
(* The life of the worker processes of Argon-BE: worker.ts, which starts a *)
(* BullMQ Worker and stops it on SIGINT and SIGTERM, and the one piece of  *)
(* state its jobs share, the lazily loaded face model of face-detector.ts. *)
(*                                                                         *)
(* A validate job is seen here by what it does with the model.  A job that *)
(* has used its attempts is failed in Redis at once; the listener that     *)
(* records it in the database runs after that, in the same process, and    *)
(* BullMQ does not wait for it.  processing.ts stops its workers the same  *)
(* way, without a model.                                                   *)
(***************************************************************************)
EXTENDS Naturals, FiniteSets

CONSTANTS
    Processes,   \* worker processes
    NoProcess,   \* where a job is that none has taken
    Jobs,        \* validate jobs, already in the queue
    Slots,       \* jobs a process runs at a time, 4 in the code
    Attempts,    \* attempts of a job, 3 in the code
    Signals,     \* the signals that stop a process: SIGINT and SIGTERM
    MaxStops,    \* bound on the signals of a behaviour
    MaxCrashes,  \* bound on the crashes
    MaxFaults    \* bound on the transient errors of loading or detecting

ASSUME WorkerAssumption ==
    /\ NoProcess \notin Processes
    /\ Slots \in Nat \ {0} /\ Attempts \in Nat \ {0}
    /\ MaxStops \in Nat /\ MaxCrashes \in Nat /\ MaxFaults \in Nat

VARIABLES
    up,           \* up[p]: process p is running
    initialized,  \* initialized[p]: the promise of that name in p
    faceapi,      \* faceapi[p]: the module variable of that name in p
    loading,      \* loading[p]: how many loads of the model are under way in p
    shutdowns,    \* shutdowns[p][s]: the call shutdown(s) in p
    jobs,         \* jobs[j]: attempts made, the process that has it, its next call
    stops, crashes, faults  \* how many there were

vars == <<up, initialized, faceapi, loading, shutdowns, jobs, stops, crashes, faults>>

-----------------------------------------------------------------------------
ActivePCs == {"start", "init", "detect"}
JobPCs == {"waiting", "handling", "done", "failed", "unrecorded"} \cup ActivePCs
Job == [pc : JobPCs, attempts : 0..Attempts, at : Processes \cup {NoProcess}]

JobAt(pc, attempts, p) == [pc |-> pc, attempts |-> attempts, at |-> p]

Active(j) == jobs[j].pc \in ActivePCs
ActiveIn(p) == {j \in Jobs : Active(j) /\ jobs[j].at = p}

(* worker.close() has been called: the worker takes no more jobs.          *)
Closing(p) == \E s \in Signals : shutdowns[p][s] # "idle"

Init ==
    /\ up = [p \in Processes |-> TRUE]
    /\ initialized = [p \in Processes |-> "null"]
    /\ faceapi = [p \in Processes |-> "null"]
    /\ loading = [p \in Processes |-> 0]
    /\ shutdowns = [p \in Processes |-> [s \in Signals |-> "idle"]]
    /\ jobs = [j \in Jobs |-> JobAt("waiting", 0, NoProcess)]
    /\ stops = 0 /\ crashes = 0 /\ faults = 0

-----------------------------------------------------------------------------
(* The jobs of a process.                                                  *)

Take(p, j) ==
    /\ up[p] /\ ~Closing(p) /\ Cardinality(ActiveIn(p)) < Slots
    /\ jobs[j].pc = "waiting"
    /\ jobs' = [jobs EXCEPT ![j] = JobAt("start", @.attempts, p)]
    /\ UNCHANGED <<up, initialized, faceapi, loading, shutdowns, stops, crashes, faults>>

(* Mutant of EnsureInitialized: a job that finds the modules required does *)
(* not wait for the weights.                                               *)
EnsureRequired(j) ==
    LET p == jobs[j].at
    IN  /\ jobs[j].pc = "start"
        /\ jobs' = [jobs EXCEPT ![j].pc = IF faceapi[p] = "null" THEN "init" ELSE "detect"]
        /\ IF initialized[p] = "null"
           THEN /\ initialized' = [initialized EXCEPT ![p] = "pending"]
                /\ faceapi' = [faceapi EXCEPT ![p] = "required"]
                /\ loading' = [loading EXCEPT ![p] = @ + 1]
           ELSE UNCHANGED <<initialized, faceapi, loading>>
        /\ UNCHANGED <<up, shutdowns, stops, crashes, faults>>

(* Mutant of EnsureInitialized: it tests for the end of the load, not for  *)
(* its beginning.                                                          *)
EnsureUnlessLoaded(j) ==
    LET p == jobs[j].at
    IN  /\ jobs[j].pc = "start"
        /\ jobs' = [jobs EXCEPT ![j].pc = "init"]
        /\ IF initialized[p] \in {"null", "pending"}
           THEN /\ initialized' = [initialized EXCEPT ![p] = "pending"]
                /\ faceapi' = [faceapi EXCEPT ![p] = "required"]
                /\ loading' = [loading EXCEPT ![p] = @ + 1]
           ELSE UNCHANGED <<initialized, faceapi, loading>>
        /\ UNCHANGED <<up, shutdowns, stops, crashes, faults>>

(* ensureInitialized up to its await: the first call requires the modules  *)
(* and begins to load the weights, the others await the same promise.      *)
EnsureInitialized(j) ==
    LET p == jobs[j].at
    IN  /\ jobs[j].pc = "start"
        /\ jobs' = [jobs EXCEPT ![j].pc = "init"]
        /\ IF initialized[p] = "null"
           THEN /\ initialized' = [initialized EXCEPT ![p] = "pending"]
                /\ faceapi' = [faceapi EXCEPT ![p] = "required"]
                /\ loading' = [loading EXCEPT ![p] = @ + 1]
           ELSE UNCHANGED <<initialized, faceapi, loading>>
        /\ UNCHANGED <<up, shutdowns, stops, crashes, faults>>

(* loadFromDisk ends.                                                      *)
LoadEnds(p) ==
    /\ initialized[p] = "pending"
    /\ loading' = [loading EXCEPT ![p] = @ - 1]
    /\ \/ /\ initialized' = [initialized EXCEPT ![p] = "resolved"]
          /\ faceapi' = [faceapi EXCEPT ![p] = "loaded"]
          /\ UNCHANGED faults
       \/ /\ faults < MaxFaults
          /\ initialized' = [initialized EXCEPT ![p] = "rejected"]
          /\ faults' = faults + 1
          /\ UNCHANGED faceapi
    /\ UNCHANGED <<up, shutdowns, jobs, stops, crashes>>

(* Mutant of Rejected: the attempts are not counted against their limit.   *)
RejectedForEver(j) ==
    jobs' = [jobs EXCEPT ![j] = JobAt("waiting", @.attempts + 1, NoProcess)]

(* The processor of j rejects: BullMQ has it tried again, or fails it and  *)
(* emits the failed event in its process.                                  *)
Rejected(j) ==
    LET spent == jobs[j].attempts + 1
    IN  jobs' = [jobs EXCEPT ![j] = IF spent < Attempts
                                    THEN JobAt("waiting", spent, NoProcess)
                                    ELSE JobAt("handling", spent, @.at)]

Awaited(j) ==
    /\ jobs[j].pc = "init"
    /\ \/ initialized[jobs[j].at] = "resolved" /\ jobs' = [jobs EXCEPT ![j].pc = "detect"]
       \/ initialized[jobs[j].at] = "rejected" /\ Rejected(j)
    /\ UNCHANGED <<up, initialized, faceapi, loading, shutdowns, stops, crashes, faults>>

(* detectAllFaces and what follows, to the end of the job.                 *)
Detect(j) ==
    /\ jobs[j].pc = "detect"
    /\ jobs' = [jobs EXCEPT ![j] = JobAt("done", @.attempts, NoProcess)]
    /\ UNCHANGED <<up, initialized, faceapi, loading, shutdowns, stops, crashes, faults>>

DetectFails(j) ==
    /\ jobs[j].pc = "detect" /\ faults < MaxFaults
    /\ Rejected(j)
    /\ faults' = faults + 1
    /\ UNCHANGED <<up, initialized, faceapi, loading, shutdowns, stops, crashes>>

(* The failed listener: markFailed and emitStatus.                         *)
FailedHandler(j) ==
    /\ jobs[j].pc = "handling"
    /\ jobs' = [jobs EXCEPT ![j] = JobAt("failed", @.attempts, NoProcess)]
    /\ UNCHANGED <<up, initialized, faceapi, loading, shutdowns, stops, crashes, faults>>

-----------------------------------------------------------------------------
(* Starting and stopping.                                                  *)

(* A signal arrives: each runs a shutdown of its own, the same signal      *)
(* again too; what a repeated one does is no more than the first.          *)
Signal(p, s) ==
    /\ up[p] /\ stops < MaxStops /\ shutdowns[p][s] = "idle"
    /\ shutdowns' = [shutdowns EXCEPT ![p][s] = "closing"]
    /\ stops' = stops + 1
    /\ UNCHANGED <<up, initialized, faceapi, loading, jobs, crashes, faults>>

(* Mutant of Closed: a second signal does not wait for worker.close().     *)
ClosedOnSecond(p, s) ==
    /\ shutdowns[p][s] = "closing"
    /\ ActiveIn(p) = {} \/ \E t \in Signals \ {s} : shutdowns[p][t] # "idle"
    /\ shutdowns' = [shutdowns EXCEPT ![p][s] = "releasing"]
    /\ UNCHANGED <<up, initialized, faceapi, loading, jobs, stops, crashes, faults>>

(* Mutant of Closed: it waits until the failed jobs are recorded too, by   *)
(* jobs of any process.                                                    *)
ClosedWhenQueueEmpty(p, s) ==
    /\ shutdowns[p][s] = "closing"
    /\ \A j \in Jobs : jobs[j].pc \in {"done", "failed"}
    /\ shutdowns' = [shutdowns EXCEPT ![p][s] = "releasing"]
    /\ UNCHANGED <<up, initialized, faceapi, loading, jobs, stops, crashes, faults>>

(* worker.close() resolves, for every caller, when no job of the process   *)
(* is running.                                                             *)
Closed(p, s) ==
    /\ shutdowns[p][s] = "closing" /\ ActiveIn(p) = {}
    /\ shutdowns' = [shutdowns EXCEPT ![p][s] = "releasing"]
    /\ UNCHANGED <<up, initialized, faceapi, loading, jobs, stops, crashes, faults>>

(* The process is gone: its memory, with the jobs and listeners it ran.    *)
(* Redis delivers the jobs again; a job already failed is not.             *)
Ends(p) ==
    /\ up' = [up EXCEPT ![p] = FALSE]
    /\ initialized' = [initialized EXCEPT ![p] = "null"]
    /\ faceapi' = [faceapi EXCEPT ![p] = "null"]
    /\ loading' = [loading EXCEPT ![p] = 0]
    /\ shutdowns' = [shutdowns EXCEPT ![p] = [s \in Signals |-> "idle"]]

Listening(p) == {j \in Jobs : jobs[j].pc = "handling" /\ jobs[j].at = p}

(* The connections are closed, then process.exit.                          *)
Exit(p, s) ==
    /\ shutdowns[p][s] = "releasing"
    /\ Ends(p)
    /\ jobs' = [j \in Jobs |->
          IF j \in Listening(p) THEN JobAt("unrecorded", jobs[j].attempts, NoProcess)
          ELSE jobs[j]]
    /\ UNCHANGED <<stops, crashes, faults>>

(* Mutant of Crash: a job that was running is not delivered again.         *)
CrashLosesJobs(p) ==
    /\ up[p] /\ crashes < MaxCrashes
    /\ Ends(p)
    /\ jobs' = [j \in Jobs |->
          IF j \in Listening(p) THEN JobAt("unrecorded", jobs[j].attempts, NoProcess)
          ELSE jobs[j]]
    /\ crashes' = crashes + 1
    /\ UNCHANGED <<stops, faults>>

Crash(p) ==
    /\ up[p] /\ crashes < MaxCrashes
    /\ Ends(p)
    /\ jobs' = [j \in Jobs |->
          IF j \in ActiveIn(p) THEN JobAt("waiting", jobs[j].attempts, NoProcess)
          ELSE IF j \in Listening(p) THEN JobAt("unrecorded", jobs[j].attempts, NoProcess)
          ELSE jobs[j]]
    /\ crashes' = crashes + 1
    /\ UNCHANGED <<stops, faults>>

(* The operator or a supervisor starts it again.                           *)
Restart(p) ==
    /\ ~up[p]
    /\ up' = [up EXCEPT ![p] = TRUE]
    /\ UNCHANGED <<initialized, faceapi, loading, shutdowns, jobs, stops, crashes, faults>>

-----------------------------------------------------------------------------
JobStep(j) ==
    EnsureInitialized(j) \/ Awaited(j) \/ Detect(j) \/ DetectFails(j) \/ FailedHandler(j)

ShutdownStep(p) == \E s \in Signals : Closed(p, s) \/ Exit(p, s)

Next ==
    \/ \E j \in Jobs : JobStep(j) \/ \E p \in Processes : Take(p, j)
    \/ \E p \in Processes :
          \/ LoadEnds(p) \/ ShutdownStep(p) \/ Crash(p) \/ Restart(p)
          \/ \E s \in Signals : Signal(p, s)

Spec == Init /\ [][Next]_vars

(* The event loop and BullMQ go on; a process that ended is started again. *)
Fairness ==
    /\ \A j \in Jobs : WF_vars(JobStep(j)) /\ WF_vars(\E p \in Processes : Take(p, j))
    /\ \A p \in Processes :
          WF_vars(LoadEnds(p)) /\ WF_vars(ShutdownStep(p)) /\ WF_vars(Restart(p))

FairSpec == Spec /\ Fairness

-----------------------------------------------------------------------------
(* Properties.                                                             *)

(* Every variable has its type; in particular no job is tried beyond its   *)
(* attempts (queue.ts:27).                                                 *)
TypeOK ==
    /\ up \in [Processes -> BOOLEAN]
    /\ initialized \in [Processes -> {"null", "pending", "resolved", "rejected"}]
    /\ faceapi \in [Processes -> {"null", "required", "loaded"}]
    /\ loading \in [Processes -> Nat]
    /\ shutdowns \in [Processes -> [Signals -> {"idle", "closing", "releasing"}]]
    /\ jobs \in [Jobs -> Job]
    /\ stops \in 0..MaxStops /\ crashes \in 0..MaxCrashes /\ faults \in 0..MaxFaults

(* However many jobs ask for the model at once, they share one load, and   *)
(* none begins when the model is there: a load would change the networks   *)
(* under the jobs that use them (face-detector.ts:30: the promise is       *)
(* stored before any await).  That a failed load is not tried again is no  *)
(* part of it.                                                             *)
OneLoadAtATime ==
    \A p \in Processes :
        loading[p] <= 1 /\ (faceapi[p] = "loaded" => loading[p] = 0)

(* No job detects faces with modules that are required but whose weights   *)
(* are not loaded (face-detector.ts:52: every caller awaits the promise).  *)
DetectsWithModel ==
    \A j \in Jobs : jobs[j].pc = "detect" => faceapi[jobs[j].at] = "loaded"

(* A stop interrupts no job, however many signals arrive while it is under *)
(* way: whatever process has an active job is up, unless it crashed, and   *)
(* then the job is back in the queue (worker.ts:21).                       *)
StopInterruptsNoJob == \A j \in Jobs : Active(j) => up[jobs[j].at]

(* A process that was told to stop stops.                                  *)
StopEnds == \A p \in Processes : Closing(p) ~> ~up[p]

(* Every job ends, through stops, crashes and failed loads; with its       *)
(* failure unrecorded at worst.                                            *)
JobsEnd == \A j \in Jobs : <>[](jobs[j].pc \in {"done", "failed", "unrecorded"})

-----------------------------------------------------------------------------
(* Statements of the documentation that the code does not keep.            *)

(* docs/architecture.md:274: "Transient/infra errors throw and let BullMQ  *)
(* retry (3x, exponential backoff)": a job does not fail for good on fewer *)
(* errors than it has attempts.                                            *)
TransientErrorsRetried ==
    \A j \in Jobs :
        jobs[j].pc \in {"handling", "failed", "unrecorded"} => faults >= Attempts
=============================================================================
