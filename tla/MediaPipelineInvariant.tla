------------------------- MODULE MediaPipelineInvariant -------------------------
(***************************************************************************)
(* The inductive invariant of the media pipeline and what follows from it: *)
(* a stage always finds its input, rows point at stored objects only, and  *)
(* a COMPLETED image has all of its variants.                              *)
(*                                                                         *)
(* The argument: the writes of the pipeline only add to a row and to the   *)
(* objects of its image (DataKept), so what a job has established before   *)
(* one call still holds at the next, whoever ran in between; only remove   *)
(* takes a row away, and then for good, because every later write needs    *)
(* the row.                                                                *)
(***************************************************************************)
EXTENDS MediaPipelineProofs

(* IInv, sorted by the job, the image and the request it speaks of.        *)
ImageSound(i) ==
    /\ StraysSound(i)
    /\ RowSound(i)
    /\ rows[i].keys \cup rows[i].variants \subseteq objects[i]
    /\ rows[i].status = "COMPLETED" =>
          rows[i].variants = VariantTypes /\ VariantTypes \subseteq objects[i]

LEMMA IInvParts ==
    /\ IInv <=> /\ \A j \in Jobs : JobSound(j) /\ InputReady(j)
                /\ \A i \in Images : ImageSound(i)
                /\ \A r \in Requests : RequestSound(r)
    /\ IInv' <=> /\ \A j \in Jobs : JobSound(j)' /\ InputReady(j)'
                 /\ \A i \in Images : ImageSound(i)'
                 /\ \A r \in Requests : RequestSound(r)'
  BY DEF IInv, ImageSound, StageInputsReady, RowsPointAtObjects, CompletedHasAllVariants

-----------------------------------------------------------------------------
(* What a step leaves of the data.                                         *)

(* No derived object is lost; a row that exists after the step, of an      *)
(* image created before it, existed before and has lost nothing.           *)
ImageKept(i) ==
    /\ objects[i] \ {"original"} \subseteq objects'[i]
    /\ Created(i) => Created(i)'
    /\ Created(i) /\ Exists(i)' =>
          /\ Exists(i)
          /\ rows[i].keys \subseteq rows'[i].keys
          /\ rows[i].variants \subseteq rows'[i].variants

DataKept == \A i \in Images : ImageKept(i)

(* The outputs of the stages are not the original.                         *)
LEMMA OutputsDerived ==
    /\ \A k \in Keys \cup VariantTypes : k # "original"
    /\ \A stage \in Stages : InputOf(stage) \in Keys
    /\ \A stage \in Stages \ {"variants"} : StageSpec[stage].output \in Keys
  BY ConstantsAssumption
     DEF ConstantsAssumption, Keys, Stages, InputOf, StageSpec, ConvertStage,
         CompressStage, VariantsStage

(* A job that a step does not touch stays sound if the data is kept.       *)
LEMMA JobFrame ==
    ASSUME TypeOK, IInv, DataKept, NEW k \in Jobs, jobs'[k] = jobs[k]
    PROVE  JobSound(k)' /\ InputReady(k)'
<1>0. JobSound(k) /\ InputReady(k)  BY IInvParts
<1>1. CASE ~Live(k)
  BY <1>1 DEF JobSound, InputReady, Live
<1>2. CASE Live(k)
  <2>1. jobs[k] \in Job /\ jobs[k] \in JobRecord  BY <1>2, LiveIsJob
  <2>2. jobs[k].image \in Images /\ jobs[k].stage \in Stages  BY <2>1 DEF JobRecord
  <2>3. ImageKept(jobs[k].image)  BY <2>2 DEF DataKept
  <2>4. Created(jobs[k].image)  BY <1>0, <1>2 DEF JobSound
  <2>5. InputReady(k)'
    BY <1>0, <1>2, <2>2, <2>3, <2>4, OutputsDerived DEF InputReady, ImageKept, Live
  <2>6. jobs[k].pc \in {"record", "handoff"} => StageSpec[jobs[k].stage].output # "original"
    BY <2>1, <2>2, OutputsDerived DEF Job
  <2>7. JobSound(k)'
    BY <1>0, <1>2, <2>2, <2>3, <2>4, <2>6, OutputsDerived DEF JobSound, ImageKept, Live
  <2>8. QED  BY <2>5, <2>7
<1>3. QED  BY <1>1, <1>2

(* A job at the start of an attempt, or given up, is sound if its input is *)
(* there.                                                                  *)
LEMMA JobAtSound ==
    ASSUME NEW k \in Jobs, NEW stage \in Stages, NEW i \in Images, NEW n, NEW pc,
           pc \in {"waiting", "failing"},
           jobs'[k] = JobAt(stage, i, n, pc), Created(i)',
           stage # "convert" /\ Exists(i)' =>
              InputOf(stage) \in rows'[i].keys /\ InputOf(stage) \in objects'[i]
    PROVE  JobSound(k)' /\ InputReady(k)'
  BY DEF JobSound, InputReady, JobAt, Live

(* An image whose row, objects and branches a step leaves alone.           *)
LEMMA ImageFrame ==
    ASSUME NEW i \in Images, ImageSound(i),
           rows'[i] = rows[i], objects'[i] = objects[i], strays'[i] = strays[i],
           Created(i) => Created(i)'
    PROVE  ImageSound(i)'
  BY DEF ImageSound, StraysSound, RowSound, Exists

(* A request that a step leaves alone.                                     *)
LEMMA RequestFrame ==
    ASSUME TypeOK, NEW r \in Requests, RequestSound(r), DataKept,
           requests'[r] = requests[r]
    PROVE  RequestSound(r)'
<1>1. CASE requests[r].pc \in {"mark", "enqueue", "objects", "row"}
  BY <1>1, InFlightIsRequest DEF RequestSound, DataKept, ImageKept
<1>2. CASE requests[r].pc \notin {"mark", "enqueue", "objects", "row"}
  BY <1>2 DEF RequestSound
<1>3. QED  BY <1>1, <1>2

(* What the control step of a job leaves.                                  *)
LEMMA AdvanceEffect ==
    ASSUME TypeOK, NEW j \in Jobs, Live(j), NEW pc, Advance(j, pc)
    PROVE  /\ jobs'[j].pc = pc
           /\ jobs'[j].stage = jobs[j].stage /\ jobs'[j].image = jobs[j].image
           /\ jobs'[j].source = jobs[j].source /\ jobs'[j].branch = jobs[j].branch
           /\ \A k \in Jobs \ {j} : jobs'[k] = jobs[k]
<1>1. jobs[j] \in JobRecord  BY LiveIsJob
<1>2. QED  BY <1>1 DEF Advance, TypeOK, JobRecord

(* A write to the row of i that changes its status, or adds to it.         *)
LEMMA RowEffect ==
    ASSUME TypeOK, NEW i \in Images, Exists(i)
    PROVE  /\ \A s : SetStatus(i, s) =>
                /\ rows'[i].status = s
                /\ rows'[i].keys = rows[i].keys /\ rows'[i].variants = rows[i].variants
                /\ \A l \in Images \ {i} : rows'[l] = rows[l]
           /\ \A k : AddKey(i, k) =>
                /\ rows'[i].status = rows[i].status
                /\ rows'[i].keys = rows[i].keys \cup {k}
                /\ rows'[i].variants = rows[i].variants
                /\ \A l \in Images \ {i} : rows'[l] = rows[l]
           /\ \A t : UpsertVariant(i, t) =>
                /\ rows'[i].status = rows[i].status /\ rows'[i].keys = rows[i].keys
                /\ rows'[i].variants = rows[i].variants \cup {t}
                /\ \A l \in Images \ {i} : rows'[l] = rows[l]
           /\ MarkCompleted(i) =>
                /\ rows'[i].status = "COMPLETED"
                /\ rows'[i].keys = rows[i].keys /\ rows'[i].variants = rows[i].variants
                /\ \A l \in Images \ {i} : rows'[l] = rows[l]
           /\ MarkProcessingFailed(i) =>
                /\ rows'[i].status = "FAILED"
                /\ rows'[i].keys = rows[i].keys /\ rows'[i].variants = rows[i].variants
                /\ \A l \in Images \ {i} : rows'[l] = rows[l]
<1>1. rows[i] \in Row  BY DEF TypeOK, Exists, NoRow
<1>2. rows \in [Images -> Row \cup {NoRow}]  BY DEF TypeOK
<1>3. ASSUME NEW s, SetStatus(i, s)
      PROVE  /\ rows'[i].status = s
             /\ rows'[i].keys = rows[i].keys /\ rows'[i].variants = rows[i].variants
             /\ \A l \in Images \ {i} : rows'[l] = rows[l]
  BY <1>1, <1>2, <1>3 DEF SetStatus, Row
<1>4. ASSUME NEW k, AddKey(i, k)
      PROVE  /\ rows'[i].status = rows[i].status
             /\ rows'[i].keys = rows[i].keys \cup {k}
             /\ rows'[i].variants = rows[i].variants
             /\ \A l \in Images \ {i} : rows'[l] = rows[l]
  BY <1>1, <1>2, <1>4 DEF AddKey, Row
<1>5. ASSUME NEW t, UpsertVariant(i, t)
      PROVE  /\ rows'[i].status = rows[i].status /\ rows'[i].keys = rows[i].keys
             /\ rows'[i].variants = rows[i].variants \cup {t}
             /\ \A l \in Images \ {i} : rows'[l] = rows[l]
  BY <1>1, <1>2, <1>5 DEF UpsertVariant, Row
<1>6. ASSUME MarkCompleted(i)
      PROVE  /\ rows'[i].status = "COMPLETED"
             /\ rows'[i].keys = rows[i].keys /\ rows'[i].variants = rows[i].variants
             /\ \A l \in Images \ {i} : rows'[l] = rows[l]
  BY <1>1, <1>2, <1>6 DEF MarkCompleted, Row
<1>7. ASSUME MarkProcessingFailed(i)
      PROVE  /\ rows'[i].status = "FAILED"
             /\ rows'[i].keys = rows[i].keys /\ rows'[i].variants = rows[i].variants
             /\ \A l \in Images \ {i} : rows'[l] = rows[l]
  BY <1>1, <1>2, <1>7 DEF MarkProcessingFailed, Row
<1>8. QED  BY <1>3, <1>4, <1>5, <1>6, <1>7

(* A step that leaves rows, objects and seeds alone keeps the data.        *)
LEMMA ControlKeepsData ==
    ASSUME UNCHANGED <<rows, objects, seeds>>
    PROVE  DataKept
  BY DEF DataKept, ImageKept, Created, Exists

(* So does a write to the row of an image that adds to it, with the        *)
(* objects and seeds unchanged.                                            *)
LEMMA RowWriteKeepsData ==
    ASSUME NEW i \in Images, Exists(i), UNCHANGED <<objects, seeds>>,
           rows[i].keys \subseteq rows'[i].keys,
           rows[i].variants \subseteq rows'[i].variants,
           \A l \in Images \ {i} : rows'[l] = rows[l]
    PROVE  DataKept
  BY DEF DataKept, ImageKept, Created, Exists

(* And a put.                                                              *)
LEMMA PutKeepsData ==
    ASSUME TypeOK, NEW i \in Images, NEW kind, PutObject(i, kind),
           UNCHANGED <<rows, seeds>>
    PROVE  /\ DataKept
           /\ objects'[i] = objects[i] \cup {kind}
           /\ \A l \in Images : objects[l] \subseteq objects'[l]
  BY DEF DataKept, ImageKept, Created, Exists, PutObject, TypeOK

(* More objects never make an image unsound.                               *)
LEMMA ImageGrowth ==
    ASSUME NEW i \in Images, ImageSound(i), rows'[i] = rows[i],
           strays'[i] = strays[i], seeds' = seeds, objects[i] \subseteq objects'[i]
    PROVE  ImageSound(i)'
  BY DEF ImageSound, StraysSound, RowSound, Exists, Created

(* A write that adds to a row keeps its image sound if it keeps the order  *)
(* of the outputs, names stored objects only, and completes a complete row.*)
LEMMA ImageWrite ==
    ASSUME NEW i \in Images, ImageSound(i), Created(i), Exists(i),
           UNCHANGED <<objects, strays, seeds>>,
           rows[i].keys \subseteq rows'[i].keys,
           rows'[i].keys \cup rows'[i].variants \subseteq objects[i],
           "compressed" \in rows'[i].keys => "normalized" \in rows'[i].keys,
           rows'[i].variants # {} => "compressed" \in rows'[i].keys,
           rows'[i].status = "COMPLETED" => rows'[i].variants = VariantTypes
    PROVE  ImageSound(i)'
<1>1. StraysSound(i)'
  BY DEF ImageSound, StraysSound, Created, Exists
<1>2. RowSound(i)'
  BY DEF RowSound, Created
<1>3. QED  BY <1>1, <1>2 DEF ImageSound

-----------------------------------------------------------------------------
(* The steps of the stage processors.                                      *)

LEMMA StageStepSound ==
    ASSUME TypeOK, IInv, NEW j \in Jobs, StageStep(j)
    PROVE  IInv'
<1>0. /\ jobs[j] \in Job /\ jobs[j] \in JobRecord
      /\ Live(j) /\ jobs[j].pc # "failing"
  <2>1. Live(j) /\ jobs[j].pc # "failing"
    BY DEF StageStep, Live, Load, Mark, Fetch, Store, Record, Handoff, RenderPut,
           RenderUpsert, Complete, Ack
  <2>2. QED  BY <2>1, LiveIsJob
<1> PICK i \in Images, stage \in Stages : i = jobs[j].image /\ stage = jobs[j].stage
  BY <1>0 DEF JobRecord
<1>s. /\ \A k \in Jobs : JobSound(k) /\ InputReady(k)
      /\ \A l \in Images : ImageSound(l)
      /\ \A r \in Requests : RequestSound(r)
  BY IInvParts
<1>c. Created(i)  BY <1>0, <1>s DEF JobSound
<1>q. ASSUME DataKept, \A k \in Jobs \ {j} : jobs'[k] = jobs[k],
             JobSound(j)' /\ InputReady(j)',
             \A l \in Images : ImageSound(l)', requests' = requests
      PROVE  IInv'
  BY <1>s, <1>q, JobFrame, RequestFrame, IInvParts
<1>1. CASE Load(j)
  <2>1. DataKept  BY <1>1, ControlKeepsData DEF Load
  <2>2. /\ \A k \in Jobs \ {j} : jobs'[k] = jobs[k]
        /\ jobs'[j].pc \in {"ack", "mark"} /\ jobs'[j].image = i
        /\ jobs'[j].stage = stage /\ jobs'[j].branch = jobs[j].branch
        /\ \/ ~Exists(i)
           \/ jobs'[j].source = SourceOf(stage, rows[i])
    BY <1>0, <1>1 DEF Load, Advance, TypeOK, JobRecord
  <2>3. JobSound(j)'
    BY <1>0, <1>1, <1>c, <1>s, <2>2 DEF Load, JobSound, Created
  <2>4. InputReady(j)'
    BY <1>0, <1>1, <1>s, <2>2
       DEF Load, InputReady, InputOf, SourceOf, Stages, Exists, Live
  <2>5. \A l \in Images : ImageSound(l)'
    BY <1>1, <1>s, ImageFrame DEF Load, Created
  <2>6. QED  BY <1>1, <1>q, <2>1, <2>2, <2>3, <2>4, <2>5 DEF Load
<1>2. CASE Mark(j)
  <2>1. /\ Exists(i) /\ rows'[i].status = StageSpec[stage].status
        /\ rows'[i].keys = rows[i].keys /\ rows'[i].variants = rows[i].variants
        /\ \A l \in Images \ {i} : rows'[l] = rows[l]
    BY <1>2, RowEffect DEF Mark
  <2>2. DataKept  BY <1>2, <2>1, RowWriteKeepsData DEF Mark
  <2>3. /\ \A k \in Jobs \ {j} : jobs'[k] = jobs[k]
        /\ jobs'[j].pc = "fetch" /\ jobs'[j].image = i /\ jobs'[j].stage = stage
        /\ jobs'[j].source = jobs[j].source /\ jobs'[j].branch = jobs[j].branch
    BY <1>0, <1>2, AdvanceEffect DEF Mark
  <2>4. JobSound(j)'
    BY <1>0, <1>2, <1>c, <1>s, <2>3 DEF Mark, JobSound, Created
  <2>5. InputReady(j)'
    BY <1>0, <1>2, <1>s, <2>1, <2>3 DEF Mark, InputReady, Live
  <2>6. ImageSound(i)'
    <3>1. StageSpec[stage].status \notin {"COMPLETED", "NONE"}
      BY DEF Stages, StageSpec, ConvertStage, CompressStage, VariantsStage
    <3>2. /\ ImageSound(i)
          /\ rows[i].keys \cup rows[i].variants \subseteq objects[i]
          /\ "compressed" \in rows[i].keys => "normalized" \in rows[i].keys
          /\ rows[i].variants # {} => "compressed" \in rows[i].keys
          /\ rows[i].status = "COMPLETED" => rows[i].variants = VariantTypes
      BY <1>s DEF ImageSound, RowSound
    <3>3. QED
      BY <1>2, <1>c, <2>1, <3>1, <3>2, ImageWrite DEF Mark
  <2>7. \A l \in Images \ {i} : ImageSound(l)'
    BY <1>2, <1>s, <2>1, ImageFrame DEF Mark, Created
  <2>8. QED  BY <1>2, <1>q, <2>2, <2>3, <2>4, <2>5, <2>6, <2>7 DEF Mark
<1>3. CASE Fetch(j)
  <2>1. DataKept  BY <1>3, ControlKeepsData DEF Fetch
  <2>2. /\ \A k \in Jobs \ {j} : jobs'[k] = jobs[k]
        /\ jobs'[j].pc = IF stage = "variants" THEN "render" ELSE "store"
        /\ jobs'[j].image = i /\ jobs'[j].stage = stage
        /\ jobs'[j].source = jobs[j].source /\ jobs'[j].branch = jobs[j].branch
    BY <1>0, <1>3, AdvanceEffect DEF Fetch
  <2>3. jobs[j].branch = AllPut  BY <1>3, <1>0, <1>s DEF Fetch, JobSound
  <2>4. JobSound(j)'
    BY <1>3, <1>c, <2>2, <2>3 DEF Fetch, JobSound, Created, AllPut
  <2>5. InputReady(j)'
    BY <1>0, <1>3, <1>s, <2>2 DEF Fetch, InputReady, Exists, Live
  <2>6. \A l \in Images : ImageSound(l)'
    BY <1>3, <1>s, ImageFrame DEF Fetch, Created
  <2>7. QED  BY <1>3, <1>q, <2>1, <2>2, <2>4, <2>5, <2>6 DEF Fetch
<1>4. CASE Store(j)
  <2> DEFINE output == StageSpec[stage].output
  <2>1. output \in Keys  BY <1>0, <1>4, OutputsDerived DEF Store, Job
  <2>2. /\ DataKept /\ objects'[i] = objects[i] \cup {output}
        /\ \A l \in Images : objects[l] \subseteq objects'[l]
    BY <1>4, PutKeepsData DEF Store
  <2>3. /\ \A k \in Jobs \ {j} : jobs'[k] = jobs[k]
        /\ jobs'[j].pc = "record" /\ jobs'[j].image = i /\ jobs'[j].stage = stage
        /\ jobs'[j].source = jobs[j].source
    BY <1>0, <1>4, AdvanceEffect DEF Store
  <2>4. JobSound(j)'
    BY <1>4, <1>c, <2>2, <2>3 DEF Store, JobSound, Created
  <2>5. InputReady(j)'
    BY <1>0, <1>4, <1>s, <2>2, <2>3 DEF Store, InputReady, Exists, Live
  <2>6. \A l \in Images : ImageSound(l)'
    BY <1>4, <1>s, <2>2, ImageGrowth DEF Store
  <2>7. QED  BY <1>4, <1>q, <2>2, <2>3, <2>4, <2>5, <2>6 DEF Store
<1>5. CASE Record(j)
  <2> DEFINE output == StageSpec[stage].output
  <2>1. /\ output \in objects[i] /\ stage # "variants"
    BY <1>0, <1>5, <1>s DEF Record, JobSound, Job
  <2>2. /\ Exists(i) /\ rows'[i].status = rows[i].status
        /\ rows'[i].keys = rows[i].keys \cup {output}
        /\ rows'[i].variants = rows[i].variants
        /\ \A l \in Images \ {i} : rows'[l] = rows[l]
    BY <1>5, RowEffect DEF Record
  <2>3. DataKept  BY <1>5, <2>2, RowWriteKeepsData DEF Record
  <2>4. /\ \A k \in Jobs \ {j} : jobs'[k] = jobs[k]
        /\ jobs'[j].pc = "handoff" /\ jobs'[j].image = i /\ jobs'[j].stage = stage
        /\ jobs'[j].source = jobs[j].source
    BY <1>0, <1>5, AdvanceEffect DEF Record
  <2>5. JobSound(j)'
    BY <1>5, <1>c, <2>2, <2>4 DEF Record, JobSound, Created
  <2>6. InputReady(j)'
    BY <1>0, <1>5, <1>s, <2>2, <2>4 DEF Record, InputReady, Exists, Live
  <2>7. ImageSound(i)'
    <3>1. output = "compressed" => "normalized" \in rows[i].keys
      BY <1>0, <1>s, <2>1, <2>2
         DEF InputReady, InputOf, Stages, StageSpec, ConvertStage, CompressStage
    <3>2. output \in {"normalized", "compressed"}
      BY <2>1, OutputsDerived DEF Keys
    <3>3. /\ ImageSound(i)
          /\ rows[i].keys \cup rows[i].variants \subseteq objects[i]
          /\ "compressed" \in rows[i].keys => "normalized" \in rows[i].keys
          /\ rows[i].variants # {} => "compressed" \in rows[i].keys
          /\ rows[i].status = "COMPLETED" => rows[i].variants = VariantTypes
      BY <1>s DEF ImageSound, RowSound
    <3>4. QED
      BY <1>5, <1>c, <2>1, <2>2, <3>1, <3>2, <3>3, ImageWrite DEF Record
  <2>8. \A l \in Images \ {i} : ImageSound(l)'
    BY <1>5, <1>s, <2>2, ImageFrame DEF Record, Created
  <2>9. QED  BY <1>5, <1>q, <2>3, <2>4, <2>5, <2>6, <2>7, <2>8 DEF Record
<1>6. CASE Handoff(j)
  <2> DEFINE next == StageSpec[stage].next
  <2>1. DataKept  BY <1>6, ControlKeepsData DEF Handoff
  <2>2. PICK k \in Jobs :
           /\ ~Live(k)
           /\ jobs' = [jobs EXCEPT ![j].pc = "ack", ![k] = NewJob(next, i)]
    BY <1>6 DEF Handoff
  <2>3. /\ j # k
        /\ \A l \in Jobs \ {j, k} : jobs'[l] = jobs[l]
        /\ jobs'[j].pc = "ack" /\ jobs'[j].image = i /\ jobs'[j].stage = stage
        /\ jobs'[j].source = jobs[j].source
        /\ jobs'[k] = JobAt(next, i, 0, "waiting")
    BY <1>0, <2>2 DEF TypeOK, JobRecord, NewJob
  <2>4. JobSound(j)' /\ InputReady(j)'
    BY <1>0, <1>6, <1>c, <1>s, <2>3
       DEF Handoff, JobSound, InputReady, Created, Exists, Live
  <2>5. JobSound(k)' /\ InputReady(k)'
    <3>1. stage # "variants"  BY <1>0, <1>6 DEF Handoff, Job
    <3>2. next \in Stages /\ next # "convert" /\ InputOf(next) = StageSpec[stage].output
      BY <3>1
         DEF Stages, StageSpec, ConvertStage, CompressStage, InputOf
    <3>3. Exists(i) => InputOf(next) \in rows[i].keys /\ InputOf(next) \in objects[i]
      <4>1. JobSound(j) /\ ImageSound(i)  BY <1>s
      <4>2. QED  BY <1>0, <1>6, <3>2, <4>1 DEF Handoff, JobSound, ImageSound
    <3>4. Exists(i)' => InputOf(next) \in rows'[i].keys /\ InputOf(next) \in objects'[i]
      BY <1>6, <3>3 DEF Handoff, Exists
    <3>5. Created(i)'  BY <1>6, <1>c DEF Handoff, Created
    <3>6. QED  BY <2>3, <3>2, <3>4, <3>5, JobAtSound
  <2>6. \A l \in Images : ImageSound(l)'
    BY <1>6, <1>s, ImageFrame DEF Handoff, Created
  <2>7. \A r \in Requests : RequestSound(r)'
    BY <1>6, <1>s, <2>1, RequestFrame DEF Handoff
  <2>8. QED  BY <2>1, <2>3, <2>4, <2>5, <2>6, <2>7, JobFrame, IInvParts
<1>7. ASSUME NEW t \in VariantTypes, RenderPut(j, t) PROVE IInv'
  <2>1. /\ DataKept /\ objects'[i] = objects[i] \cup {t}
        /\ \A l \in Images : objects[l] \subseteq objects'[l]
    BY <1>7, PutKeepsData DEF RenderPut
  <2>2. /\ \A k \in Jobs \ {j} : jobs'[k] = jobs[k]
        /\ jobs'[j].pc = "render" /\ jobs'[j].image = i /\ jobs'[j].stage = stage
        /\ jobs'[j].source = jobs[j].source
        /\ jobs'[j].branch[t] = "upsert"
        /\ \A u \in VariantTypes \ {t} : jobs'[j].branch[u] = jobs[j].branch[u]
    BY <1>0, <1>7 DEF RenderPut, TypeOK, JobRecord
  <2>3. JobSound(j)'
    BY <1>0, <1>7, <1>c, <1>s, <2>1, <2>2 DEF RenderPut, JobSound, Created, Exists
  <2>4. InputReady(j)'
    BY <1>0, <1>7, <1>s, <2>1, <2>2 DEF RenderPut, InputReady, Exists, Live
  <2>5. \A l \in Images : ImageSound(l)'
    BY <1>7, <1>s, <2>1, ImageGrowth DEF RenderPut
  <2>6. QED  BY <1>7, <1>q, <2>1, <2>2, <2>3, <2>4, <2>5 DEF RenderPut
<1>8. ASSUME NEW t \in VariantTypes, RenderUpsert(j, t) PROVE IInv'
  <2>1. /\ Exists(i) /\ rows'[i].status = rows[i].status /\ rows'[i].keys = rows[i].keys
        /\ rows'[i].variants = rows[i].variants \cup {t}
        /\ \A l \in Images \ {i} : rows'[l] = rows[l]
    BY <1>8, RowEffect DEF RenderUpsert
  <2>2. DataKept  BY <1>8, <2>1, RowWriteKeepsData DEF RenderUpsert
  <2>3. /\ \A k \in Jobs \ {j} : jobs'[k] = jobs[k]
        /\ jobs'[j].pc = "render" /\ jobs'[j].image = i /\ jobs'[j].stage = stage
        /\ jobs'[j].source = jobs[j].source
        /\ jobs'[j].branch[t] = "done"
        /\ \A u \in VariantTypes \ {t} : jobs'[j].branch[u] = jobs[j].branch[u]
    BY <1>0, <1>8 DEF RenderUpsert, TypeOK, JobRecord
  <2>4. t \in objects[i] /\ "compressed" \in rows[i].keys
    BY <1>0, <1>8, <1>s, <2>1
       DEF RenderUpsert, JobSound, InputReady, InputOf, Job
  <2>5. JobSound(j)'
    BY <1>0, <1>8, <1>c, <1>s, <2>1, <2>3, <2>4 DEF RenderUpsert, JobSound, Created, Exists
  <2>6. InputReady(j)'
    BY <1>0, <1>8, <1>s, <2>1, <2>3 DEF RenderUpsert, InputReady, Exists, Live
  <2>7. ImageSound(i)'
    <3>1. /\ ImageSound(i)
          /\ rows[i].keys \cup rows[i].variants \subseteq objects[i]
          /\ "compressed" \in rows[i].keys => "normalized" \in rows[i].keys
          /\ rows[i].variants # {} => "compressed" \in rows[i].keys
          /\ rows[i].status = "COMPLETED" => rows[i].variants = VariantTypes
      BY <1>s DEF ImageSound, RowSound
    <3>2. rows[i].variants \subseteq VariantTypes
      BY <2>1 DEF TypeOK, Exists, Row, NoRow
    <3>3. QED
      BY <1>8, <1>c, <2>1, <2>4, <3>1, <3>2, ImageWrite DEF RenderUpsert
  <2>8. \A l \in Images \ {i} : ImageSound(l)'
    BY <1>8, <1>s, <2>1, ImageFrame DEF RenderUpsert, Created
  <2>9. QED  BY <1>8, <1>q, <2>2, <2>3, <2>5, <2>6, <2>7, <2>8 DEF RenderUpsert
<1>9. CASE Complete(j)
  <2>1. /\ Exists(i) /\ rows'[i].status = "COMPLETED"
        /\ rows'[i].keys = rows[i].keys /\ rows'[i].variants = rows[i].variants
        /\ \A l \in Images \ {i} : rows'[l] = rows[l]
    BY <1>9, RowEffect DEF Complete
  <2>2. DataKept  BY <1>9, <2>1, RowWriteKeepsData DEF Complete
  <2>3. /\ \A k \in Jobs \ {j} : jobs'[k] = jobs[k]
        /\ jobs'[j].pc = "ack" /\ jobs'[j].image = i /\ jobs'[j].stage = stage
        /\ jobs'[j].source = jobs[j].source
    BY <1>0, <1>9, AdvanceEffect DEF Complete
  <2>4. JobSound(j)'
    BY <1>9, <1>c, <2>3 DEF Complete, JobSound, Created
  <2>5. InputReady(j)'
    BY <1>0, <1>9, <1>s, <2>1, <2>3 DEF Complete, InputReady, Exists, Live
  <2>6. ImageSound(i)'
    <3>1. VariantTypes \subseteq rows[i].variants
      BY <1>0, <1>9, <1>s, <2>1 DEF Complete, JobSound
    <3>2. rows[i].variants \subseteq VariantTypes
      BY <2>1 DEF TypeOK, Exists, Row, NoRow
    <3>3. /\ ImageSound(i)
          /\ rows[i].keys \cup rows[i].variants \subseteq objects[i]
          /\ "compressed" \in rows[i].keys => "normalized" \in rows[i].keys
          /\ rows[i].variants # {} => "compressed" \in rows[i].keys
          /\ rows[i].status = "COMPLETED" => rows[i].variants = VariantTypes
      BY <1>s DEF ImageSound, RowSound
    <3>4. rows[i].variants = VariantTypes  BY <3>1, <3>2
    <3>5. QED
      BY <1>9, <1>c, <2>1, <3>3, <3>4, ImageWrite DEF Complete
  <2>7. \A l \in Images \ {i} : ImageSound(l)'
    BY <1>9, <1>s, <2>1, ImageFrame DEF Complete, Created
  <2>8. QED  BY <1>9, <1>q, <2>2, <2>3, <2>4, <2>5, <2>6, <2>7 DEF Complete
<1>10. CASE Ack(j)
  <2>1. DataKept  BY <1>10, ControlKeepsData DEF Ack
  <2>2. /\ \A k \in Jobs \ {j} : jobs'[k] = jobs[k]
        /\ jobs'[j].pc = "free"
    BY <1>10 DEF Ack, TypeOK, FreeJob, JobAt
  <2>3. JobSound(j)' /\ InputReady(j)'
    BY <2>2 DEF JobSound, InputReady, Live
  <2>4. \A l \in Images : ImageSound(l)'
    BY <1>10, <1>s, ImageFrame DEF Ack, Created
  <2>5. QED  BY <1>10, <1>q, <2>1, <2>2, <2>3, <2>4 DEF Ack
<1>11. QED
  BY <1>1, <1>2, <1>3, <1>4, <1>5, <1>6, <1>7, <1>8, <1>9, <1>10 DEF StageStep

-----------------------------------------------------------------------------
(* The steps that fail, give up or redeliver jobs.                         *)

(* A live job put back at the start of an attempt, or given up, is sound:  *)
(* what its stage needs is as it was.                                      *)
LEMMA RestartSound ==
    ASSUME TypeOK, IInv, NEW j \in Jobs, Live(j), NEW n, NEW pc,
           pc \in {"waiting", "failing"}, UNCHANGED <<objects, seeds>>,
           UNCHANGED rows,
           jobs'[j] = JobAt(jobs[j].stage, jobs[j].image, n, pc)
    PROVE  JobSound(j)' /\ InputReady(j)'
<1>0. jobs[j] \in JobRecord  BY LiveIsJob
<1> PICK i \in Images, stage \in Stages : i = jobs[j].image /\ stage = jobs[j].stage
  BY <1>0 DEF JobRecord
<1>1. JobSound(j) /\ InputReady(j)  BY IInvParts
<1>2. Created(i)'  BY <1>1 DEF JobSound, Created
<1>3. stage # "convert" /\ Exists(i)' =>
         InputOf(stage) \in rows'[i].keys /\ InputOf(stage) \in objects'[i]
  BY <1>1 DEF InputReady, Exists
<1>4. QED  BY <1>2, <1>3, JobAtSound

LEMMA FailureStepSound ==
    ASSUME TypeOK, IInv,
           Crash \/ \E j \in Jobs : Throw(j) \/ FailedHandler(j) \/ StallOut(j)
    PROVE  IInv'
<1>s. /\ \A k \in Jobs : JobSound(k) /\ InputReady(k)
      /\ \A l \in Images : ImageSound(l)
      /\ \A r \in Requests : RequestSound(r)
  BY IInvParts
<1>1. ASSUME NEW j \in Jobs, Throw(j) PROVE IInv'
  <2>1. jobs[j] \in JobRecord /\ Live(j)  BY <1>1, LiveIsJob DEF Throw, Live
  <2> PICK i \in Images : i = jobs[j].image  BY <2>1 DEF JobRecord
  <2>2. DataKept  BY <1>1, ControlKeepsData DEF Throw
  <2>3. /\ \A k \in Jobs \ {j} : jobs'[k] = jobs[k]
        /\ \E n, pc : /\ pc \in {"waiting", "failing"}
                      /\ jobs'[j] = JobAt(jobs[j].stage, jobs[j].image, n, pc)
    BY <1>1 DEF Throw, TypeOK
  <2>4. JobSound(j)' /\ InputReady(j)'
    BY <1>1, <2>1, <2>3, RestartSound DEF Throw
  <2>5. PICK t \in VariantTypes : strays' = [strays EXCEPT ![i] = @ \cup
            {<<u, jobs[j].branch[u]>> : u \in
                {v \in VariantTypes \ {t} : jobs[j].pc = "render"
                                            /\ jobs[j].branch[v] # "done"}}]
    BY <1>1 DEF Throw
  <2>6. \A l \in Images \ {i} : ImageSound(l)'
    BY <1>1, <1>s, <2>5, ImageFrame DEF Throw, TypeOK, Created
  <2>7. ImageSound(i)'
    <3>1. strays'[i] = strays[i] \cup
            {<<u, jobs[j].branch[u]>> : u \in
                {v \in VariantTypes \ {t} : jobs[j].pc = "render"
                                            /\ jobs[j].branch[v] # "done"}}
      BY <2>5 DEF TypeOK
    <3>2. /\ ImageSound(i) /\ StraysSound(i) /\ JobSound(j) /\ InputReady(j)
          /\ Created(i)
      BY <1>s, <2>1 DEF ImageSound, JobSound
    <3>3. Created(i)'  BY <1>1, <3>2 DEF Throw, Created
    <3>4. strays'[i] # {} /\ Exists(i)' => "compressed" \in rows'[i].keys
      <4>1. jobs[j].pc = "render" => jobs[j].stage = "variants"
        BY <2>1, LiveIsJob DEF Job
      <4>2. jobs[j].pc = "render" /\ Exists(i) => "compressed" \in rows[i].keys
        BY <2>1, <3>2, <4>1 DEF InputReady, InputOf
      <4>3. jobs[j].pc # "render" => strays'[i] = strays[i]
        BY <3>1
      <4>4. QED  BY <1>1, <3>2, <4>2, <4>3 DEF Throw, StraysSound, Exists
    <3>5. ASSUME NEW v \in VariantTypes, <<v, "upsert">> \in strays'[i]
          PROVE  v \in objects'[i]
      <4>1. CASE <<v, "upsert">> \in strays[i]
        BY <1>1, <3>2, <4>1 DEF Throw, StraysSound
      <4>2. CASE jobs[j].pc = "render" /\ jobs[j].branch[v] = "upsert"
        BY <1>1, <2>1, <3>2, <4>2 DEF Throw, JobSound
      <4>3. QED  BY <3>1, <3>5, <4>1, <4>2
    <3>6. StraysSound(i)'
      BY <3>3, <3>4, <3>5 DEF StraysSound
    <3>7. QED
      BY <1>1, <3>2, <3>6 DEF Throw, ImageSound, RowSound, Exists, Created
  <2>8. \A r \in Requests : RequestSound(r)'
    BY <1>1, <1>s, <2>2, RequestFrame DEF Throw
  <2>9. QED  BY <2>2, <2>3, <2>4, <2>6, <2>7, <2>8, JobFrame, IInvParts
<1>2. ASSUME NEW j \in Jobs, FailedHandler(j) PROVE IInv'
  <2>1. jobs[j] \in JobRecord /\ Live(j)  BY <1>2, LiveIsJob DEF FailedHandler, Live
  <2> PICK i \in Images : i = jobs[j].image  BY <2>1 DEF JobRecord
  <2>2. /\ \A k \in Jobs \ {j} : jobs'[k] = jobs[k]
        /\ jobs'[j].pc = "free"
    BY <1>2 DEF FailedHandler, TypeOK, FreeJob, JobAt
  <2>3. JobSound(j)' /\ InputReady(j)'
    BY <2>2 DEF JobSound, InputReady, Live
  <2>4. /\ ImageSound(i)
        /\ rows[i].keys \cup rows[i].variants \subseteq objects[i]
        /\ "compressed" \in rows[i].keys => "normalized" \in rows[i].keys
        /\ rows[i].variants # {} => "compressed" \in rows[i].keys
        /\ Created(i)
    BY <1>s, <2>1 DEF ImageSound, RowSound, JobSound
  <2>5. CASE UNCHANGED rows
    <3>1. DataKept  BY <1>2, <2>5, ControlKeepsData DEF FailedHandler
    <3>2. \A l \in Images : ImageSound(l)'
      BY <1>2, <1>s, <2>5, ImageFrame DEF FailedHandler, Created
    <3>3. \A r \in Requests : RequestSound(r)'
      BY <1>2, <1>s, <3>1, RequestFrame DEF FailedHandler
    <3>4. QED  BY <2>2, <2>3, <3>1, <3>2, <3>3, JobFrame, IInvParts
  <2>6. CASE Exists(i) /\ MarkProcessingFailed(i)
    <3>1. /\ rows'[i].status = "FAILED"
          /\ rows'[i].keys = rows[i].keys /\ rows'[i].variants = rows[i].variants
          /\ \A l \in Images \ {i} : rows'[l] = rows[l]
      BY <2>6, RowEffect
    <3>2. DataKept  BY <1>2, <2>6, <3>1, RowWriteKeepsData DEF FailedHandler
    <3>3. ImageSound(i)'
      BY <1>2, <2>4, <2>6, <3>1, ImageWrite DEF FailedHandler
    <3>4. \A l \in Images \ {i} : ImageSound(l)'
      BY <1>2, <1>s, <3>1, ImageFrame DEF FailedHandler, Created
    <3>5. \A r \in Requests : RequestSound(r)'
      BY <1>2, <1>s, <3>2, RequestFrame DEF FailedHandler
    <3>6. QED  BY <2>2, <2>3, <3>2, <3>3, <3>4, <3>5, JobFrame, IInvParts
  <2>7. QED  BY <1>2, <2>5, <2>6 DEF FailedHandler
<1>3. ASSUME NEW j \in Jobs, StallOut(j) PROVE IInv'
  <2>1. Live(j)  BY <1>3 DEF StallOut, Running, Live
  <2>2. DataKept  BY <1>3, ControlKeepsData DEF StallOut
  <2>3. /\ \A k \in Jobs \ {j} : jobs'[k] = jobs[k]
        /\ jobs'[j] = JobAt(jobs[j].stage, jobs[j].image, jobs[j].attempts, "failing")
    BY <1>3 DEF StallOut, TypeOK
  <2>4. JobSound(j)' /\ InputReady(j)'
    BY <1>3, <2>1, <2>3, RestartSound DEF StallOut
  <2>5. \A l \in Images : ImageSound(l)'
    BY <1>3, <1>s, ImageFrame DEF StallOut, Created
  <2>6. \A r \in Requests : RequestSound(r)'
    BY <1>3, <1>s, <2>2, RequestFrame DEF StallOut
  <2>7. QED  BY <2>2, <2>3, <2>4, <2>5, <2>6, JobFrame, IInvParts
<1>4. ASSUME Crash PROVE IInv'
  <2>1. PICK S \in SUBSET {j \in Jobs : Running(j)} :
           jobs' = [j \in Jobs |->
                IF j \in S
                THEN JobAt(jobs[j].stage, jobs[j].image, jobs[j].attempts, "waiting")
                ELSE jobs[j]]
    BY <1>4 DEF Crash
  <2>2. DataKept  BY <1>4, ControlKeepsData DEF Crash
  <2>3. ASSUME NEW j \in S PROVE JobSound(j)' /\ InputReady(j)'
    <3>1. j \in Jobs /\ Live(j)  BY DEF Running, Live
    <3>2. jobs'[j] = JobAt(jobs[j].stage, jobs[j].image, jobs[j].attempts, "waiting")
      BY <2>1, <3>1
    <3>3. QED  BY <1>4, <3>1, <3>2, RestartSound DEF Crash
  <2>4. ASSUME NEW j \in Jobs \ S PROVE JobSound(j)' /\ InputReady(j)'
    <3>1. jobs'[j] = jobs[j]  BY <2>1
    <3>2. QED  BY <2>2, <3>1, JobFrame
  <2>5. \A l \in Images : ImageSound(l)'
    BY <1>4, <1>s, ImageFrame DEF Crash, Created
  <2>6. \A r \in Requests : RequestSound(r)'
    BY <1>4, <1>s, <2>2, RequestFrame DEF Crash
  <2>7. QED  BY <2>3, <2>4, <2>5, <2>6, IInvParts
<1>5. QED  BY <1>1, <1>2, <1>3, <1>4

-----------------------------------------------------------------------------
(* The steps of abandoned branches and of the seed call.                   *)

LEMMA ImageStepSound ==
    ASSUME TypeOK, IInv, NEW i \in Images, StrayStep(i) \/ SeedStep(i) \/ SeedFail(i)
    PROVE  IInv'
<1>s. /\ \A k \in Jobs : JobSound(k) /\ InputReady(k)
      /\ \A l \in Images : ImageSound(l)
      /\ \A r \in Requests : RequestSound(r)
  BY IInvParts
<1>q. ASSUME DataKept, jobs' = jobs, requests' = requests,
             \A l \in Images : ImageSound(l)'
      PROVE  IInv'
  BY <1>s, <1>q, JobFrame, RequestFrame, IInvParts
<1>1. ASSUME NEW t \in VariantTypes, StrayPut(i, t) PROVE IInv'
  <2>1. /\ DataKept /\ objects'[i] = objects[i] \cup {t}
        /\ \A l \in Images : objects[l] \subseteq objects'[l]
    BY <1>1, PutKeepsData DEF StrayPut
  <2>2. /\ strays'[i] = (strays[i] \ {<<t, "put">>}) \cup {<<t, "upsert">>}
        /\ \A l \in Images \ {i} : strays'[l] = strays[l]
    BY <1>1 DEF StrayPut, TypeOK
  <2>3. ImageSound(i) /\ StraysSound(i)  BY <1>s DEF ImageSound
  <2>4. StraysSound(i)'
    BY <1>1, <2>1, <2>2, <2>3 DEF StrayPut, StraysSound, Exists, Created
  <2>5. ImageSound(i)'
    BY <1>1, <2>1, <2>3, <2>4 DEF StrayPut, ImageSound, RowSound, Exists, Created
  <2>6. \A l \in Images \ {i} : ImageSound(l)'
    BY <1>1, <1>s, <2>1, <2>2, ImageGrowth DEF StrayPut
  <2>7. QED  BY <1>1, <1>q, <2>1, <2>5, <2>6 DEF StrayPut
<1>2. ASSUME NEW t \in VariantTypes, StrayUpsert(i, t) PROVE IInv'
  <2>1. /\ Exists(i) /\ rows'[i].status = rows[i].status /\ rows'[i].keys = rows[i].keys
        /\ rows'[i].variants = rows[i].variants \cup {t}
        /\ \A l \in Images \ {i} : rows'[l] = rows[l]
    BY <1>2, RowEffect DEF StrayUpsert
  <2>2. DataKept  BY <1>2, <2>1, RowWriteKeepsData DEF StrayUpsert
  <2>3. /\ strays'[i] \subseteq strays[i]
        /\ \A l \in Images \ {i} : strays'[l] = strays[l]
    BY <1>2 DEF StrayUpsert, TypeOK
  <2>4. /\ ImageSound(i) /\ StraysSound(i) /\ RowSound(i) /\ Created(i)
        /\ t \in objects[i] /\ "compressed" \in rows[i].keys
    BY <1>2, <1>s, <2>1 DEF StrayUpsert, ImageSound, StraysSound
  <2>5. rows[i].variants \subseteq VariantTypes
    BY <2>1 DEF TypeOK, Exists, Row, NoRow
  <2>6. StraysSound(i)'
    BY <1>2, <2>1, <2>3, <2>4 DEF StrayUpsert, StraysSound, Exists, Created
  <2>7. ImageSound(i)'
    BY <1>2, <2>1, <2>4, <2>5, <2>6 DEF StrayUpsert, ImageSound, RowSound, Exists, Created
  <2>8. \A l \in Images \ {i} : ImageSound(l)'
    BY <1>2, <1>s, <2>1, <2>3, ImageFrame DEF StrayUpsert, Created
  <2>9. QED  BY <1>2, <1>q, <2>2, <2>7, <2>8 DEF StrayUpsert
<1>3. ASSUME NEW t \in VariantTypes, NEW step \in BranchSteps, StrayLost(i, t, step)
      PROVE IInv'
  <2>1. DataKept  BY <1>3, ControlKeepsData DEF StrayLost
  <2>2. /\ strays'[i] \subseteq strays[i]
        /\ \A l \in Images \ {i} : strays'[l] = strays[l]
    BY <1>3 DEF StrayLost, TypeOK
  <2>3. StraysSound(i)'
    BY <1>3, <1>s, <2>2 DEF StrayLost, ImageSound, StraysSound, Exists, Created
  <2>4. ImageSound(i)'
    BY <1>3, <1>s, <2>3 DEF StrayLost, ImageSound, RowSound, Exists, Created
  <2>5. \A l \in Images \ {i} : ImageSound(l)'
    BY <1>3, <1>s, <2>2, ImageFrame DEF StrayLost, Created
  <2>6. QED  BY <1>3, <1>q, <2>1, <2>4, <2>5 DEF StrayLost
<1>4. CASE SeedStore(i)
  <2>1. /\ objects'[i] = objects[i] \cup {"original"}
        /\ \A l \in Images : objects[l] \subseteq objects'[l]
    BY <1>4 DEF SeedStore, PutObject, TypeOK
  <2>2. \A l \in Images : Created(l)' <=> Created(l)
    BY <1>4 DEF SeedStore, Created, TypeOK
  <2>3. DataKept
    BY <1>4, <2>1, <2>2 DEF SeedStore, DataKept, ImageKept, Exists
  <2>4. \A l \in Images : ImageSound(l)'
    BY <1>4, <1>s, <2>1, <2>2
       DEF SeedStore, ImageSound, StraysSound, RowSound, Exists
  <2>5. QED  BY <1>4, <1>q, <2>3, <2>4 DEF SeedStore
<1>5. CASE SeedCreate(i)
  <2>1. /\ rows'[i] = NewRow
        /\ \A l \in Images \ {i} : rows'[l] = rows[l]
        /\ ~Created(i) /\ Created(i)'
        /\ \A l \in Images \ {i} : Created(l)' <=> Created(l)
    BY <1>5 DEF SeedCreate, Created, TypeOK
  <2>2. DataKept
    BY <1>5, <2>1 DEF SeedCreate, DataKept, ImageKept, Exists
  <2>3. ImageSound(i)'
    BY <1>5, <1>s, <2>1
       DEF SeedCreate, ImageSound, StraysSound, RowSound, Exists, NewRow
  <2>4. \A l \in Images \ {i} : ImageSound(l)'
    BY <1>5, <1>s, <2>1, ImageFrame DEF SeedCreate
  <2>5. QED  BY <1>5, <1>q, <2>2, <2>3, <2>4 DEF SeedCreate
<1>6. CASE SeedEnqueue(i)
  <2>1. PICK k \in Jobs : ~Live(k) /\ jobs' = [jobs EXCEPT ![k] = NewJob("convert", i)]
    BY <1>6 DEF SeedEnqueue, Enqueue
  <2>2. \A l \in Images : Created(l)' <=> Created(l)
    BY <1>6 DEF SeedEnqueue, Created, TypeOK
  <2>3. DataKept
    BY <1>6, <2>2 DEF SeedEnqueue, DataKept, ImageKept, Exists
  <2>4. /\ \A l \in Jobs \ {k} : jobs'[l] = jobs[l]
        /\ jobs'[k] = JobAt("convert", i, 0, "waiting")
    BY <2>1 DEF TypeOK, NewJob
  <2>5. Created(i)'  BY <1>6 DEF SeedEnqueue, Created, TypeOK
  <2>6. JobSound(k)' /\ InputReady(k)'
    BY <2>4, <2>5, JobAtSound DEF Stages
  <2>7. \A l \in Images : ImageSound(l)'
    BY <1>6, <1>s, <2>2, ImageFrame DEF SeedEnqueue
  <2>8. \A r \in Requests : RequestSound(r)'
    BY <1>6, <1>s, <2>3, RequestFrame DEF SeedEnqueue
  <2>9. QED  BY <2>3, <2>4, <2>6, <2>7, <2>8, JobFrame, IInvParts
<1>7. CASE SeedFail(i)
  <2>1. \A l \in Images : Created(l) => Created(l)'
    BY <1>7 DEF SeedFail, Created, TypeOK
  <2>2. \A l \in Images : Exists(l) => Created(l)
    BY <1>s DEF ImageSound, RowSound
  <2>3. DataKept
    BY <1>7, <2>1 DEF SeedFail, DataKept, ImageKept, Exists
  <2>4. \A l \in Images : ImageSound(l)'
    BY <1>7, <1>s, <2>1, ImageFrame DEF SeedFail
  <2>5. QED  BY <1>7, <1>q, <2>3, <2>4 DEF SeedFail
<1>8. QED
  BY <1>1, <1>2, <1>3, <1>4, <1>5, <1>6, <1>7 DEF StrayStep, SeedStep

-----------------------------------------------------------------------------
(* The steps of API requests.                                              *)

LEMMA RequestStepSound ==
    ASSUME TypeOK, IInv, NEW r \in Requests,
           \/ \E i \in Images : ReprocessFind(r, i) \/ RemoveFind(r, i)
           \/ RequestStep(r) \/ RequestFail(r)
    PROVE  IInv'
<1>s. /\ \A k \in Jobs : JobSound(k) /\ InputReady(k)
      /\ \A l \in Images : ImageSound(l)
      /\ \A q \in Requests : RequestSound(q)
  BY IInvParts
<1>q. ASSUME DataKept, jobs' = jobs, \A l \in Images : ImageSound(l)',
             \A q \in Requests \ {r} : requests'[q] = requests[q], RequestSound(r)'
      PROVE  IInv'
  BY <1>s, <1>q, JobFrame, RequestFrame, IInvParts
<1>f. ASSUME NEW pc \in {"done", "failed"}, Finish(r, pc)
      PROVE  /\ \A q \in Requests \ {r} : requests'[q] = requests[q]
             /\ RequestSound(r)'
  BY <1>f DEF Finish, TypeOK, NotInFlight, RequestSound
<1>1. ASSUME NEW i \in Images, ReprocessFind(r, i) \/ RemoveFind(r, i) PROVE IInv'
  <2>1. DataKept  BY <1>1, ControlKeepsData DEF ReprocessFind, RemoveFind, Find
  <2>2. \A l \in Images : ImageSound(l)'
    BY <1>1, <1>s, ImageFrame DEF ReprocessFind, RemoveFind, Find, Created
  <2>3. CASE Exists(i)
    <3>1. Created(i)'
      BY <1>1, <1>s, <2>3 DEF ReprocessFind, RemoveFind, Find, ImageSound, RowSound, Created
    <3>2. /\ \A q \in Requests \ {r} : requests'[q] = requests[q]
          /\ requests'[r].image = i
      BY <1>1, <2>3 DEF ReprocessFind, RemoveFind, Find, TypeOK
    <3>3. RequestSound(r)'  BY <3>1, <3>2 DEF RequestSound
    <3>4. QED  BY <1>1, <1>q, <2>1, <2>2, <3>2, <3>3 DEF ReprocessFind, RemoveFind, Find
  <2>4. CASE ~Exists(i)
    BY <1>1, <1>q, <1>f, <2>1, <2>2, <2>4 DEF ReprocessFind, RemoveFind, Find
  <2>5. QED  BY <2>3, <2>4
<1>2. ASSUME NEW i \in Images, i = requests[r].image, requests[r] \in Request,
             Created(i), ReprocessMark(r) \/ RemoveObjects(r) \/ RemoveRow(r)
      PROVE  IInv'
  <2>1. CASE ReprocessMark(r) /\ Exists(i)
    <3>1. /\ rows'[i].status = "PROCESSING_CONVERT"
          /\ rows'[i].keys = rows[i].keys /\ rows'[i].variants = rows[i].variants
          /\ \A l \in Images \ {i} : rows'[l] = rows[l]
      BY <1>2, <2>1, RowEffect DEF ReprocessMark
    <3>2. DataKept  BY <2>1, <3>1, RowWriteKeepsData DEF ReprocessMark
    <3>3. /\ ImageSound(i)
          /\ rows[i].keys \cup rows[i].variants \subseteq objects[i]
          /\ "compressed" \in rows[i].keys => "normalized" \in rows[i].keys
          /\ rows[i].variants # {} => "compressed" \in rows[i].keys
      BY <1>s DEF ImageSound, RowSound
    <3>4. ImageSound(i)'
      BY <1>2, <2>1, <3>1, <3>3, ImageWrite DEF ReprocessMark
    <3>5. \A l \in Images \ {i} : ImageSound(l)'
      BY <1>s, <2>1, <3>1, ImageFrame DEF ReprocessMark, Created
    <3>6. /\ \A q \in Requests \ {r} : requests'[q] = requests[q]
          /\ requests'[r].image = i
      BY <1>2, <2>1 DEF ReprocessMark, TypeOK, Request
    <3>7. RequestSound(r)'
      BY <1>2, <2>1, <3>6 DEF ReprocessMark, RequestSound, Created
    <3>8. QED  BY <1>q, <2>1, <3>2, <3>4, <3>5, <3>6, <3>7 DEF ReprocessMark
  <2>2. CASE ReprocessMark(r) /\ ~Exists(i)
    <3>1. DataKept  BY <1>2, <2>2, ControlKeepsData DEF ReprocessMark
    <3>2. \A l \in Images : ImageSound(l)'
      BY <1>2, <1>s, <2>2, ImageFrame DEF ReprocessMark, Created
    <3>3. QED  BY <1>2, <1>q, <1>f, <2>2, <3>1, <3>2 DEF ReprocessMark
  <2>3. CASE RemoveObjects(r)
    <3>1. /\ \A l \in Images : objects[l] \ {"original"} \subseteq objects'[l]
      BY <2>3 DEF RemoveObjects, DeleteOriginal, TypeOK
    <3>2. DataKept
      BY <2>3, <3>1 DEF RemoveObjects, DataKept, ImageKept, Exists, Created
    <3>3. ASSUME NEW l \in Images PROVE ImageSound(l)'
      <4>1. rows[l].keys \subseteq Keys /\ rows[l].variants \subseteq VariantTypes
        BY DEF TypeOK, Row, NoRow
      <4>2. ImageSound(l) /\ StraysSound(l)  BY <1>s DEF ImageSound
      <4>3. StraysSound(l)'
        BY <2>3, <3>1, <4>2, OutputsDerived
           DEF RemoveObjects, StraysSound, Exists, Created
      <4>4. QED
        BY <2>3, <3>1, <4>1, <4>2, <4>3, OutputsDerived
           DEF RemoveObjects, ImageSound, RowSound, Exists, Created
    <3>4. /\ \A q \in Requests \ {r} : requests'[q] = requests[q]
          /\ requests'[r].image = i
      BY <1>2, <2>3 DEF RemoveObjects, TypeOK, Request
    <3>5. RequestSound(r)'
      BY <1>2, <2>3, <3>4 DEF RemoveObjects, RequestSound, Created
    <3>6. QED  BY <1>q, <2>3, <3>2, <3>3, <3>4, <3>5 DEF RemoveObjects
  <2>4. CASE RemoveRow(r) /\ Exists(i)
    <3>1. /\ rows'[i] = NoRow
          /\ \A l \in Images \ {i} : rows'[l] = rows[l]
      BY <1>2, <2>4 DEF RemoveRow, DeleteRow, TypeOK
    <3>2. DataKept
      BY <2>4, <3>1 DEF RemoveRow, DataKept, ImageKept, Exists, Created, NoRow
    <3>3. ImageSound(i)'
      BY <1>2, <1>s, <2>4, <3>1
         DEF RemoveRow, ImageSound, StraysSound, RowSound, Exists, Created, NoRow
    <3>4. \A l \in Images \ {i} : ImageSound(l)'
      BY <1>s, <2>4, <3>1, ImageFrame DEF RemoveRow, Created
    <3>5. QED  BY <1>2, <1>q, <1>f, <2>4, <3>2, <3>3, <3>4 DEF RemoveRow
  <2>5. CASE RemoveRow(r) /\ ~Exists(i)
    <3>1. DataKept  BY <1>2, <2>5, ControlKeepsData DEF RemoveRow
    <3>2. \A l \in Images : ImageSound(l)'
      BY <1>2, <1>s, <2>5, ImageFrame DEF RemoveRow, Created
    <3>3. QED  BY <1>2, <1>q, <1>f, <2>5, <3>1, <3>2 DEF RemoveRow
  <2>6. QED  BY <1>2, <2>1, <2>2, <2>3, <2>4, <2>5
<1>3. CASE ReprocessMark(r) \/ RemoveObjects(r) \/ RemoveRow(r)
  <2>1. requests[r].pc \in {"mark", "objects", "row"}
    BY <1>3 DEF ReprocessMark, RemoveObjects, RemoveRow
  <2>2. requests[r] \in Request /\ requests[r].image \in Images
    BY <2>1, InFlightIsRequest
  <2>3. Created(requests[r].image)  BY <1>s, <2>1 DEF RequestSound
  <2>4. QED  BY <1>2, <1>3, <2>2, <2>3
<1>4. CASE ReprocessEnqueue(r)
  <2>1. requests[r].image \in Images /\ Created(requests[r].image)
    BY <1>4, <1>s, InFlightIsRequest DEF ReprocessEnqueue, RequestSound
  <2> PICK i \in Images : i = requests[r].image  BY <2>1
  <2>2. PICK k \in Jobs : ~Live(k) /\ jobs' = [jobs EXCEPT ![k] = NewJob("convert", i)]
    BY <1>4 DEF ReprocessEnqueue, Enqueue
  <2>3. DataKept  BY <1>4, ControlKeepsData DEF ReprocessEnqueue
  <2>4. /\ \A l \in Jobs \ {k} : jobs'[l] = jobs[l]
        /\ jobs'[k] = JobAt("convert", i, 0, "waiting")
    BY <2>2 DEF TypeOK, NewJob
  <2>5. Created(i)'  BY <1>4, <2>1 DEF ReprocessEnqueue, Created
  <2>6. JobSound(k)' /\ InputReady(k)'
    BY <2>4, <2>5, JobAtSound DEF Stages
  <2>7. \A l \in Images : ImageSound(l)'
    BY <1>4, <1>s, ImageFrame DEF ReprocessEnqueue, Created
  <2>8. \A q \in Requests : RequestSound(q)'
    BY <1>4, <1>s, <1>f, <2>3, RequestFrame DEF ReprocessEnqueue
  <2>9. QED  BY <2>3, <2>4, <2>6, <2>7, <2>8, JobFrame, IInvParts
<1>5. CASE RequestFail(r)
  <2>1. DataKept  BY <1>5, ControlKeepsData DEF RequestFail
  <2>2. \A l \in Images : ImageSound(l)'
    BY <1>5, <1>s, ImageFrame DEF RequestFail, Created
  <2>3. QED  BY <1>5, <1>q, <1>f, <2>1, <2>2 DEF RequestFail
<1>6. QED  BY <1>1, <1>3, <1>4, <1>5 DEF RequestStep

-----------------------------------------------------------------------------
(* The theorems.                                                           *)

(* IInv is an inductive invariant of the pipeline.                         *)
THEOREM Invariance == Spec => []IInv
<1>1. Init => IInv
  <2>1. ASSUME Init PROVE IInv
    BY <2>1
       DEF Init, IInv, JobSound, StraysSound, RowSound, RequestSound, InputReady,
           StageInputsReady, RowsPointAtObjects, CompletedHasAllVariants, FreeJob,
           JobAt, Live, NoRow, Exists, NoRequest, NotInFlight
  <2>2. QED  BY <2>1
<1>2. TypeOK /\ IInv /\ [Next]_vars => IInv'
  <2>1. ASSUME TypeOK, IInv, Next PROVE IInv'
    BY <2>1, StageStepSound, FailureStepSound, ImageStepSound, RequestStepSound DEF Next
  <2>2. ASSUME IInv, UNCHANGED vars PROVE IInv'
    BY <2>2 DEF IInv, JobSound, StraysSound, RowSound, RequestSound, InputReady,
           StageInputsReady, RowsPointAtObjects, CompletedHasAllVariants, Live,
           Exists, Created, vars
  <2>3. QED  BY <2>1, <2>2
<1>3. QED  BY <1>1, <1>2, TypeCorrect, PTL DEF Spec

(* The two "stage reached without" throws are unreachable for an image     *)
(* that exists, and the variants are cut from the compressed image         *)
(* (compression.worker.ts:37-39, variants.worker.ts:51-55).                *)
THEOREM StagesFindTheirInput == Spec => []StageInputsReady
<1>1. IInv => StageInputsReady  BY DEF IInv
<1>2. QED  BY <1>1, Invariance, PTL

(* Every derived key and Variant row names a stored object.                *)
THEOREM RowsAreBacked == Spec => []RowsPointAtObjects
<1>1. IInv => RowsPointAtObjects  BY DEF IInv
<1>2. QED  BY <1>1, Invariance, PTL

(* A COMPLETED image has all of its variants, rows and objects.            *)
THEOREM CompletedIsComplete == Spec => []CompletedHasAllVariants
<1>1. IInv => CompletedHasAllVariants  BY DEF IInv
<1>2. QED  BY <1>1, Invariance, PTL
=============================================================================
