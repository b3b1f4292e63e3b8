------------------------------ MODULE Admission ------------------------------
(***************************************************************************)
(* What validation promises to the rest of the system, with jobs, retries, *)
(* S3 and the status strings left out.  An image is judged, perhaps more   *)
(* than once.  It passes only while it is judged, when it breaks no rule,  *)
(* and next to a similar image that stands accepted only if both were      *)
(* judged at the same time; having passed is not taken back while the      *)
(* image exists.  Only what has passed enters the media pipeline of its    *)
(* own accord, and a removed image never comes back.                       *)
(***************************************************************************)
CONSTANTS Images, Unsound, Similar

VARIABLES
    presence,    \* presence[i] \in {"absent", "live", "gone"}
    judging,     \* the images under judgement
    overlapped,  \* the pairs judged at the same time
    passed,      \* the images that have passed
    accepted,    \* those that stand accepted: they passed and were not moved on
    entered      \* those that entered the media pipeline

admissionVars == <<presence, judging, overlapped, passed, accepted, entered>>

AdmissionInit ==
    /\ presence = [i \in Images |-> "absent"]
    /\ judging = {} /\ overlapped = {} /\ passed = {} /\ accepted = {} /\ entered = {}

Appear(i) ==
    /\ presence[i] = "absent"
    /\ presence' = [presence EXCEPT ![i] = "live"]
    /\ UNCHANGED <<judging, overlapped, passed, accepted, entered>>

(* The upload failed: the id is never used.                                *)
NeverAppear(i) ==
    /\ presence[i] = "absent"
    /\ presence' = [presence EXCEPT ![i] = "gone"]
    /\ UNCHANGED <<judging, overlapped, passed, accepted, entered>>

Begin(i) ==
    /\ presence[i] = "live" /\ i \notin judging
    /\ judging' = judging \cup {i}
    /\ overlapped' = overlapped \cup {{i, k} : k \in judging}
    /\ UNCHANGED <<presence, passed, accepted, entered>>

(* The judgement of some images ends, or is broken off, without effect.    *)
BreakOff(S) ==
    /\ judging' = judging \ S
    /\ UNCHANGED <<presence, overlapped, passed, accepted, entered>>

Refuse(i) ==
    /\ presence[i] = "live" /\ i \in judging
    /\ judging' = judging \ {i}
    /\ accepted' = accepted \ {i}
    /\ UNCHANGED <<presence, overlapped, passed, entered>>

Pass(i) ==
    /\ presence[i] = "live" /\ i \in judging /\ i \notin Unsound
    /\ \A k \in accepted \ {i} : {i, k} \in Similar => {i, k} \in overlapped
    /\ passed' = passed \cup {i}
    /\ accepted' = accepted \cup {i}
    /\ UNCHANGED <<presence, judging, overlapped, entered>>

(* An image that was removed meanwhile may still enter, to find no row.    *)
Enter(i) ==
    /\ i \in judging /\ (i \in passed \/ presence[i] = "gone")
    /\ entered' = entered \cup {i}
    /\ judging' = judging \ {i}
    /\ UNCHANGED <<presence, overlapped, passed, accepted>>

(* The image is judged again, processed, or given up.                      *)
MoveOn(i) ==
    /\ presence[i] = "live"
    /\ accepted' = accepted \ {i}
    /\ UNCHANGED <<presence, judging, overlapped, passed, entered>>

Vanish(i) ==
    /\ presence[i] = "live"
    /\ presence' = [presence EXCEPT ![i] = "gone"]
    /\ passed' = passed \ {i}
    /\ accepted' = accepted \ {i}
    /\ UNCHANGED <<judging, overlapped, entered>>

AdmissionNext ==
    \/ \E i \in Images :
          \/ Appear(i) \/ NeverAppear(i) \/ Begin(i) \/ Refuse(i) \/ Pass(i)
          \/ Enter(i) \/ MoveOn(i) \/ Vanish(i)
    \/ \E S \in SUBSET judging : BreakOff(S)

AdmissionSpec == AdmissionInit /\ [][AdmissionNext]_admissionVars
=============================================================================
