--------------------------- MODULE MCMediaPipeline ---------------------------
(***************************************************************************)
(* Instances of MediaPipeline for TLC.  The images of a behaviour share    *)
(* nothing but the job slots, so one image is enough; job slots and        *)
(* requests are interchangeable.                                           *)
(***************************************************************************)
EXTENDS MediaPipeline, TLC

JobSymmetry == Permutations(Jobs) \cup Permutations(Requests)
=============================================================================
