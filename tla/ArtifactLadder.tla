---------------------------- MODULE ArtifactLadder ----------------------------
(***************************************************************************)
(* What the media pipeline promises to a reader of the gallery, with jobs, *)
(* retries, S3 and the queue left out: the outputs of an image are         *)
(* published bottom up (normalized, then compressed, then the variants),   *)
(* none is taken back while the image exists, an image is complete only    *)
(* when all of its outputs are published, and a removed image never comes  *)
(* back.                                                                   *)
(***************************************************************************)
CONSTANTS Images, VariantTypes

VARIABLES
    presence,   \* presence[i] \in {"absent", "live", "gone"}
    outputs,    \* outputs[i]: the published outputs of i
    complete    \* complete[i]: i is announced as COMPLETED

ladderVars == <<presence, outputs, complete>>

Outputs == {"normalized", "compressed"} \cup VariantTypes

(* The outputs that must be published before k.                            *)
Below(k) ==
    CASE k = "normalized" -> {}
      [] k = "compressed" -> {"normalized"}
      [] OTHER -> {"normalized", "compressed"}

LadderInit ==
    /\ presence = [i \in Images |-> "absent"]
    /\ outputs = [i \in Images |-> {}]
    /\ complete = [i \in Images |-> FALSE]

Appear(i) ==
    /\ presence[i] = "absent"
    /\ presence' = [presence EXCEPT ![i] = "live"]
    /\ UNCHANGED <<outputs, complete>>

(* The call that was to create the image failed: its id is never used.     *)
NeverAppear(i) ==
    /\ presence[i] = "absent"
    /\ presence' = [presence EXCEPT ![i] = "gone"]
    /\ UNCHANGED <<outputs, complete>>

Publish(i, k) ==
    /\ presence[i] = "live"
    /\ Below(k) \subseteq outputs[i]
    /\ outputs' = [outputs EXCEPT ![i] = @ \cup {k}]
    /\ UNCHANGED <<presence, complete>>

Announce(i) ==
    /\ presence[i] = "live"
    /\ outputs[i] = Outputs
    /\ complete' = [complete EXCEPT ![i] = TRUE]
    /\ UNCHANGED <<presence, outputs>>

(* The image is processed again, or a run of it failed.                    *)
Reopen(i) ==
    /\ presence[i] = "live"
    /\ complete' = [complete EXCEPT ![i] = FALSE]
    /\ UNCHANGED <<presence, outputs>>

Vanish(i) ==
    /\ presence[i] = "live"
    /\ presence' = [presence EXCEPT ![i] = "gone"]
    /\ outputs' = [outputs EXCEPT ![i] = {}]
    /\ complete' = [complete EXCEPT ![i] = FALSE]

LadderNext ==
    \E i \in Images :
        \/ Appear(i) \/ NeverAppear(i) \/ Announce(i) \/ Reopen(i) \/ Vanish(i)
        \/ \E k \in Outputs : Publish(i, k)

LadderSpec == LadderInit /\ [][LadderNext]_ladderVars
=============================================================================
