---------------------------- MODULE MCStatusEvents ----------------------------
(***************************************************************************)
(* An instance of StatusEvents for TLC: two sessions of the owner of the   *)
(* image at two API replicas.                                              *)
(***************************************************************************)
EXTENDS StatusEvents

CONSTANTS i1, r1, r2, c1, c2

TwoReplicas == [c \in Clients |-> IF c = c2 THEN r2 ELSE r1]
OneOwner == [c \in Clients |-> {i1}]
===============================================================================
