----------------------------- MODULE MCValidation -----------------------------
(***************************************************************************)
(* Instances of Validation for TLC: two images of one user, similar to     *)
(* each other, one of them uploaded as HEIC.                               *)
(***************************************************************************)
EXTENDS Validation, TLC

CONSTANTS i1, i2

TwinPair == {{i1, i2}}
NoPair == {}

(* Similarity does not tell the twins apart.                               *)
Twins == Permutations({i1, i2})
=============================================================================
