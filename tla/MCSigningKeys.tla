----------------------------- MODULE MCSigningKeys -----------------------------
(* Instances of SigningKeys for TLC: every row has a kid of its own. *)
EXTENDS SigningKeys, TLC

OwnKid == [k \in Keys |-> k]

AdminSymmetry == Permutations(Admins)
================================================================================
