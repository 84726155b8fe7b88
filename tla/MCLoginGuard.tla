----------------------------- MODULE MCLoginGuard -----------------------------
(* Instances of LoginGuard for TLC. *)
EXTENDS LoginGuard, TLC

Symmetry == Permutations(Attempts)
================================================================================
