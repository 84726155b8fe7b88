------------------------------ MODULE MCPrincipals ------------------------------
(* Instances of Principals for TLC: which credential belongs to whom. *)
EXTENDS Principals, TLC

CONSTANTS app, console, agent, t1, s0, s1, s2, s3, s4, bound1, free1

RuntimeOfAgent == t1 :> agent
OwnerOfEach == [c \in Credentials |->
  IF c = s0 THEN console ELSE IF c \in {s1, s2, s3, s4} THEN app ELSE agent]
BoundOfEach == [c \in Credentials |-> IF c = bound1 THEN t1 ELSE None]

Symmetry == Permutations(Calls) \cup Permutations({s1, s2, s3, s4} \cap Credentials)
================================================================================
