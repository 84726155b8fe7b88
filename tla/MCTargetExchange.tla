--------------------------- MODULE MCTargetExchange ---------------------------
(***************************************************************************)
(* Instances of TargetExchange for TLC: which rows there are and how they   *)
(* hang together.                                                          *)
(***************************************************************************)
EXTENDS TargetExchange, TLC

CONSTANTS agent, application, runtime, target, secret, spare, wide, narrow,
          grant, grant2

(* One agent with one runtime and two credentials on it, one more than Page; *)
(* a connection of the agent and one of the runtime, and a grant on each.    *)
AgentOfRuntime == runtime :> agent
AgentSecrets == secret :> agent @@ spare :> agent
BothBound == secret :> runtime @@ spare :> runtime @@ wide :> None @@ narrow :> runtime
BothOf == wide :> agent @@ narrow :> runtime
BothTarget == wide :> target @@ narrow :> target
BothGrants == grant :> wide @@ grant2 :> narrow

(* One application with one secret, one connection and one grant. *)
NoRuntime == <<>>
AppSecret == secret :> application
Unbound == secret :> None @@ wide :> None
WideOfApp == wide :> application
WideTarget == wide :> target
GrantOfWide == grant :> wide

Symmetry == Permutations(Calls) \cup Permutations(Requests)
================================================================================
