----------------------------- MODULE MCOAuthGrants -----------------------------
(* Instances of OAuthGrants for TLC: which endpoint each request reaches. *)
EXTENDS OAuthGrants, TLC

CONSTANTS c1, o1, admin, a1, x1, x2, t1, t2, v1

AllScopes == [c \in Clients |-> Scopes]
BothGrants == [c \in Clients |-> {"authorization_code", "refresh_token"}]

(* One login; two requests race for its code, and one refreshes the token of *)
(* the winner.                                                              *)
CodeRace == [r \in {a1, x1, x2, t1} |->
  CASE r = a1 -> "authorize"
    [] r = t1 -> "refresh_token"
    [] OTHER -> "authorization_code"]

(* One login and its token; two refreshes and a revocation race for it. *)
TokenRace == [r \in {a1, x1, t1, t2, v1} |->
  CASE r = a1 -> "authorize"
    [] r = x1 -> "authorization_code"
    [] r = v1 -> "revoke"
    [] OTHER -> "refresh_token"]
================================================================================
