----------------------------- MODULE OneTimeGrants -----------------------------
(***************************************************************************)
(* What AuthAny promises of authorization codes and refresh tokens, with   *)
(* no database, no handler steps and no clock.                             *)
(*                                                                         *)
(* A grant is what an application holds and may redeem for tokens.  It is  *)
(* named by the request that minted it.  Redeeming takes it out of `live'  *)
(* for good and entitles the redeeming request to mint one grant more, so  *)
(* the grants of a login form a chain and never a tree.                    *)
(***************************************************************************)
CONSTANT Requests

VARIABLES
  minted,      \* the grants that exist
  live,        \* those of them that can still be redeemed
  redemptions  \* pairs <<grant, request that redeemed it>>

vars == <<minted, live, redemptions>>

Redeemed(g) == \E r \in Requests : <<g, r>> \in redemptions

Redeemers == {r \in Requests : \E g \in Requests : <<g, r>> \in redemptions}

Init ==
  /\ minted = {}
  /\ live = {}
  /\ redemptions = {}

(* An operator logs in and consents: request g mints an authorization code. *)
Grant(g) ==
  /\ g \notin minted \cup Redeemers
  /\ minted' = minted \cup {g}
  /\ live' = live \cup {g}
  /\ UNCHANGED redemptions

(* Request r wins grant g: nobody else can, before or after. *)
Redeem(g, r) ==
  /\ g \in live
  /\ r \notin minted \cup Redeemers
  /\ live' = live \ {g}
  /\ redemptions' = redemptions \cup {<<g, r>>}
  /\ UNCHANGED minted

(* The winner mints the next grant of the chain, at most once. *)
Succeed(r) ==
  /\ r \in Redeemers \ minted
  /\ minted' = minted \cup {r}
  /\ live' = live \cup {r}
  /\ UNCHANGED redemptions

(* Any of the grants may be withdrawn, and withdrawal is final. *)
Withdraw ==
  /\ live' \in SUBSET live
  /\ UNCHANGED <<minted, redemptions>>

Next ==
  \/ \E g \in Requests : Grant(g) \/ Succeed(g)
  \/ \E g, r \in Requests : Redeem(g, r)
  \/ Withdraw

Spec == Init /\ [][Next]_vars

--------------------------------------------------------------------------------
TypeOK ==
  /\ minted \subseteq Requests
  /\ live \subseteq minted
  /\ redemptions \subseteq Requests \X Requests

(* A live grant has never been redeemed, and a grant that was redeemed was  *)
(* redeemed by one request only: the code is single use, the refresh token *)
(* is rotated once.                                                         *)
LiveIsUnredeemed == \A g \in live : ~Redeemed(g)

RedeemedOnce ==
  \A g, r, s \in Requests :
    <<g, r>> \in redemptions /\ <<g, s>> \in redemptions => r = s

(* A request redeems one grant only, so each grant has one predecessor. *)
OnePredecessor ==
  \A g, h, r \in Requests :
    <<g, r>> \in redemptions /\ <<h, r>> \in redemptions => g = h
================================================================================
