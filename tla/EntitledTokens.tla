---------------------------- MODULE EntitledTokens ----------------------------
(***************************************************************************)
(* What AuthAny promises of target tokens, with no handler steps, no cache *)
(* and no replay marks.                                                    *)
(*                                                                         *)
(* An exchange is open from the moment its requester token is verified.    *)
(* In one step it is given a target token: for its claim, through a         *)
(* connection and grant that fit it, and resting on rows that were each in  *)
(* force at some time since it opened.  While the requester token is valid  *)
(* no second exchange of it is given one; an exchange that opened in time   *)
(* may be given a second one after it has expired.                          *)
(***************************************************************************)
EXTENDS Naturals

CONSTANTS
  Rows, Contexts, Requests, Calls,
  Claims,        \* what callers may ask for, each for itself
  PrincipalOf, TargetOf, BoundTo, ConnectionOf,
  RequesterTtl, TargetTtl,
  None

VARIABLES
  now,
  inForce,    \* for each context, the rows that are good for it
  issued,     \* the requester tokens: a claim and the time until which it holds
  state,      \* of each exchange
  presented,  \* the requester token it opened with
  seen,       \* the rows that were in force since it opened
  given       \* the target token it was given

vars == <<now, inForce, issued, state, presented, seen, given>>

ClaimOf(c) == issued[presented[c]].claim

(* Connection and grant are those of the claim. *)
Fits(t) ==
  /\ ConnectionOf[t.grant] = t.connection
  /\ TargetOf[t.connection] = t.claim.target
  /\ \/ /\ PrincipalOf[t.connection] = t.claim.principal
        /\ BoundTo[t.connection] \in {t.claim.runtime, None}
     \/ /\ PrincipalOf[t.connection] = t.claim.runtime
        /\ t.claim.runtime # None

RestsOn(t) ==
  {t.claim.principal, t.claim.runtime, t.claim.credential, t.claim.target,
   t.connection, t.grant} \ {None}

Init ==
  /\ now = 0
  /\ inForce \in [Contexts \cup {None} -> SUBSET Rows]
  /\ issued = [r \in Requests |-> None]
  /\ state = [c \in Calls |-> "idle"]
  /\ presented = [c \in Calls |-> None]
  /\ seen = [c \in Calls |-> {}]
  /\ given = [c \in Calls |-> None]

(* Time passes and administrators change rows; open exchanges may notice. *)
World ==
  /\ now' \in Nat /\ now' >= now
  /\ inForce' \in [Contexts \cup {None} -> SUBSET Rows]
  /\ seen' = [c \in Calls |->
                IF state[c] = "open" THEN seen[c] \cup inForce'[ClaimOf(c).context]
                                     ELSE seen[c]]
  /\ UNCHANGED <<issued, state, presented, given>>

Issue(r) ==
  /\ issued[r] = None
  /\ \E m \in Claims :
       issued' = [issued EXCEPT ![r] = [claim |-> m, until |-> now + RequesterTtl]]
  /\ UNCHANGED <<now, inForce, state, presented, seen, given>>

Open(c, r) ==
  /\ state[c] = "idle"
  /\ issued[r] # None /\ now < issued[r].until
  /\ state' = [state EXCEPT ![c] = "open"]
  /\ presented' = [presented EXCEPT ![c] = r]
  /\ seen' = [seen EXCEPT ![c] = inForce[issued[r].claim.context]]
  /\ UNCHANGED <<now, inForce, issued, given>>

Spent(r) == issued[r].until <= now

(* The token may be one that was given before, to an exchange of this claim. *)
Give(c, t) ==
  /\ state[c] = "open"
  /\ \A d \in Calls :
       state[d] = "given" /\ presented[d] = presented[c] => Spent(presented[c])
  /\ t.claim = ClaimOf(c) /\ Fits(t) /\ RestsOn(t) \subseteq seen[c]
  /\ now < t.expiresAt /\ t.expiresAt <= now + TargetTtl
  /\ state' = [state EXCEPT ![c] = "given"]
  /\ given' = [given EXCEPT ![c] = t]
  /\ UNCHANGED <<now, inForce, issued, presented, seen>>

Refuse(c) ==
  /\ state[c] = "open"
  /\ state' = [state EXCEPT ![c] = "refused"]
  /\ UNCHANGED <<now, inForce, issued, presented, seen, given>>

Next ==
  \/ World
  \/ \E r \in Requests : Issue(r)
  \/ \E c \in Calls : \/ \E r \in Requests : Open(c, r)
                      \/ \E t \in {given'[c]} \ {None} : Give(c, t)
                      \/ Refuse(c)

Spec == Init /\ [][Next]_vars

--------------------------------------------------------------------------------
TypeOK ==
  /\ now \in Nat
  /\ inForce \in [Contexts \cup {None} -> SUBSET Rows]
  /\ issued \in [Requests -> [claim: Claims, until: Nat] \cup {None}]
  /\ state \in [Calls -> {"idle", "open", "given", "refused"}]
  /\ presented \in [Calls -> Requests \cup {None}]
  /\ seen \in [Calls -> SUBSET Rows]
  /\ DOMAIN given = Calls

(* No requester token buys two target tokens as long as it is valid. *)
GivenOnceWhileValid ==
  \A c, d \in Calls :
    c # d /\ state[c] = "given" /\ state[d] = "given" /\ presented[c] = presented[d]
      => Spent(presented[c])

(* Whoever holds a target token asked for it with a claim of its own, that   *)
(* connection and grant serve, and no row behind it was out of force for the *)
(* whole of the exchange.                                                    *)
GivenByRight ==
  \A c \in Calls :
    state[c] = "given" =>
      /\ given[c].claim \in Claims /\ given[c].claim = ClaimOf(c)
      /\ Fits(given[c]) /\ RestsOn(given[c]) \subseteq seen[c]
================================================================================
