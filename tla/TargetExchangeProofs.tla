------------------------- MODULE TargetExchangeProofs -------------------------
(***************************************************************************)
(* Proofs about TargetExchange for any number of rows, requester tokens and *)
(* exchanges.  Shape says what a call has read by the stage it is at;       *)
(* Vouched, OwnEntries, MarkedInTime and InTime build the four safety       *)
(* arguments on it: every check leaves a row that was good during the call, *)
(* the cache is keyed by what a token was issued for, a replay mark outlives *)
(* its token, and a token its answer.  Together they  *)
(* show that TargetExchange implements EntitledTokens.                       *)
(***************************************************************************)
EXTENDS TargetExchange, TLAPS

HasToken == {"write", "record", "audit", "answered"}
HasGrant == {"cache", "stale", "sign"} \cup HasToken
HasConnection == {"grant"} \cup HasGrant
HasCredential == {"connection"} \cup HasConnection
HasRuntime == {"credential"} \cup HasCredential
HasPrincipal == {"runtime"} \cup HasRuntime
HasTarget == {"principal"} \cup HasPrincipal
HasMark == {"target"} \cup HasTarget

(* Issued requester tokens are final; a call has read what its stage needs. *)
Shape ==
  /\ \A r \in Requests : at[r] # "idle" => claim[r] \in OwnClaims
  /\ \A c \in Calls :
       /\ at[c] # "idle" => request[c] \in Requests /\ at[request[c]] = "issued"
       /\ at[c] \in HasTarget => aud[c] \in Audiences
       /\ at[c] \in HasConnection => chosen[c] \in Connections /\ limit[c] \in Ttls
       /\ at[c] \in HasGrant => permit[c] \in Grants
       /\ at[c] \in HasToken => answer[c] \in Token

SInv == TypeOK /\ Shape

Stages == {"idle", "issued"} \cup Running \cup Ended

--------------------------------------------------------------------------------
LEMMA InitSInv == Init => SInv
BY RowConstants, TimeConstants, NoneIsNothing
   DEF Init, SInv, TypeOK, Shape, Times, Never, Rows, Principals,
       Running, Ended, HasTarget, HasPrincipal, HasRuntime, HasCredential,
       HasConnection, HasGrant, HasToken

(* NewToken is a token. *)
LEMMA NewTokenIsToken ==
  ASSUME SInv, NEW c \in Calls, at[c] = "sign"
  PROVE  NewToken(c) \in Token
<1>1. ClaimOf(c) \in Claim /\ aud[c] \in Audiences /\ chosen[c] \in Connections
        /\ permit[c] \in Grants
  BY NoneIsNothing DEF SInv, Shape, ClaimOf, OwnClaims, HasTarget, HasPrincipal, HasRuntime,
     HasCredential, HasConnection, HasGrant
<1>2. now \in Times /\ now \in Nat /\ TargetTtl \in Nat /\ limit[c] \in Nat
  BY TimeConstants DEF SInv, TypeOK, Times
<1>3. now + Min2(TargetTtl, limit[c]) \in Nat
  BY <1>2 DEF Min2
<1> QED BY <1>1, <1>2, <1>3 DEF NewToken, Token

--------------------------------------------------------------------------------
(* Shape is kept *)

LEMMA AdministerShape == SInv /\ Administer => SInv'
<1> SUFFICES ASSUME SInv, Administer PROVE SInv'
  OBVIOUS
<1> USE RowConstants, TimeConstants DEF SInv
<1> DEFINE RowsTyped == /\ status' \in [Rows -> {"active", "blocked", "deleted"}]
                        /\ expiry' \in [Connections \cup Grants -> 0 .. Never]
                        /\ maxTtl' \in [Connections -> Ttls]
                        /\ policy' \in [Connections -> SUBSET (Contexts \cup {None})]
                        /\ audience' \in [Targets -> Audiences]
           Step == UNCHANGED Unadministered /\ RowsTyped /\ Witness
<1> HIDE DEF RowsTyped, Step
<1>1. Step
  <2>1. ASSUME NEW e \in Rows, NEW s \in {"active", "blocked"}, SetStatus(e, s)
        PROVE  Step
    BY <2>1 DEF SetStatus, TypeOK, Step, RowsTyped
  <2>2. ASSUME NEW t \in Targets, NEW a \in Audiences, SetAudience(t, a)
        PROVE  Step
    BY <2>2 DEF SetAudience, TypeOK, Step, RowsTyped
  <2>3. ASSUME NEW d \in Credentials, Revoke(d) PROVE Step
    BY <2>3 DEF Revoke, TypeOK, Step, RowsTyped
  <2>4. ASSUME NEW p \in Principals, Delete(p) PROVE Step
    BY <2>4 DEF Delete, TypeOK, Step, RowsTyped
  <2>5. ASSUME NEW k \in Connections, NEW s \in {"active", "blocked"},
               NEW time \in Expiries, NEW ttl \in Ttls, NEW contexts \in Policies,
               UpdateConnection(k, s, time, ttl, contexts)
        PROVE  Step
    BY <2>5 DEF UpdateConnection, TypeOK, Step, RowsTyped
  <2>6. ASSUME NEW g \in Grants, NEW s \in {"active", "blocked"},
               NEW time \in Expiries, UpdateGrant(g, s, time)
        PROVE  Step
    BY <2>6 DEF UpdateGrant, TypeOK, Step, RowsTyped
  <2> QED BY <2>1, <2>2, <2>3, <2>4, <2>5, <2>6 DEF Administer, Rows
<1>2. alive' \in [Calls -> SUBSET Rows]
  BY <1>1 DEF TypeOK, Witness, Step
<1>3. UNCHANGED Unadministered /\ RowsTyped
  BY <1>1 DEF Step
<1> QED BY <1>2, <1>3 DEF RowsTyped, TypeOK, Shape, Unadministered, claims, reads, redis

(* The steps that change nothing but the stage. *)
LEMMA GoShape ==
  ASSUME SInv, NEW x \in Requests \cup Calls, NEW stage \in Stages,
         Go(x, stage), UNCHANGED Unread, at[x] \notin {"idle", "issued"},
         x \in Calls =>
           /\ stage \in HasTarget => aud[x] \in Audiences
           /\ stage \in HasConnection => chosen[x] \in Connections /\ limit[x] \in Ttls
           /\ stage \in HasGrant => permit[x] \in Grants
           /\ stage \in HasToken => answer[x] \in Token
  PROVE  SInv'
<1>1. TypeOK'
  BY DEF SInv, TypeOK, Go, Unread, rows, claims, reads, redis, Stages
<1>2. Shape'
  <2>1. /\ at \in [Requests \cup Calls -> Stages] /\ at' = [at EXCEPT ![x] = stage]
        /\ Requests \cap Calls = {}
    BY NoneIsNothing DEF SInv, TypeOK, Go, Stages
  <2> QED BY <2>1 DEF SInv, Shape, Unread, claims, reads
<1> QED BY <1>1, <1>2 DEF SInv

LEMMA SharedShape ==
  ASSUME SInv, NEW x \in Requests \cup Calls,
         CheckAgent(x) \/ CheckApplication(x) \/ CheckRuntime(x) \/ Fail(x)
  PROVE  SInv'
<1> USE DEF Stages, Running, Ended, HasTarget, HasPrincipal, HasRuntime, HasCredential,
            HasConnection, HasGrant, HasToken, SInv, Shape
<1>0. Requests \cap Calls = {}
  BY NoneIsNothing
<1>1. ASSUME CheckAgent(x) PROVE SInv'
  <2>1. PICK stage \in {"runtime", "denied"} : Go(x, stage)
    BY <1>1 DEF CheckAgent, Check
  <2> QED BY <1>1, <2>1, GoShape DEF CheckAgent, Check
<1>2. ASSUME CheckApplication(x) PROVE SInv'
  <2>1. PICK stage \in {"target", "connection", "denied"} : Go(x, stage)
    BY <1>2 DEF CheckApplication, Check
  <2> QED BY <1>2, <2>1, GoShape DEF CheckApplication, Check
<1>3. ASSUME CheckRuntime(x) PROVE SInv'
  <2>1. PICK stage \in {"credential", "denied"} : Go(x, stage)
    BY <1>3 DEF CheckRuntime, Check
  <2> QED BY <1>3, <2>1, GoShape DEF CheckRuntime, Check
<1>4. ASSUME Fail(x) PROVE SInv'
  BY <1>4, GoShape DEF Fail
<1> QED BY <1>1, <1>2, <1>3, <1>4

LEMMA IssueShape ==
  ASSUME SInv, NEW r \in Requests, Issue(r)
  PROVE  SInv'
<1> USE DEF Stages, Running, Ended
<1>0. Requests \cap Calls = {}
  BY NoneIsNothing
<1>1. ASSUME NEW m \in OwnClaims, Ask(r, m) PROVE SInv'
  <2>1. TypeOK'
    BY <1>1 DEF Ask, OwnClaims, Go, SInv, TypeOK, rows, reads, redis
  <2>2. Shape'
    BY <1>0, <1>1 DEF Ask, Go, SInv, TypeOK, Shape, reads
  <2> QED BY <2>1, <2>2 DEF SInv
<1>2. ASSUME Authenticate(r) \/ CheckRequestedTarget(r) PROVE SInv'
  <2>1. PICK stage \in {"target", "sign", "denied"} : Go(r, stage)
    BY <1>2 DEF Authenticate, CheckRequestedTarget, Check
  <2> QED BY <1>0, <1>2, <2>1, GoShape DEF Authenticate, CheckRequestedTarget, Check
<1>3. ASSUME IssueRequesterToken(r) PROVE SInv'
  <2>1. now + RequesterTtl \in Nat
    BY TimeConstants DEF SInv, TypeOK, Times
  <2>2. TypeOK'
    BY <1>3, <2>1 DEF IssueRequesterToken, Go, SInv, TypeOK, rows, reads, redis
  <2>3. Shape'
    BY <1>0, <1>3 DEF IssueRequesterToken, Go, SInv, TypeOK, Shape, reads
  <2> QED BY <2>2, <2>3 DEF SInv
<1> QED BY <1>1, <1>2, <1>3, SharedShape DEF Issue

LEMMA ExchangeShape ==
  ASSUME SInv, NEW c \in Calls, Exchange(c)
  PROVE  SInv'
<1> USE DEF Stages, Running, Ended, HasTarget, HasPrincipal, HasRuntime, HasCredential,
            HasConnection, HasGrant, HasToken
<1>0. /\ Requests \cap Calls = {} /\ now \in Times
      /\ at \in [Requests \cup Calls -> Stages]
  BY NoneIsNothing DEF SInv, TypeOK
<1>1. ASSUME NEW r \in Requests, Verify(c, r) PROVE SInv'
  <2>1. TypeOK'
    BY <1>1 DEF Verify, Go, SInv, TypeOK, rows, claims, redis
  <2>2. Shape'
    BY <1>0, <1>1 DEF Verify, Go, SInv, TypeOK, Shape, claims
  <2> QED BY <2>1, <2>2 DEF SInv
<1>2. ASSUME MarkRequest(c) PROVE SInv'
  <2>1. MarkUntil \in Nat
    BY TimeConstants, <1>0 DEF MarkUntil, Times
  <2>2. request[c] \in Requests /\ (Go(c, "target") \/ Go(c, "denied") \/ Go(c, "failed"))
    BY <1>2 DEF MarkRequest, SInv, Shape
  <2>3. mark' \in [Requests -> Nat \cup {None}]
    BY <1>2, <2>1, <2>2 DEF MarkRequest, SInv, TypeOK
  <2>4. TypeOK'
    BY <1>2, <2>2, <2>3 DEF MarkRequest, Go, SInv, TypeOK, rows, claims, reads
  <2>5. Shape'
    BY <1>0, <1>2, <2>2 DEF MarkRequest, Go, SInv, Shape, claims, reads
  <2> QED BY <2>4, <2>5 DEF SInv
<1>3. ASSUME CheckTarget(c) PROVE SInv'
  <2>1. ClaimOf(c).target \in Targets
    BY <1>0, <1>3 DEF CheckTarget, SInv, Shape, ClaimOf, OwnClaims, Claim
  <2>2. audience[ClaimOf(c).target] \in Audiences
    BY <2>1 DEF SInv, TypeOK
  <2>3. Go(c, "principal") \/ Go(c, "denied")
    BY <1>3 DEF CheckTarget, Check
  <2>4. TypeOK'
    BY <1>3, <2>2, <2>3 DEF CheckTarget, Go, SInv, TypeOK, rows, claims, redis
  <2>5. Shape'
    BY <1>0, <1>3, <2>2, <2>3 DEF CheckTarget, Go, SInv, TypeOK, Shape, claims
  <2> QED BY <2>4, <2>5 DEF SInv
<1>4. ASSUME CheckCredential(c) PROVE SInv'
  <2>1. PICK stage \in {"connection", "denied"} : Go(c, stage)
    BY <1>4 DEF CheckCredential, Check
  <2> QED BY <1>4, <2>1, GoShape DEF CheckCredential, SInv, Shape
<1>5. ASSUME FindConnection(c) PROVE SInv'
  <2>1. CASE Candidates(ClaimOf(c)) = {} /\ Go(c, "denied") /\ UNCHANGED <<chosen, limit>>
    BY <1>5, <2>1, GoShape DEF FindConnection, Unread, reads, SInv, Shape
  <2>2. ASSUME NEW k \in First(Candidates(ClaimOf(c))),
               chosen' = [chosen EXCEPT ![c] = k], limit' = [limit EXCEPT ![c] = maxTtl[k]],
               Go(c, "grant") \/ Go(c, "denied")
        PROVE  SInv'
    <3>1. k \in Connections /\ maxTtl[k] \in Ttls /\ maxTtl[k] \in Nat
      BY TimeConstants DEF First, Candidates, SInv, TypeOK
    <3>2. TypeOK'
      BY <1>5, <2>2, <3>1 DEF FindConnection, Go, SInv, TypeOK, rows, claims, redis
    <3>3. Shape'
      BY <1>0, <1>5, <2>2, <3>1 DEF FindConnection, Go, SInv, TypeOK, Shape, claims
    <3> QED BY <3>2, <3>3 DEF SInv
  <2> QED BY <1>5, <2>1, <2>2 DEF FindConnection
<1>6. ASSUME FindGrant(c) PROVE SInv'
  <2>1. CASE Go(c, "denied") /\ UNCHANGED permit
    BY <1>6, <2>1, GoShape DEF FindGrant, Unread, reads, SInv, Shape
  <2>2. ASSUME NEW g \in ActiveGrants(chosen[c]),
               permit' = [permit EXCEPT ![c] = g], Go(c, "cache")
        PROVE  SInv'
    <3>1. g \in Grants
      BY DEF ActiveGrants
    <3>2. TypeOK'
      BY <1>6, <2>2, <3>1 DEF FindGrant, Go, SInv, TypeOK, rows, claims, redis
    <3>3. Shape'
      BY <1>0, <1>6, <2>2, <3>1 DEF FindGrant, Go, SInv, TypeOK, Shape, claims
    <3> QED BY <3>2, <3>3 DEF SInv
  <2> QED BY <1>6, <2>1, <2>2 DEF FindGrant
<1>7. ASSUME NEW t \in Token, NEW stage \in {"write", "audit"}, Have(c, t, stage),
             at[c] \in {"cache", "sign"}
      PROVE  SInv'
  <2>1. TypeOK'
    BY <1>0, <1>7 DEF Have, Go, SInv, TypeOK, rows, claims, redis
  <2>2. Shape'
    BY <1>0, <1>7 DEF Have, Go, SInv, TypeOK, Shape, claims
  <2> QED BY <2>1, <2>2 DEF SInv
<1>8. ASSUME ReadCache(c) PROVE SInv'
  <2>1. CASE (Go(c, "sign") \/ Go(c, "stale")) /\ UNCHANGED Unread
    BY <1>8, <2>1, GoShape DEF ReadCache, SInv, Shape
  <2>2. ASSUME NEW entry \in cache, Have(c, entry.token, "audit") PROVE SInv'
    BY <1>7, <1>8, <2>2 DEF ReadCache, SInv, TypeOK
  <2> QED BY <1>8, <2>1, <2>2 DEF ReadCache
<1>9. ASSUME Sign(c) PROVE SInv'
  BY <1>7, <1>9, NewTokenIsToken DEF Sign
<1>10. ASSUME Discard(c) \/ WriteCache(c) PROVE SInv'
  <2>1. \A entry \in cache' : entry.token \in Token
    <3>1. CASE Discard(c)
      BY <3>1 DEF Discard, SInv, TypeOK
    <3>2. CASE WriteCache(c)
      <4>1. answer[c] \in Token
        BY <3>2 DEF WriteCache, SInv, Shape
      <4> QED BY <3>2, <4>1 DEF WriteCache, SInv, TypeOK
    <3> QED BY <1>10, <3>1, <3>2
  <2>2. TypeOK'
    BY <1>10, <2>1 DEF Discard, WriteCache, Go, SInv, TypeOK, rows, claims, reads
  <2>3. Shape'
    BY <1>0, <1>10 DEF Discard, WriteCache, Go, SInv, Shape, claims, reads
  <2> QED BY <2>2, <2>3 DEF SInv
<1>11. ASSUME Record(c) PROVE SInv'
  <2>1. answer[c].jti \in Calls
    BY <1>11 DEF Record, SInv, Shape, Token
  <2>2. TypeOK'
    BY <1>11, <2>1 DEF Record, Go, SInv, TypeOK, rows, claims, reads, redis
  <2>3. Shape'
    BY <1>0, <1>11 DEF Record, Go, SInv, Shape, claims, reads
  <2> QED BY <2>2, <2>3 DEF SInv
<1>12. ASSUME Answer(c) PROVE SInv'
  BY <1>12, GoShape DEF Answer, SInv, Shape
<1> QED BY <1>1, <1>2, <1>3, <1>4, <1>5, <1>6, <1>8, <1>9, <1>10, <1>11, <1>12,
           SharedShape DEF Exchange

LEMMA StepShape == SInv /\ [Next]_vars => SInv'
<1> SUFFICES ASSUME SInv, [Next]_vars PROVE SInv'
  OBVIOUS
<1>1. CASE Tick
  BY <1>1, TimeConstants DEF Tick, SInv, TypeOK, Shape, Times, rows, claims, reads, redis
<1>2. CASE UNCHANGED vars
  BY <1>2 DEF vars, SInv, TypeOK, Shape, rows, claims, reads, redis
<1> QED BY <1>1, <1>2, AdministerShape, IssueShape, ExchangeShape DEF Next

(* All variables keep their types. *)
THEOREM ExchangeTypes == Spec => []TypeOK
<1>1. Spec => []SInv
  BY InitSInv, StepShape, PTL DEF Spec
<1> QED BY <1>1, PTL DEF SInv

--------------------------------------------------------------------------------
(* What a call has checked was good while it ran *)

GoodRows(c) == {e \in Rows : Good(e, ClaimOf(c).context)}

(* alive has every row that is good now, and the rows each stage has checked. *)
VouchedFor(c) ==
  /\ at[c] \in Running => GoodRows(c) \subseteq alive[c]
  /\ at[c] \in HasTarget => ClaimOf(c).target \in alive[c]
  /\ at[c] \in HasPrincipal => ClaimOf(c).principal \in alive[c]
  /\ at[c] \in HasRuntime => ClaimOf(c).runtime \in alive[c] \cup {None}
  /\ at[c] \in HasCredential => ClaimOf(c).credential \in alive[c]
  /\ at[c] \in HasConnection => chosen[c] \in alive[c]
  /\ at[c] \in HasGrant => permit[c] \in alive[c]

Vouched == \A c \in Calls : VouchedFor(c)

(* A row that is no connection is good as soon as it is active. *)
LEMMA ActiveIsVouched ==
  ASSUME SInv, Vouched, NEW c \in Calls, at[c] \in Running, NEW e \in Rows,
         Active(e), e \notin Connections \/ Admits(e, ClaimOf(c).context)
  PROVE  e \in alive[c]
BY DEF Vouched, VouchedFor, GoodRows, Good

LEMMA AdministerVouched == SInv /\ Vouched /\ Administer => Vouched'
<1> SUFFICES ASSUME SInv, Vouched, Administer PROVE Vouched'
  OBVIOUS
<1>1. UNCHANGED Unadministered /\ Witness
  BY DEF Administer, SetStatus, SetAudience, Revoke, Delete, UpdateConnection, UpdateGrant
<1>2. /\ UNCHANGED <<at, claim, request, chosen, permit>>
      /\ \A c \in Calls :
           alive'[c] = IF at[c] \in Running
                         THEN alive[c] \cup {e \in Rows : Good(e, ClaimOf(c).context)'}
                         ELSE alive[c]
  BY <1>1 DEF Unadministered, claims, reads, Witness
<1> SUFFICES ASSUME NEW c \in Calls PROVE VouchedFor(c)'
  BY DEF Vouched
<1>3. VouchedFor(c) /\ alive[c] \subseteq alive'[c]
  BY <1>2 DEF Vouched
<1>4. ClaimOf(c)' = ClaimOf(c)
  BY <1>2 DEF ClaimOf
<1>5. at[c] \in Running => GoodRows(c)' \subseteq alive'[c]
  BY <1>2 DEF GoodRows
<1> QED BY <1>2, <1>3, <1>4, <1>5 DEF VouchedFor

(* Only the stage of one call changes, and what it needs there is checked. *)
LEMMA StageVouched ==
  ASSUME SInv, Vouched, NEW c \in Calls, NEW stage \in Stages,
         Go(c, stage), UNCHANGED <<now, rows, claims, request, alive>>,
         \A d \in Calls \ {c} : chosen'[d] = chosen[d] /\ permit'[d] = permit[d],
         at[c] # "idle",
         stage \in Running => at[c] \in Running,
         stage \in HasTarget => ClaimOf(c).target \in alive[c],
         stage \in HasPrincipal => ClaimOf(c).principal \in alive[c],
         stage \in HasRuntime => ClaimOf(c).runtime \in alive[c] \cup {None},
         stage \in HasCredential => ClaimOf(c).credential \in alive[c],
         stage \in HasConnection => chosen'[c] \in alive[c],
         stage \in HasGrant => permit'[c] \in alive[c]
  PROVE  Vouched'
<1> SUFFICES ASSUME NEW d \in Calls PROVE VouchedFor(d)'
  BY DEF Vouched
<1>1. at \in [Requests \cup Calls -> Stages] /\ at' = [at EXCEPT ![c] = stage]
  BY DEF SInv, TypeOK, Go, Stages
<1>2. ClaimOf(d)' = ClaimOf(d) /\ GoodRows(d)' = GoodRows(d) /\ alive' = alive
  BY DEF ClaimOf, GoodRows, Good, Active, Unexpired, Admits, rows, claims
<1>3. VouchedFor(d)
  BY DEF Vouched
<1>4. CASE d = c
  BY <1>1, <1>2, <1>3, <1>4 DEF VouchedFor
<1>5. CASE d # c
  BY <1>1, <1>2, <1>3, <1>5 DEF VouchedFor
<1> QED BY <1>4, <1>5

LEMMA IssueVouched ==
  ASSUME SInv, Vouched, NEW r \in Requests, Issue(r)
  PROVE  Vouched'
<1> SUFFICES ASSUME NEW c \in Calls PROVE VouchedFor(c)'
  BY DEF Vouched
<1>0. /\ at \in [Requests \cup Calls -> Stages] /\ r # c
      /\ claim \in [Requests -> Claim \cup {None}]
  BY NoneIsNothing DEF SInv, TypeOK, Stages
<1>1. /\ UNCHANGED <<now, rows, request, chosen, permit, alive>>
      /\ at'[c] = at[c]
      /\ claim' = claim \/ (at[r] = "idle" /\ \E m : claim' = [claim EXCEPT ![r] = m])
  BY <1>0 DEF Issue, Ask, CheckAgent, CheckApplication, CheckRuntime, Authenticate,
     CheckRequestedTarget, IssueRequesterToken, Fail, Check, Go, Unread, claims, reads
<1>2. CASE at[c] = "idle"
  BY <1>1, <1>2 DEF VouchedFor, Running, HasTarget, HasPrincipal, HasRuntime,
     HasCredential, HasConnection, HasGrant, HasToken
<1>3. CASE at[c] # "idle"
  <2>1. (request[c] \in Requests /\ request[c] # r) \/ claim' = claim
    BY <1>1, <1>3 DEF SInv, Shape
  <2>2. ClaimOf(c)' = ClaimOf(c)
    BY <1>0, <1>1, <2>1, NoneIsNothing DEF ClaimOf
  <2>3. GoodRows(c)' = GoodRows(c)
    BY <1>1, <2>2 DEF GoodRows, Good, Active, Unexpired, Admits, rows
  <2> QED BY <1>1, <2>2, <2>3 DEF Vouched, VouchedFor
<1> QED BY <1>2, <1>3

LEMMA TickVouched == SInv /\ Vouched /\ Tick => Vouched'
<1> SUFFICES ASSUME SInv, Vouched, Tick, NEW c \in Calls PROVE VouchedFor(c)'
  BY DEF Vouched
<1>1. ClaimOf(c)' = ClaimOf(c) /\ UNCHANGED <<rows, at, chosen, permit, alive>>
  BY DEF Tick, ClaimOf, claims, reads
<1>2. GoodRows(c)' \subseteq GoodRows(c)
  <2>1. /\ now \in Nat /\ now' = now + 1
        /\ \A e \in Connections \cup Grants : expiry[e] \in Nat
    BY TimeConstants DEF Tick, SInv, TypeOK, Times, Never
  <2>2. \A e \in Rows : Unexpired(e)' => Unexpired(e)
    BY <1>1, <2>1 DEF Unexpired, rows
  <2> QED BY <1>1, <2>2 DEF GoodRows, Good, Active, Admits, rows
<1> QED BY <1>1, <1>2 DEF Vouched, VouchedFor

LEMMA ExchangeVouched ==
  ASSUME SInv, Vouched, NEW c \in Calls, Exchange(c)
  PROVE  Vouched'
<1> USE DEF Stages, Running, Ended, HasTarget, HasPrincipal, HasRuntime, HasCredential,
            HasConnection, HasGrant, HasToken
<1> DEFINE m == ClaimOf(c)
<1>0. /\ c \notin Requests /\ VouchedFor(c)
      /\ at \in [Requests \cup Calls -> Stages]
  BY NoneIsNothing DEF SInv, TypeOK, Vouched
<1>1. at[c] # "idle" => m \in OwnClaims
  BY <1>0 DEF SInv, Shape, ClaimOf
<1>2. at[c] # "idle" =>
        /\ m.principal \in Rows /\ m.credential \in Rows /\ m.target \in Rows
        /\ m.runtime \in Rows \cup {None}
        /\ {m.principal, m.runtime, m.credential, m.target} \cap Connections = {}
  BY <1>1, RowConstants, NoneIsNothing DEF OwnClaims, Claim, Rows
<1>3. ASSUME at[c] \in Running, NEW e \in Rows, e \notin Connections, Active(e)
      PROVE  e \in alive[c]
  BY <1>3, ActiveIsVouched
<1>4. ASSUME NEW r \in Requests, Verify(c, r) PROVE Vouched'
  <2> SUFFICES ASSUME NEW d \in Calls PROVE VouchedFor(d)'
    BY DEF Vouched
  <2>0. alive \in [Calls -> SUBSET Rows] /\ request \in [Calls -> Requests \cup {None}]
    BY DEF SInv, TypeOK
  <2>1. CASE d = c
    <3>1. ClaimOf(c)' = claim[r] /\ alive'[c] = {e \in Rows : Good(e, claim[r].context)}
            /\ at'[c] = "verified"
      BY <1>0, <1>4, <2>0 DEF Verify, ClaimOf, claims, Go
    <3>2. GoodRows(c)' = alive'[c]
      BY <1>4, <3>1 DEF Verify, GoodRows, Good, Active, Unexpired, Admits, rows
    <3> QED BY <2>1, <3>1, <3>2 DEF VouchedFor
  <2>2. CASE d # c
    <3>1. ClaimOf(d)' = ClaimOf(d) /\ alive'[d] = alive[d] /\ at'[d] = at[d]
            /\ chosen' = chosen /\ permit' = permit
      BY <1>0, <1>4, <2>0, <2>2 DEF Verify, ClaimOf, claims, Go
    <3>2. GoodRows(d)' = GoodRows(d)
      BY <1>4, <3>1 DEF Verify, GoodRows, Good, Active, Unexpired, Admits, rows
    <3> QED BY <3>1, <3>2 DEF Vouched, VouchedFor
  <2> QED BY <2>1, <2>2
<1>5. ASSUME MarkRequest(c) PROVE Vouched'
  <2>1. PICK stage \in {"target", "denied", "failed"} : Go(c, stage)
    BY <1>5 DEF MarkRequest
  <2> QED BY <1>0, <1>5, <2>1, StageVouched DEF MarkRequest, claims, reads
<1>6. ASSUME CheckTarget(c) PROVE Vouched'
  <2>1. PICK stage \in {"principal", "denied"} :
          Go(c, stage) /\ (stage = "principal" => m.target \in alive[c])
    BY <1>2, <1>3, <1>6 DEF CheckTarget, Check
  <2> QED BY <1>0, <1>6, <2>1, StageVouched DEF CheckTarget, claims
<1>7. ASSUME CheckAgent(c) PROVE Vouched'
  <2>1. PICK stage \in {"runtime", "denied"} :
          Go(c, stage) /\ (stage = "runtime" => m.principal \in alive[c])
    BY <1>2, <1>3, <1>7 DEF CheckAgent, Check
  <2> QED BY <1>0, <1>7, <2>1, StageVouched DEF CheckAgent, VouchedFor, Unread, claims, reads
<1>8. ASSUME CheckApplication(c) PROVE Vouched'
  <2>1. m.runtime = None
    BY <1>0, <1>1, <1>8, RowConstants DEF CheckApplication, OwnClaims, Claim
  <2>2. PICK stage \in {"connection", "denied"} :
          /\ Go(c, stage)
          /\ stage = "connection" => m.principal \in alive[c] /\ m.credential \in alive[c]
    BY <1>0, <1>2, <1>3, <1>8 DEF CheckApplication, Check
  <2> QED BY <1>0, <1>8, <2>1, <2>2, StageVouched
          DEF CheckApplication, VouchedFor, Unread, claims, reads
<1>9. ASSUME CheckRuntime(c) PROVE Vouched'
  <2>1. PICK stage \in {"credential", "denied"} :
          Go(c, stage) /\ (stage = "credential" => m.runtime \in alive[c] \cup {None})
    BY <1>2, <1>3, <1>9 DEF CheckRuntime, Check
  <2> QED BY <1>0, <1>9, <2>1, StageVouched DEF CheckRuntime, VouchedFor, Unread, claims, reads
<1>10. ASSUME CheckCredential(c) PROVE Vouched'
  <2>1. PICK stage \in {"connection", "denied"} :
          Go(c, stage) /\ (stage = "connection" => m.credential \in alive[c])
    BY <1>2, <1>3, <1>10 DEF CheckCredential, Check
  <2> QED BY <1>0, <1>10, <2>1, StageVouched
          DEF CheckCredential, VouchedFor, Unread, claims, reads
<1>11. ASSUME FindConnection(c) PROVE Vouched'
  <2>0. chosen \in [Calls -> Connections \cup {None}]
    BY DEF SInv, TypeOK
  <2>1. PICK stage \in {"grant", "denied"} :
          Go(c, stage) /\ (stage = "grant" => chosen'[c] \in alive[c])
    <3>1. CASE Go(c, "denied")
      BY <3>1
    <3>2. ASSUME NEW k \in First(Candidates(m)), chosen' = [chosen EXCEPT ![c] = k],
                 Go(c, IF Admits(k, m.context) THEN "grant" ELSE "denied")
          PROVE  \E stage \in {"grant", "denied"} :
                   Go(c, stage) /\ (stage = "grant" => chosen'[c] \in alive[c])
      <4>1. k \in Connections /\ k \in Rows /\ Active(k) /\ chosen'[c] = k
        BY <2>0, <3>2 DEF First, Candidates, Rows
      <4>2. Admits(k, m.context) => k \in alive[c]
        BY <1>11, <4>1, ActiveIsVouched DEF FindConnection
      <4> QED BY <3>2, <4>1, <4>2
    <3> QED BY <1>11, <3>1, <3>2 DEF FindConnection
  <2>2. \A d \in Calls \ {c} : chosen'[d] = chosen[d] /\ permit'[d] = permit[d]
    BY <1>11, <2>0 DEF FindConnection
  <2> QED BY <1>0, <1>11, <2>1, <2>2, StageVouched DEF FindConnection, VouchedFor, claims
<1>12. ASSUME FindGrant(c) PROVE Vouched'
  <2>0. permit \in [Calls -> Grants \cup {None}]
    BY DEF SInv, TypeOK
  <2>1. PICK stage \in {"cache", "denied"} :
          Go(c, stage) /\ (stage = "cache" => permit'[c] \in alive[c])
    <3>1. CASE Go(c, "denied")
      BY <3>1
    <3>2. ASSUME NEW g \in ActiveGrants(chosen[c]), permit' = [permit EXCEPT ![c] = g],
                 Go(c, "cache")
          PROVE  Go(c, "cache") /\ permit'[c] \in alive[c]
      <4>1. g \in Rows /\ g \notin Connections /\ Active(g) /\ permit'[c] = g
        BY <2>0, <3>2, RowConstants DEF ActiveGrants, Rows
      <4> QED BY <1>3, <1>12, <3>2, <4>1 DEF FindGrant
    <3> QED BY <1>12, <3>1, <3>2 DEF FindGrant
  <2>2. \A d \in Calls \ {c} : chosen'[d] = chosen[d] /\ permit'[d] = permit[d]
    BY <1>12, <2>0 DEF FindGrant
  <2> QED BY <1>0, <1>12, <2>1, <2>2, StageVouched DEF FindGrant, VouchedFor, claims
<1>13. ASSUME ReadCache(c) \/ Discard(c) \/ Sign(c) \/ WriteCache(c) \/ Record(c) \/ Answer(c)
       PROVE  Vouched'
  <2>1. PICK stage \in {"stale", "sign", "write", "record", "audit", "answered"} : Go(c, stage)
    BY <1>13 DEF ReadCache, Discard, Sign, WriteCache, Record, Answer, Have
  <2>2. /\ at[c] \in HasGrant \ {"answered"}
        /\ UNCHANGED <<now, rows, claims, request, chosen, permit, alive>>
    BY <1>13 DEF ReadCache, Discard, Sign, WriteCache, Record, Answer, Have, Unread, reads
  <2> QED BY <1>0, <2>1, <2>2, StageVouched DEF VouchedFor
<1>14. ASSUME Fail(c) PROVE Vouched'
  BY <1>14, StageVouched DEF Fail, Unread, reads
<1> QED BY <1>4, <1>5, <1>6, <1>7, <1>8, <1>9, <1>10, <1>11, <1>12, <1>13, <1>14
        DEF Exchange

LEMMA StepVouched == SInv /\ Vouched /\ [Next]_vars => Vouched'
<1> SUFFICES ASSUME SInv, Vouched, [Next]_vars PROVE Vouched'
  OBVIOUS
<1>1. CASE UNCHANGED vars
  BY <1>1 DEF vars, rows, claims, reads, Vouched, VouchedFor, GoodRows, Good, Active,
     Unexpired, Admits, ClaimOf
<1> QED BY <1>1, AdministerVouched, IssueVouched, ExchangeVouched, TickVouched DEF Next

(* No answer, fresh or cached, skips a check of this very call. *)
THEOREM AnswersAreRevalidated == Spec => []RevalidatedOnEveryAnswer
<1>1. Init => Vouched
  BY NoneIsNothing DEF Init, Vouched, VouchedFor, Running, HasTarget, HasPrincipal, HasRuntime,
     HasCredential, HasConnection, HasGrant, HasToken
<1>2. SInv /\ Vouched => RevalidatedOnEveryAnswer
  BY DEF Vouched, VouchedFor, RevalidatedOnEveryAnswer, Needed, HasTarget, HasPrincipal,
     HasRuntime, HasCredential, HasConnection, HasGrant, HasToken
<1>3. Spec => [](SInv /\ Vouched)
  BY <1>1, InitSInv, StepShape, StepVouched, PTL DEF Spec
<1> QED BY <1>2, <1>3, PTL

--------------------------------------------------------------------------------
(* The cache *)

(* The key a token was cached under. *)
KeyOf(t) == [claim |-> t.claim, audience |-> t.audience,
             connection |-> t.connection, grant |-> t.grant]

(* Entries are cached under the keys of their tokens, and a call has a token *)
(* of its own key.                                                          *)
OwnEntries ==
  /\ \A entry \in cache : entry.key = KeyOf(entry.token)
  /\ \A c \in Calls : at[c] \in HasToken => KeyOf(answer[c]) = Key(c)

LEMMA StepOwnEntries == SInv /\ OwnEntries /\ [Next]_vars => OwnEntries'
<1> SUFFICES ASSUME SInv, OwnEntries, [Next]_vars PROVE OwnEntries'
  OBVIOUS
<1> USE DEF HasToken
<1>0. /\ Requests \cap Calls = {} /\ at \in [Requests \cup Calls -> Stages]
      /\ answer \in [Calls -> Token \cup {None}]
  BY NoneIsNothing DEF SInv, TypeOK, Stages
<1>1. ASSUME UNCHANGED <<cache, answer, aud, chosen, permit, request>>,
             \A c \in Calls : at'[c] \in HasToken => at[c] \in HasToken /\ ClaimOf(c)' = ClaimOf(c)
      PROVE  OwnEntries'
  BY <1>1 DEF OwnEntries, Key
<1>2. CASE Administer \/ Tick \/ UNCHANGED vars
  <2>1. UNCHANGED <<cache, answer, aud, chosen, permit, request, at, claim>>
    BY <1>2 DEF Administer, SetStatus, SetAudience, Revoke, Delete, UpdateConnection,
       UpdateGrant, Unadministered, Tick, vars, claims, reads, redis
  <2> QED BY <1>1, <2>1 DEF ClaimOf
<1>3. ASSUME NEW r \in Requests, Issue(r) PROVE OwnEntries'
  <2>1. /\ UNCHANGED <<cache, answer, aud, chosen, permit, request>>
        /\ \A c \in Calls : at'[c] = at[c]
        /\ at[r] # "idle" => UNCHANGED claim
        /\ \A q \in Requests \ {r} : claim'[q] = claim[q]
    <3>1. ASSUME NEW m, Ask(r, m)
          PROVE  /\ UNCHANGED <<cache, answer, aud, chosen, permit, request>>
                 /\ \E stage : Go(r, stage)
                 /\ at[r] = "idle"
                 /\ \A q \in Requests \ {r} : claim'[q] = claim[q]
      BY <3>1 DEF Ask, reads, redis, SInv, TypeOK
    <3>2. ASSUME ~\E m \in OwnClaims : Ask(r, m)
          PROVE  /\ UNCHANGED <<cache, answer, aud, chosen, permit, request, claim>>
                 /\ \E stage : Go(r, stage)
      BY <1>3, <3>2 DEF Issue, CheckAgent, CheckApplication, CheckRuntime, Authenticate,
         CheckRequestedTarget, IssueRequesterToken, Fail, Check, Unread, claims, reads, redis
    <3>3. (\E stage : Go(r, stage)) => \A c \in Calls : at'[c] = at[c]
      BY <1>0 DEF Go
    <3> QED BY <3>1, <3>2, <3>3
  <2>2. ASSUME NEW c \in Calls, at[c] \in HasToken PROVE ClaimOf(c)' = ClaimOf(c)
    <3>1. request[c] \in Requests /\ at[request[c]] = "issued"
      BY <2>2 DEF SInv, Shape
    <3> QED BY <1>0, <2>1, <3>1 DEF ClaimOf, SInv, TypeOK
  <2> QED BY <1>1, <2>1, <2>2
<1>4. ASSUME NEW c \in Calls, Exchange(c) PROVE OwnEntries'
  <2>0. ASSUME NEW d \in Calls, UNCHANGED <<claim, request>> PROVE ClaimOf(d)' = ClaimOf(d)
    BY <2>0 DEF ClaimOf
  <2>1. ASSUME NEW t, NEW stage \in {"write", "audit"}, Have(c, t, stage), KeyOf(t) = Key(c)
        PROVE  OwnEntries'
    <3>1. /\ UNCHANGED <<claim, request, cache, aud, chosen, permit>>
          /\ at' = [at EXCEPT ![c] = stage] /\ answer' = [answer EXCEPT ![c] = t]
      BY <2>1 DEF Have, Go, claims, redis
    <3> QED BY <1>0, <2>0, <2>1, <3>1 DEF OwnEntries, Key
  <2>2. ASSUME ReadCache(c) PROVE OwnEntries'
    <3>1. CASE \E entry \in cache : entry.key = Key(c) /\ Have(c, entry.token, "audit")
      BY <2>1, <3>1 DEF OwnEntries
    <3>2. CASE (Go(c, "sign") \/ Go(c, "stale")) /\ UNCHANGED Unread
      BY <1>0, <1>1, <2>0, <3>2 DEF Go, Unread, claims, reads, redis
    <3> QED BY <2>2, <3>1, <3>2 DEF ReadCache
  <2>3. ASSUME Sign(c) PROVE OwnEntries'
    BY <2>1, <2>3 DEF Sign, NewToken, KeyOf, Key
  <2>4. ASSUME WriteCache(c) \/ Discard(c) PROVE OwnEntries'
    <3>1. UNCHANGED <<claim, request, aud, chosen, permit, answer>>
            /\ (Go(c, "record") \/ Go(c, "sign"))
      BY <2>4 DEF WriteCache, Discard, claims, reads
    <3>2. \A entry \in cache' : entry.key = KeyOf(entry.token)
      BY <2>4 DEF WriteCache, Discard, OwnEntries
    <3> QED BY <1>0, <2>0, <2>4, <3>1, <3>2 DEF WriteCache, Discard, Go, OwnEntries, Key
  <2>5. CASE Record(c) \/ Answer(c) \/ Fail(c) \/ MarkRequest(c) \/ CheckAgent(c)
              \/ CheckApplication(c) \/ CheckRuntime(c) \/ CheckCredential(c)
    <3>1. UNCHANGED <<claim, request, aud, chosen, permit, answer, cache>>
      BY <2>5 DEF Record, Answer, Fail, MarkRequest, CheckAgent, CheckApplication,
         CheckRuntime, CheckCredential, Unread, claims, reads, redis
    <3>2. \A d \in Calls : at'[d] \in HasToken => at[d] \in HasToken
      BY <1>0, <2>5 DEF Record, Answer, Fail, MarkRequest, CheckAgent, CheckApplication,
         CheckRuntime, CheckCredential, Check, Go
    <3> QED BY <1>1, <2>0, <3>1, <3>2
  <2>6. CASE CheckTarget(c) \/ FindConnection(c) \/ FindGrant(c)
              \/ (\E r \in Requests : Verify(c, r))
    <3>1. /\ UNCHANGED <<claim, answer, cache>>
          /\ \A d \in Calls \ {c} : /\ request'[d] = request[d] /\ aud'[d] = aud[d]
                                    /\ chosen'[d] = chosen[d] /\ permit'[d] = permit[d]
      BY <2>6 DEF CheckTarget, FindConnection, FindGrant, Verify, claims, redis, SInv, TypeOK
    <3>2. at'[c] \notin HasToken /\ \A d \in Calls \ {c} : at'[d] = at[d]
      BY <1>0, <2>6 DEF CheckTarget, FindConnection, FindGrant, Verify, Check, Go
    <3> QED BY <3>1, <3>2 DEF OwnEntries, Key, ClaimOf
  <2> QED BY <1>4, <2>2, <2>3, <2>4, <2>5, <2>6 DEF Exchange
<1> QED BY <1>2, <1>3, <1>4 DEF Next

(* A cached token is answered only to a call of exactly its context. *)
THEOREM AnswersInContext == Spec => []AnswersOwnContext
<1>1. Init => OwnEntries
  BY NoneIsNothing DEF Init, OwnEntries, HasToken
<1>2. OwnEntries => AnswersOwnContext
  <2> SUFFICES ASSUME OwnEntries, NEW c \in Calls, at[c] = "answered"
               PROVE  /\ answer[c].claim = ClaimOf(c) /\ answer[c].audience = aud[c]
                      /\ answer[c].connection = chosen[c] /\ answer[c].grant = permit[c]
    BY DEF AnswersOwnContext
  <2>1. KeyOf(answer[c]) = Key(c)
    BY DEF OwnEntries, HasToken
  <2> QED BY <2>1 DEF KeyOf, Key
<1>3. Spec => [](SInv /\ OwnEntries)
  BY <1>1, InitSInv, StepShape, StepOwnEntries, PTL DEF Spec
<1> QED BY <1>2, <1>3, PTL

--------------------------------------------------------------------------------
(* Replay *)

(* A mark outlives its token: of two calls that are past it with one token,  *)
(* the second took it when the token had expired.                            *)
MarkedInTime ==
  /\ \A r \in Requests :
       /\ at[r] = "issued" => expires[r] <= now + RequesterTtl
       /\ mark[r] # None => at[r] = "issued" /\ expires[r] <= mark[r]
  /\ \A c \in Calls : at[c] \in HasMark => mark[request[c]] # None
  /\ \A c, d \in Calls :
       c # d /\ at[c] \in HasMark /\ at[d] \in HasMark /\ request[c] = request[d]
         => expires[request[c]] <= now

(* The steps of one call behind the mark, and its failures. *)
LEMMA StageMarked ==
  ASSUME SInv, MarkedInTime, NEW c \in Calls, NEW stage \in Stages, Go(c, stage),
         UNCHANGED <<now, claims, request, mark>>,
         stage \in HasMark => at[c] \in HasMark
  PROVE  MarkedInTime'
<1>1. /\ at \in [Requests \cup Calls -> Stages] /\ at' = [at EXCEPT ![c] = stage]
      /\ Requests \cap Calls = {} /\ expires' = expires
  BY NoneIsNothing DEF SInv, TypeOK, Go, Stages, claims
<1>2. /\ \A r \in Requests : at'[r] = at[r]
      /\ \A d \in Calls : at'[d] = IF d = c THEN stage ELSE at[d]
  BY <1>1
<1>3. \A d \in Calls : at'[d] \in HasMark => at[d] \in HasMark
  BY <1>2
<1> QED BY <1>1, <1>2, <1>3 DEF MarkedInTime

LEMMA IssueMarked ==
  ASSUME SInv, MarkedInTime, NEW r \in Requests, Issue(r)
  PROVE  MarkedInTime'
<1>0. /\ Requests \cap Calls = {} /\ now \in Nat /\ RequesterTtl \in Nat
      /\ at \in [Requests \cup Calls -> Stages] /\ expires \in [Requests -> Nat]
  BY NoneIsNothing, TimeConstants DEF SInv, TypeOK, Stages, Times
<1>1. /\ UNCHANGED <<now, mark, request>> /\ \E stage : Go(r, stage)
      /\ at[r] # "issued"
  BY DEF Issue, Ask, CheckAgent, CheckApplication, CheckRuntime, Authenticate,
     CheckRequestedTarget, IssueRequesterToken, Fail, Check, Unread, claims, reads, redis
<1>2. \/ UNCHANGED expires /\ at'[r] # "issued"
      \/ expires' = [expires EXCEPT ![r] = now + RequesterTtl]
  <2>1. CASE IssueRequesterToken(r)
    BY <2>1 DEF IssueRequesterToken
  <2>2. CASE ~IssueRequesterToken(r)
    BY <1>0, <2>2 DEF Issue, Ask, CheckAgent, CheckApplication, CheckRuntime, Authenticate,
       CheckRequestedTarget, Fail, Check, Go, Unread, claims
  <2> QED BY <2>1, <2>2
<1>3. /\ \A x \in Requests \cup Calls : x # r => at'[x] = at[x]
      /\ \A q \in Requests : q # r => expires'[q] = expires[q]
  BY <1>0, <1>1, <1>2 DEF Go
<1>4. mark[r] = None
  BY <1>1 DEF MarkedInTime
<1>5. ASSUME NEW q \in Requests
      PROVE  /\ at'[q] = "issued" => expires'[q] <= now' + RequesterTtl
             /\ mark'[q] # None => at'[q] = "issued" /\ expires'[q] <= mark'[q]
  <2>1. CASE q = r
    BY <1>0, <1>1, <1>2, <1>4, <2>1
  <2>2. CASE q # r
    BY <1>1, <1>3, <2>2 DEF MarkedInTime
  <2> QED BY <2>1, <2>2
<1>6. \A c \in Calls : at[c] # "idle" => request[c] \in Requests /\ request[c] # r
  BY <1>1 DEF SInv, Shape
<1>7. \A c \in Calls : at'[c] = at[c] /\ request'[c] = request[c]
  BY <1>0, <1>1, <1>3
<1>8. ASSUME NEW c \in Calls, at[c] # "idle" PROVE expires'[request[c]] = expires[request[c]]
  BY <1>3, <1>6, <1>8
<1> QED BY <1>1, <1>5, <1>7, <1>8 DEF MarkedInTime, HasMark, HasTarget, HasPrincipal,
       HasRuntime, HasCredential, HasConnection, HasGrant, HasToken

LEMMA VerifyMarked ==
  ASSUME SInv, MarkedInTime, NEW c \in Calls, NEW r \in Requests, Verify(c, r)
  PROVE  MarkedInTime'
<1>0. /\ Requests \cap Calls = {}
      /\ at \in [Requests \cup Calls -> Stages]
      /\ request \in [Calls -> Requests \cup {None}]
  BY NoneIsNothing DEF SInv, TypeOK, Stages
<1>1. /\ UNCHANGED <<now, mark, expires>>
      /\ \A x \in Requests \cup Calls : x # c => at'[x] = at[x]
      /\ at'[c] = "verified"
      /\ \A d \in Calls : d # c => request'[d] = request[d]
  BY <1>0 DEF Verify, Go, claims, redis
<1>2. \A q \in Requests : at'[q] = at[q]
  BY <1>0, <1>1
<1>3. \A d \in Calls : at'[d] \in HasMark => d # c
  BY <1>1 DEF HasMark, HasTarget, HasPrincipal, HasRuntime, HasCredential, HasConnection,
     HasGrant, HasToken
<1> QED BY <1>1, <1>2, <1>3 DEF MarkedInTime

(* Only here is the length of the replay mark needed: where it is free again *)
(* the token has expired.                                                    *)
LEMMA MarkRequestMarked ==
  ASSUME ReplayTtl >= RequesterTtl,
         SInv, MarkedInTime, NEW c \in Calls, MarkRequest(c)
  PROVE  MarkedInTime'
<1> DEFINE r == request[c]
<1>0. /\ Requests \cap Calls = {}
      /\ {now, ReplayTtl, RequesterTtl} \subseteq Nat
      /\ at \in [Requests \cup Calls -> Stages] /\ expires \in [Requests -> Nat]
      /\ mark \in [Requests -> Nat \cup {None}] /\ None \notin Nat
  BY NoneIsNothing, TimeConstants DEF SInv, TypeOK, Stages, Times
<1>1. r \in Requests /\ at[r] = "issued" /\ at[c] = "verified"
  BY DEF MarkRequest, SInv, Shape
<1>2. CASE Marked(r) /\ Go(c, "denied") /\ UNCHANGED mark
  BY <1>2, StageMarked DEF MarkRequest, reads, Stages, Running, Ended, HasMark, HasTarget,
     HasPrincipal, HasRuntime, HasCredential, HasConnection, HasGrant, HasToken
<1>3. CASE ~Marked(r) /\ mark' = [mark EXCEPT ![r] = MarkUntil]
             /\ (Go(c, "target") \/ Go(c, "failed"))
  <2>1. mark[r] = None \/ expires[r] <= now
    BY <1>0, <1>1, <1>3 DEF MarkedInTime, Marked
  <2>2. expires[r] <= MarkUntil
    BY <1>0, <1>1 DEF MarkedInTime, MarkUntil
  <2>3. /\ UNCHANGED <<now, expires, request>>
        /\ \A x \in Requests \cup Calls : x # c => at'[x] = at[x]
        /\ at'[c] \in {"target", "failed"}
        /\ mark'[r] = MarkUntil /\ MarkUntil # None
        /\ \A q \in Requests : q # r => mark'[q] = mark[q]
    BY <1>0, <1>1, <1>3 DEF MarkRequest, Go, claims, reads, MarkUntil
  <2>4. ASSUME NEW d \in Calls, d # c, at[d] \in HasMark, request[d] = r
        PROVE  expires[r] <= now
    BY <2>1, <2>4 DEF MarkedInTime
  <2>5. \A q \in Requests : at'[q] = at[q]
    BY <1>0, <2>3
  <2>6. ASSUME NEW d \in Calls, at[d] \in HasMark PROVE request[d] \in Requests
    BY <2>6 DEF SInv, Shape, HasMark, HasTarget, HasPrincipal, HasRuntime, HasCredential,
       HasConnection, HasGrant, HasToken
  <2>7. \A q \in Requests :
          /\ at'[q] = "issued" => expires'[q] <= now' + RequesterTtl
          /\ mark'[q] # None => at'[q] = "issued" /\ expires'[q] <= mark'[q]
    BY <1>1, <2>2, <2>3, <2>5 DEF MarkedInTime
  <2>8. \A d \in Calls : at'[d] \in HasMark => mark'[request'[d]] # None
    BY <2>3, <2>6 DEF MarkedInTime
  <2>9. \A d, e \in Calls :
          d # e /\ at'[d] \in HasMark /\ at'[e] \in HasMark /\ request'[d] = request'[e]
            => expires'[request'[d]] <= now'
    BY <2>3, <2>4 DEF MarkedInTime
  <2> QED BY <2>7, <2>8, <2>9 DEF MarkedInTime
<1> QED BY <1>2, <1>3 DEF MarkRequest

LEMMA ExchangeMarked ==
  ASSUME ReplayTtl >= RequesterTtl,
         SInv, MarkedInTime, NEW c \in Calls, Exchange(c)
  PROVE  MarkedInTime'
<1> USE DEF HasMark, HasTarget, HasPrincipal, HasRuntime, HasCredential, HasConnection,
            HasGrant, HasToken
<1>1. CASE \/ CheckTarget(c) \/ CheckAgent(c) \/ CheckApplication(c) \/ CheckRuntime(c)
           \/ CheckCredential(c) \/ FindConnection(c) \/ FindGrant(c)
  <2>1. at[c] \in HasMark
          /\ UNCHANGED <<now, claims, request, mark>>
    BY <1>1 DEF CheckTarget, CheckAgent, CheckApplication, CheckRuntime, CheckCredential,
       FindConnection, FindGrant, Unread, reads, redis
  <2>2. PICK stage \in Stages : Go(c, stage)
    BY <1>1 DEF CheckTarget, CheckAgent, CheckApplication, CheckRuntime, CheckCredential,
       FindConnection, FindGrant, Check, Stages, Running, Ended
  <2> QED BY <2>1, <2>2, StageMarked
<1>2. CASE ReadCache(c) \/ Discard(c) \/ Sign(c) \/ WriteCache(c) \/ Record(c) \/ Answer(c)
  <2>1. /\ at[c] \in HasMark
        /\ UNCHANGED <<now, claims, request, mark>>
    BY <1>2 DEF ReadCache, Discard, Sign, WriteCache, Record, Answer, Have, Unread, reads,
       redis, SInv, TypeOK
  <2>2. PICK stage \in Stages : Go(c, stage)
    BY <1>2 DEF ReadCache, Discard, Sign, WriteCache, Record, Answer, Have, Stages,
       Running, Ended
  <2> QED BY <2>1, <2>2, StageMarked
<1>3. CASE Fail(c)
  BY <1>3, StageMarked DEF Fail, Unread, reads, redis, Stages, Running, Ended
<1> QED BY <1>1, <1>2, <1>3, VerifyMarked, MarkRequestMarked DEF Exchange

LEMMA TickMarked == SInv /\ MarkedInTime /\ Tick => MarkedInTime'
<1> SUFFICES ASSUME SInv, MarkedInTime, Tick PROVE MarkedInTime'
  OBVIOUS
<1>1. /\ UNCHANGED <<at, expires, mark, request>> /\ now' = now + 1
      /\ {now, RequesterTtl} \subseteq Nat /\ expires \in [Requests -> Nat]
  BY TimeConstants DEF Tick, SInv, TypeOK, Times, claims, reads, redis
<1>2. \A r \in Requests : at[r] = "issued" => expires[r] <= now + 1 + RequesterTtl
  BY <1>1 DEF MarkedInTime
<1>3. \A c \in Calls : at[c] \in HasMark => request[c] \in Requests
  BY DEF SInv, Shape, HasMark, HasTarget, HasPrincipal, HasRuntime, HasCredential,
     HasConnection, HasGrant, HasToken
<1>4. \A c, d \in Calls :
        c # d /\ at[c] \in HasMark /\ at[d] \in HasMark /\ request[c] = request[d]
          => expires[request[c]] <= now + 1
  BY <1>1, <1>3 DEF MarkedInTime
<1> QED BY <1>1, <1>2, <1>4 DEF MarkedInTime

LEMMA StepMarked ==
  ASSUME ReplayTtl >= RequesterTtl
  PROVE  SInv /\ MarkedInTime /\ [Next]_vars => MarkedInTime'
<1> SUFFICES ASSUME SInv, MarkedInTime, [Next]_vars PROVE MarkedInTime'
  OBVIOUS
<1>1. CASE Administer \/ UNCHANGED vars
  <2>1. UNCHANGED <<now, at, expires, mark, request>>
    BY <1>1 DEF Administer, SetStatus, SetAudience, Revoke, Delete, UpdateConnection,
       UpdateGrant, Unadministered, vars, claims, reads, redis
  <2> QED BY <2>1 DEF MarkedInTime
<1> QED BY <1>1, IssueMarked, ExchangeMarked, TickMarked DEF Next

(* No requester token is exchanged twice while it is valid, if the replay    *)
(* mark is kept for its lifetime, as it is with the defaults.                *)
THEOREM OnceOnly ==
  ASSUME ReplayTtl >= RequesterTtl
  PROVE  Spec => []OnceWhileValid
<1>1. Init => MarkedInTime
  BY NoneIsNothing DEF Init, MarkedInTime, HasMark, HasTarget, HasPrincipal,
     HasRuntime, HasCredential, HasConnection, HasGrant, HasToken
<1>2. MarkedInTime => OnceWhileValid
  BY DEF MarkedInTime, OnceWhileValid, HasMark, HasTarget, HasPrincipal, HasRuntime,
     HasCredential, HasConnection, HasGrant, HasToken
<1>3. SInv /\ MarkedInTime /\ [Next]_vars => MarkedInTime'
  BY StepMarked
<1>4. Spec => [](SInv /\ MarkedInTime)
  BY <1>1, <1>3, InitSInv, StepShape, PTL DEF Spec
<1> QED BY <1>2, <1>4, PTL

--------------------------------------------------------------------------------
(* Expiry *)

(* A call that has its token answers it before it expires. *)
InTime ==
  \A c \in Calls : at[c] \in {"write", "record", "audit"} =>
    now <= since[c] + AnswerLag /\ since[c] + AnswerLag < answer[c].expiresAt

LEMMA HaveInTime ==
  ASSUME SInv, InTime, NEW c \in Calls, NEW t \in Token, NEW stage, Have(c, t, stage),
         now + AnswerLag < t.expiresAt
  PROVE  InTime'
<1>1. /\ now \in Nat /\ AnswerLag \in Nat /\ since \in [Calls -> Times]
      /\ answer \in [Calls -> Token \cup {None}] /\ now \in Times
      /\ at \in [Requests \cup Calls -> Stages]
  BY TimeConstants DEF SInv, TypeOK, Stages, Times
<1>2. /\ answer'[c] = t /\ since'[c] = now /\ now' = now
      /\ \A d \in Calls \ {c} : /\ answer'[d] = answer[d] /\ since'[d] = since[d]
                                /\ at'[d] = at[d]
  BY <1>1 DEF Have, Go
<1> QED BY <1>1, <1>2 DEF InTime

LEMMA ExchangeInTime ==
  ASSUME AnswerLag <= Threshold, AnswerLag < TargetTtl, \A ttl \in Ttls : AnswerLag < ttl,
         SInv, InTime, NEW c \in Calls, Exchange(c)
  PROVE  InTime'
<1>0. /\ at \in [Requests \cup Calls -> Stages] /\ now \in Nat /\ Requests \cap Calls = {}
      /\ {AnswerLag, Threshold, TargetTtl} \subseteq Nat /\ Ttls \subseteq Nat
      /\ since \in [Calls -> Times]
  BY NoneIsNothing, TimeConstants DEF SInv, TypeOK, Stages, Times
<1>1. ASSUME UNCHANGED <<now, answer>>, \A d \in Calls \ {c} : since'[d] = since[d],
             NEW stage, Go(c, stage),
             stage \in {"write", "record", "audit"} =>
               at[c] \in {"write", "record", "audit"} /\ since'[c] = since[c]
      PROVE  InTime'
  BY <1>0, <1>1 DEF Go, InTime
<1>2. ASSUME NEW r \in Requests, Verify(c, r) PROVE InTime'
  BY <1>0, <1>1, <1>2 DEF Verify
<1>3. CASE \/ MarkRequest(c) \/ CheckTarget(c) \/ CheckAgent(c) \/ CheckApplication(c)
           \/ CheckRuntime(c) \/ CheckCredential(c) \/ FindConnection(c) \/ FindGrant(c)
           \/ Discard(c) \/ Fail(c)
  <2>1. UNCHANGED <<now, answer, since>>
    BY <1>3 DEF MarkRequest, CheckTarget, CheckAgent, CheckApplication, CheckRuntime,
       CheckCredential, FindConnection, FindGrant, Discard, Fail, Unread, reads
  <2>2. PICK stage \in Stages \ {"write", "record", "audit"} : Go(c, stage)
    BY <1>3 DEF MarkRequest, CheckTarget, CheckAgent, CheckApplication, CheckRuntime,
       CheckCredential, FindConnection, FindGrant, Discard, Fail, Check, Stages, Running, Ended
  <2> QED BY <1>1, <2>1, <2>2
<1>4. CASE ReadCache(c)
  <2>1. ASSUME NEW entry \in cache, Reusable(entry.token), Have(c, entry.token, "audit")
        PROVE  InTime'
    <3>1. entry.token \in Token /\ entry.token.expiresAt \in Nat
      BY DEF SInv, TypeOK, Token
    <3>2. now + AnswerLag < entry.token.expiresAt
      BY <1>0, <2>1, <3>1 DEF Reusable
    <3> QED BY <2>1, <3>1, <3>2, HaveInTime
  <2>2. CASE (Go(c, "sign") \/ Go(c, "stale")) /\ UNCHANGED Unread
    BY <1>1, <2>2 DEF Unread, reads
  <2> QED BY <1>4, <2>1, <2>2 DEF ReadCache
<1>5. CASE Sign(c)
  <2>1. limit[c] \in Ttls
    BY <1>5 DEF Sign, SInv, Shape, HasConnection, HasGrant
  <2>2. AnswerLag < Min2(TargetTtl, limit[c]) /\ Min2(TargetTtl, limit[c]) \in Nat
    BY <1>0, <2>1 DEF Min2
  <2>3. now + AnswerLag < NewToken(c).expiresAt
    BY <1>0, <2>2 DEF NewToken
  <2> QED BY <1>5, <2>3, HaveInTime, NewTokenIsToken DEF Sign
<1>6. CASE WriteCache(c) \/ Record(c) \/ Answer(c)
  <2>1. /\ UNCHANGED <<now, answer, since>> /\ at[c] \in {"write", "record", "audit"}
        /\ \E stage : Go(c, stage)
    BY <1>6 DEF WriteCache, Record, Answer, Unread, reads
  <2> QED BY <1>1, <2>1
<1> QED BY <1>2, <1>3, <1>4, <1>5, <1>6 DEF Exchange

LEMMA StepInTime ==
  ASSUME AnswerLag <= Threshold, AnswerLag < TargetTtl, \A ttl \in Ttls : AnswerLag < ttl
  PROVE  SInv /\ InTime /\ [Next]_vars => InTime'
<1> SUFFICES ASSUME SInv, InTime, [Next]_vars PROVE InTime'
  OBVIOUS
<1>1. CASE Administer \/ UNCHANGED vars
  <2>1. UNCHANGED <<now, at, answer, since>>
    BY <1>1 DEF Administer, SetStatus, SetAudience, Revoke, Delete, UpdateConnection,
       UpdateGrant, Unadministered, vars, reads
  <2> QED BY <2>1 DEF InTime
<1>2. ASSUME NEW r \in Requests, Issue(r) PROVE InTime'
  <2>1. UNCHANGED <<now, answer, since>> /\ \E stage : Go(r, stage)
    BY <1>2 DEF Issue, Ask, CheckAgent, CheckApplication, CheckRuntime, Authenticate,
       CheckRequestedTarget, IssueRequesterToken, Fail, Check, Unread, claims, reads
  <2>2. \A c \in Calls : at'[c] = at[c]
    BY <2>1, NoneIsNothing DEF Go, SInv, TypeOK
  <2> QED BY <2>1, <2>2 DEF InTime
<1>3. CASE Tick
  <2>1. /\ UNCHANGED <<at, answer, since>> /\ now' = now + 1 /\ now \in Nat
        /\ AnswerLag \in Nat /\ since \in [Calls -> Nat]
        /\ \A c \in Calls : at[c] \in {"write", "record", "audit"} => now < since[c] + AnswerLag
    BY <1>3, TimeConstants DEF Tick, SInv, TypeOK, Times, reads
  <2>2. \A c \in Calls : at[c] \in {"write", "record", "audit"} => now + 1 <= since[c] + AnswerLag
    BY <2>1
  <2> QED BY <2>1, <2>2 DEF InTime
<1> QED BY <1>1, <1>2, <1>3, ExchangeInTime DEF Next

(* No token expires between its reuse or signing and the answer, if that     *)
(* takes no longer than the reuse threshold and any lifetime.                *)
THEOREM Usable ==
  ASSUME AnswerLag <= Threshold, AnswerLag < TargetTtl, \A ttl \in Ttls : AnswerLag < ttl
  PROVE  Spec => []UsableOnArrival
<1>1. Init => InTime
  BY DEF Init, InTime
<1>2. SInv /\ InTime => UsableOnArrival
  <2> SUFFICES ASSUME SInv, InTime, NEW c \in Calls, at[c] = "audit"
               PROVE  now < answer[c].expiresAt
    BY DEF UsableOnArrival
  <2>1. {now, AnswerLag, since[c], answer[c].expiresAt} \subseteq Nat
    BY TimeConstants DEF SInv, TypeOK, Shape, Token, Times, HasToken
  <2> QED BY <2>1 DEF InTime
<1>3. SInv /\ InTime /\ [Next]_vars => InTime'
  BY StepInTime
<1>4. Spec => [](SInv /\ InTime)
  BY <1>1, <1>3, InitSInv, StepShape, PTL DEF Spec
<1> QED BY <1>2, <1>4, PTL

--------------------------------------------------------------------------------
(* Records *)

(* The issuing call of a token has recorded it, or has not got past that. *)
Settled(j) == j \in records \/ at[j] \in {"record", "failed"}

(* A call signs for itself, and what others can find is settled. *)
Accounted ==
  /\ \A entry \in cache : Settled(entry.token.jti)
  /\ \A c \in Calls :
       /\ at[c] \in {"write", "record"} => answer[c].jti = c
       /\ at[c] \in {"audit", "answered"} => Settled(answer[c].jti)

(* A call that changes neither what it answers nor the cache. *)
LEMMA StageAccounted ==
  ASSUME SInv, Accounted, NEW c \in Calls, NEW stage \in Stages, Go(c, stage),
         UNCHANGED <<cache, answer, records>>,
         stage \in {"write", "record", "audit", "answered"} => at[c] = "audit" /\ stage = "answered",
         at[c] = "record" => stage = "failed", at[c] # "failed"
  PROVE  Accounted'
<1>1. /\ at \in [Requests \cup Calls -> Stages] /\ at' = [at EXCEPT ![c] = stage]
      /\ \A d \in Calls : at'[d] = IF d = c THEN stage ELSE at[d]
  BY DEF SInv, TypeOK, Go, Stages
<1>2. ASSUME NEW j \in Calls, Settled(j) PROVE Settled(j)'
  BY <1>1, <1>2 DEF Settled
<1>3. \A entry \in cache : entry.token.jti \in Calls
  BY DEF SInv, TypeOK, Token
<1>4. \A d \in Calls : at[d] \in {"audit", "answered"} => answer[d].jti \in Calls
  BY DEF SInv, Shape, HasToken, Token
<1> QED BY <1>1, <1>2, <1>3, <1>4 DEF Accounted

LEMMA ExchangeAccounted ==
  ASSUME SInv, Accounted, NEW c \in Calls, Exchange(c)
  PROVE  Accounted'
<1> USE DEF Stages, Running, Ended
<1>0. /\ at \in [Requests \cup Calls -> Stages] /\ answer \in [Calls -> Token \cup {None}]
      /\ \A entry \in cache : entry.token.jti \in Calls
      /\ \A d \in Calls : at[d] \in HasToken => answer[d].jti \in Calls
  BY DEF SInv, TypeOK, Shape, Token
<1>1. CASE \/ MarkRequest(c) \/ CheckTarget(c) \/ CheckAgent(c) \/ CheckApplication(c)
           \/ CheckRuntime(c) \/ CheckCredential(c) \/ FindConnection(c) \/ FindGrant(c)
           \/ Answer(c) \/ Fail(c) \/ (\E r \in Requests : Verify(c, r))
  <2>1. UNCHANGED <<cache, answer, records>>
    BY <1>1 DEF MarkRequest, CheckTarget, CheckAgent, CheckApplication, CheckRuntime,
       CheckCredential, FindConnection, FindGrant, Answer, Fail, Verify, Unread, reads, redis
  <2>2. PICK stage \in Stages :
          /\ Go(c, stage)
          /\ stage \in {"write", "record", "audit", "answered"} => at[c] = "audit" /\ stage = "answered"
          /\ at[c] = "record" => stage = "failed"
    BY <1>1 DEF MarkRequest, CheckTarget, CheckAgent, CheckApplication, CheckRuntime,
       CheckCredential, FindConnection, FindGrant, Answer, Fail, Verify, Check
  <2>3. at[c] # "failed"
    BY <1>1 DEF MarkRequest, CheckTarget, CheckAgent, CheckApplication, CheckRuntime,
       CheckCredential, FindConnection, FindGrant, Answer, Fail, Verify, Check
  <2> QED BY <2>1, <2>2, <2>3, StageAccounted
<1>2. CASE ReadCache(c)
  <2>1. ASSUME NEW entry \in cache, Have(c, entry.token, "audit") PROVE Accounted'
    <3>1. /\ \A d \in Calls : at'[d] = IF d = c THEN "audit" ELSE at[d]
          /\ \A d \in Calls : answer'[d] = IF d = c THEN entry.token ELSE answer[d]
          /\ UNCHANGED <<cache, records>> /\ at[c] = "cache"
      BY <1>0, <1>2, <2>1 DEF Have, Go, redis, ReadCache
    <3>2. ASSUME NEW j \in Calls, Settled(j) PROVE Settled(j)'
      BY <3>1, <3>2 DEF Settled
    <3> QED BY <1>0, <3>1, <3>2 DEF Accounted, HasToken
  <2>2. CASE (Go(c, "sign") \/ Go(c, "stale")) /\ UNCHANGED Unread
    BY <1>2, <2>2, StageAccounted DEF ReadCache, Unread, reads, redis
  <2> QED BY <1>2, <2>1, <2>2 DEF ReadCache
<1>3. CASE Sign(c)
  <2>1. /\ \A d \in Calls : at'[d] = IF d = c THEN "write" ELSE at[d]
        /\ \A d \in Calls : answer'[d] = IF d = c THEN NewToken(c) ELSE answer[d]
        /\ UNCHANGED <<cache, records>> /\ at[c] = "sign" /\ NewToken(c).jti = c
    BY <1>0, <1>3 DEF Sign, Have, Go, redis, NewToken
  <2>2. ASSUME NEW j \in Calls, Settled(j) PROVE Settled(j)'
    BY <2>1, <2>2 DEF Settled
  <2> QED BY <1>0, <2>1, <2>2 DEF Accounted, HasToken
<1>4. CASE Discard(c)
  <2>1. /\ \A d \in Calls : at'[d] = IF d = c THEN "sign" ELSE at[d]
        /\ UNCHANGED <<answer, records>> /\ cache' \subseteq cache /\ at[c] = "stale"
    BY <1>0, <1>4 DEF Discard, Go, reads
  <2>2. ASSUME NEW j \in Calls, Settled(j) PROVE Settled(j)'
    BY <2>1, <2>2 DEF Settled
  <2> QED BY <1>0, <2>1, <2>2 DEF Accounted, HasToken
<1>5. CASE WriteCache(c)
  <2>1. /\ \A d \in Calls : at'[d] = IF d = c THEN "record" ELSE at[d]
        /\ UNCHANGED <<answer, records>> /\ at[c] = "write"
        /\ \A entry \in cache' : entry \in cache \/ entry.token = answer[c]
    BY <1>0, <1>5 DEF WriteCache, Go, reads
  <2>2. ASSUME NEW j \in Calls, Settled(j) PROVE Settled(j)'
    BY <2>1, <2>2 DEF Settled
  <2>3. answer[c].jti = c /\ Settled(c)'
    BY <2>1 DEF Accounted, Settled
  <2> QED BY <1>0, <2>1, <2>2, <2>3 DEF Accounted, HasToken
<1>6. CASE Record(c)
  <2>1. /\ \A d \in Calls : at'[d] = IF d = c THEN "audit" ELSE at[d]
        /\ UNCHANGED <<cache, answer>> /\ at[c] = "record"
        /\ records' = records \cup {answer[c].jti} /\ answer[c].jti = c
    BY <1>0, <1>6 DEF Record, Go, reads, redis, Accounted
  <2>2. ASSUME NEW j \in Calls, Settled(j) PROVE Settled(j)'
    BY <2>1, <2>2 DEF Settled
  <2>3. Settled(c)'
    BY <2>1 DEF Settled
  <2> QED BY <1>0, <2>1, <2>2, <2>3 DEF Accounted, HasToken
<1> QED BY <1>1, <1>2, <1>3, <1>4, <1>5, <1>6 DEF Exchange

LEMMA StepAccounted == SInv /\ Accounted /\ [Next]_vars => Accounted'
<1> SUFFICES ASSUME SInv, Accounted, [Next]_vars PROVE Accounted'
  OBVIOUS
<1>0. /\ \A entry \in cache : entry.token.jti \in Calls
      /\ \A d \in Calls : at[d] \in HasToken => answer[d].jti \in Calls
  BY DEF SInv, TypeOK, Shape, Token
<1>1. ASSUME UNCHANGED <<cache, answer, records>>, \A c \in Calls : at'[c] = at[c]
      PROVE  Accounted'
  BY <1>0, <1>1 DEF Accounted, Settled, HasToken
<1>2. CASE Administer \/ Tick \/ UNCHANGED vars
  <2>1. UNCHANGED <<cache, answer, records, at>>
    BY <1>2 DEF Administer, SetStatus, SetAudience, Revoke, Delete, UpdateConnection,
       UpdateGrant, Unadministered, Tick, vars, reads, redis
  <2> QED BY <1>1, <2>1
<1>3. ASSUME NEW r \in Requests, Issue(r) PROVE Accounted'
  <2>1. UNCHANGED <<cache, answer, records>> /\ \E stage : Go(r, stage)
    BY <1>3 DEF Issue, Ask, CheckAgent, CheckApplication, CheckRuntime, Authenticate,
       CheckRequestedTarget, IssueRequesterToken, Fail, Check, Unread, claims, reads, redis
  <2>2. \A c \in Calls : at'[c] = at[c]
    BY <2>1, NoneIsNothing DEF Go, SInv, TypeOK
  <2> QED BY <1>1, <2>1, <2>2
<1> QED BY <1>2, <1>3, ExchangeAccounted DEF Next

(* A token the status records do not know was issued by a call that failed  *)
(* at its record or stands before it; every other answer is on record.      *)
THEOREM Recorded == Spec => []UnrecordedIsBroken
<1>1. Init => Accounted
  BY NoneIsNothing DEF Init, Accounted
<1>2. Accounted => UnrecordedIsBroken
  BY DEF Accounted, Settled, UnrecordedIsBroken
<1>3. Spec => [](SInv /\ Accounted)
  BY <1>1, InitSInv, StepShape, StepAccounted, PTL DEF Spec
<1> QED BY <1>2, <1>3, PTL
--------------------------------------------------------------------------------
(* TargetExchange implements EntitledTokens *)

(* The connection is one for that claim. *)
Serves(k, m) ==
  /\ TargetOf[k] = m.target
  /\ \/ PrincipalOf[k] = m.principal /\ BoundTo[k] \in {m.runtime, None}
     \/ m.runtime # None /\ PrincipalOf[k] = m.runtime

(* What a call has found serves its claim; rows keep to whom they belong. *)
Served ==
  \A c \in Calls :
    /\ at[c] \in HasConnection => Serves(chosen[c], ClaimOf(c))
    /\ at[c] \in HasGrant => ConnectionOf[permit[c]] = chosen[c]

(* No token that can still be answered outlives the configured lifetime. *)
ShortLived ==
  /\ \A entry \in cache : entry.token.expiresAt <= now + TargetTtl
  /\ \A c \in Calls : at[c] \in {"write", "record", "audit"} =>
                         answer[c].expiresAt <= now + TargetTtl

(* An issued requester token is final, and a call keeps the one it presents. *)
LEMMA ClaimsKept ==
  ASSUME SInv, [Next]_vars
  PROVE  /\ \A r \in Requests : at[r] = "issued" =>
               at'[r] = "issued" /\ claim'[r] = claim[r] /\ expires'[r] = expires[r]
         /\ \A c \in Calls : at[c] # "idle" =>
               request'[c] = request[c] /\ ClaimOf(c)' = ClaimOf(c)
<1>0. /\ Requests \cap Calls = {} /\ at \in [Requests \cup Calls -> Stages]
      /\ claim \in [Requests -> Claim \cup {None}] /\ expires \in [Requests -> Nat]
      /\ request \in [Calls -> Requests \cup {None}]
      /\ \A c \in Calls : at[c] # "idle" => request[c] \in Requests /\ at[request[c]] = "issued"
  BY NoneIsNothing DEF SInv, TypeOK, Shape, Stages
<1>1. \A r \in Requests : at[r] = "issued" =>
        at'[r] = "issued" /\ claim'[r] = claim[r] /\ expires'[r] = expires[r]
  <2>1. CASE Administer \/ Tick \/ UNCHANGED vars
    BY <2>1 DEF Administer, SetStatus, SetAudience, Revoke, Delete, UpdateConnection,
       UpdateGrant, Unadministered, Tick, vars, claims
  <2>2. ASSUME NEW q \in Requests, Issue(q)
        PROVE  /\ at[q] # "issued" /\ \E stage : Go(q, stage)
               /\ \A r \in Requests \ {q} : claim'[r] = claim[r] /\ expires'[r] = expires[r]
    BY <1>0, <2>2 DEF Issue, Ask, CheckAgent, CheckApplication, CheckRuntime, Authenticate,
       CheckRequestedTarget, IssueRequesterToken, Fail, Check, Unread, claims
  <2>3. ASSUME NEW c \in Calls, Exchange(c)
        PROVE  UNCHANGED claims /\ \A r \in Requests : at'[r] = at[r]
    BY <1>0, <2>3 DEF Exchange, Verify, MarkRequest, CheckTarget, CheckAgent,
       CheckApplication, CheckRuntime, CheckCredential, FindConnection, FindGrant, ReadCache,
       Discard, Sign, WriteCache, Record, Answer, Fail, Have, Check, Go, Unread
  <2> QED BY <1>0, <2>1, <2>2, <2>3 DEF Next, Go, claims
<1>2. \A c \in Calls : at[c] # "idle" => request'[c] = request[c]
  <2>1. CASE Administer \/ Tick \/ UNCHANGED vars
    BY <2>1 DEF Administer, SetStatus, SetAudience, Revoke, Delete, UpdateConnection,
       UpdateGrant, Unadministered, Tick, vars, reads
  <2>2. ASSUME NEW q \in Requests, Issue(q) PROVE UNCHANGED request
    BY <2>2 DEF Issue, Ask, CheckAgent, CheckApplication, CheckRuntime, Authenticate,
       CheckRequestedTarget, IssueRequesterToken, Fail, Unread, reads
  <2>3. ASSUME NEW c \in Calls, NEW r \in Requests, Verify(c, r)
        PROVE  \A d \in Calls : at[d] # "idle" => request'[d] = request[d]
    BY <1>0, <2>3 DEF Verify
  <2>4. ASSUME NEW c \in Calls, Exchange(c), ~\E r \in Requests : Verify(c, r)
        PROVE  UNCHANGED request
    BY <2>4 DEF Exchange, MarkRequest, CheckTarget, CheckAgent, CheckApplication,
       CheckRuntime, CheckCredential, FindConnection, FindGrant, ReadCache, Discard, Sign,
       WriteCache, Record, Answer, Fail, Have, Unread, reads
  <2> QED BY <2>1, <2>2, <2>3, <2>4 DEF Next
<1> QED BY <1>0, <1>1, <1>2 DEF ClaimOf

LEMMA StepServed == SInv /\ Served /\ [Next]_vars => Served'
<1> SUFFICES ASSUME SInv, Served, [Next]_vars, NEW c \in Calls
             PROVE  /\ at'[c] \in HasConnection => Serves(chosen'[c], ClaimOf(c)')
                    /\ at'[c] \in HasGrant => ConnectionOf[permit'[c]] = chosen'[c]
  BY DEF Served, Serves
<1> USE DEF HasConnection, HasGrant, HasToken
<1>0. /\ Requests \cap Calls = {} /\ at \in [Requests \cup Calls -> Stages]
      /\ chosen \in [Calls -> Connections \cup {None}] /\ permit \in [Calls -> Grants \cup {None}]
      /\ at[c] # "idle" => ClaimOf(c)' = ClaimOf(c)
  BY NoneIsNothing, ClaimsKept DEF SInv, TypeOK, Stages
<1>1. CASE /\ UNCHANGED <<chosen[c], permit[c]>>
           /\ at'[c] \in HasConnection => at[c] \in HasConnection
           /\ at'[c] \in HasGrant => at[c] \in HasGrant
  BY <1>0, <1>1 DEF Served
<1>2. CASE FindConnection(c)
  <2>1. CASE at'[c] \notin HasConnection
    BY <2>1
  <2>2. CASE at'[c] \in HasConnection
    <3>1. PICK k \in First(Candidates(ClaimOf(c))) :
            chosen' = [chosen EXCEPT ![c] = k] /\ at'[c] \in {"grant", "denied"}
      BY <1>0, <1>2, <2>2 DEF FindConnection, Go
    <3>2. k \in Candidates(ClaimOf(c))
      BY DEF First
    <3>3. Serves(k, ClaimOf(c))
      BY <3>2 DEF Candidates, Serves
    <3> QED BY <1>0, <1>2, <3>1, <3>3 DEF FindConnection
  <2> QED BY <2>1, <2>2
<1>3. CASE FindGrant(c)
  <2>1. chosen' = chosen /\ at[c] = "grant" /\ at'[c] \in {"cache", "denied"}
    BY <1>0, <1>3 DEF FindGrant, Go
  <2>2. at'[c] = "cache" => ConnectionOf[permit'[c]] = chosen[c]
    BY <1>0, <1>3 DEF FindGrant, Go, ActiveGrants
  <2> QED BY <1>0, <2>1, <2>2 DEF Served
<1>4. CASE Administer \/ Tick \/ UNCHANGED vars
  <2>1. UNCHANGED <<at, chosen, permit>>
    BY <1>4 DEF Administer, SetStatus, SetAudience, Revoke, Delete, UpdateConnection,
       UpdateGrant, Unadministered, Tick, vars, reads
  <2> QED BY <1>1, <2>1
<1>5. ASSUME NEW r \in Requests, Issue(r)
      PROVE  UNCHANGED <<chosen, permit>> /\ at'[c] = at[c]
  <2>1. UNCHANGED <<chosen, permit>> /\ \E stage : Go(r, stage)
    BY <1>5 DEF Issue, Ask, CheckAgent, CheckApplication, CheckRuntime, Authenticate,
       CheckRequestedTarget, IssueRequesterToken, Fail, Check, Unread, reads
  <2> QED BY <1>0, <2>1 DEF Go
<1>6. ASSUME NEW d \in Calls, Exchange(d), d # c
      PROVE  UNCHANGED <<chosen[c], permit[c]>> /\ at'[c] = at[c]
  <2>1. UNCHANGED <<chosen[c], permit[c]>> /\ \E stage : Go(d, stage)
    BY <1>0, <1>6 DEF Exchange, Verify, MarkRequest, CheckTarget, CheckAgent,
       CheckApplication, CheckRuntime, CheckCredential, FindConnection, FindGrant, ReadCache,
       Discard, Sign, WriteCache, Record, Answer, Fail, Have, Check, Unread, reads
  <2> QED BY <1>0, <1>6, <2>1 DEF Go
<1>7. ASSUME Exchange(c), ~FindConnection(c), ~FindGrant(c)
      PROVE  /\ UNCHANGED <<chosen, permit>>
             /\ at'[c] \in HasConnection => at[c] \in HasConnection
             /\ at'[c] \in HasGrant => at[c] \in HasGrant
  <2>1. CASE (\E r \in Requests : Verify(c, r)) \/ MarkRequest(c) \/ CheckTarget(c)
             \/ CheckAgent(c) \/ CheckRuntime(c) \/ Fail(c)
    BY <1>0, <2>1 DEF Verify, MarkRequest, CheckTarget, CheckAgent, CheckRuntime, Fail,
       Check, Go, Unread, reads
  <2>2. CASE CheckApplication(c) \/ CheckCredential(c)
    BY <1>0, <2>2 DEF CheckApplication, CheckCredential, Check, Go, Unread, reads
  <2>3. CASE ReadCache(c) \/ Discard(c) \/ Sign(c) \/ WriteCache(c) \/ Record(c) \/ Answer(c)
    BY <1>0, <2>3 DEF ReadCache, Discard, Sign, WriteCache, Record, Answer, Have, Go,
       Unread, reads
  <2> QED BY <1>7, <2>1, <2>2, <2>3 DEF Exchange
<1> QED BY <1>1, <1>2, <1>3, <1>4, <1>5, <1>6, <1>7 DEF Next

LEMMA StepShortLived == SInv /\ SInv' /\ ShortLived /\ [Next]_vars => ShortLived'
<1> SUFFICES ASSUME SInv, SInv', ShortLived, [Next]_vars PROVE ShortLived'
  OBVIOUS
<1> DEFINE Late == {"write", "record", "audit"}
<1>0. /\ Requests \cap Calls = {} /\ at \in [Requests \cup Calls -> Stages]
      /\ answer \in [Calls -> Token \cup {None}]
      /\ {now, now', TargetTtl} \subseteq Nat
      /\ \A entry \in cache : entry.token.expiresAt \in Nat
      /\ \A c \in Calls : at[c] \in Late => answer[c].expiresAt \in Nat
  BY NoneIsNothing, TimeConstants DEF SInv, TypeOK, Shape, Stages, Times, Token, HasToken
<1>1. ASSUME now <= now', \A entry \in cache' : entry \in cache,
             \A c \in Calls : at'[c] \in Late => at[c] \in Late /\ answer'[c] = answer[c]
      PROVE  ShortLived'
  BY <1>0, <1>1 DEF ShortLived
<1>2. CASE Administer \/ Tick \/ UNCHANGED vars
  <2>1. UNCHANGED <<at, answer, cache>> /\ now <= now'
    BY <1>0, <1>2 DEF Administer, SetStatus, SetAudience, Revoke, Delete, UpdateConnection,
       UpdateGrant, Unadministered, Tick, vars, reads, redis
  <2> QED BY <1>1, <2>1
<1>3. ASSUME NEW r \in Requests, Issue(r) PROVE ShortLived'
  <2>1. UNCHANGED <<now, answer, cache>> /\ \E stage : Go(r, stage)
    BY <1>3 DEF Issue, Ask, CheckAgent, CheckApplication, CheckRuntime, Authenticate,
       CheckRequestedTarget, IssueRequesterToken, Fail, Check, Unread, reads, redis
  <2> QED BY <1>0, <1>1, <2>1 DEF Go
<1>4. ASSUME NEW c \in Calls, Exchange(c) PROVE ShortLived'
  <2>1. ASSUME NEW t, NEW stage, Have(c, t, stage), t.expiresAt <= now + TargetTtl
        PROVE  ShortLived'
    <3>1. /\ UNCHANGED <<now, cache>> /\ at' = [at EXCEPT ![c] = stage]
          /\ answer' = [answer EXCEPT ![c] = t]
      BY <2>1 DEF Have, Go, redis
    <3> QED BY <1>0, <2>1, <3>1 DEF ShortLived
  <2>2. CASE ReadCache(c)
    <3>1. CASE \E entry \in cache : Have(c, entry.token, "audit")
      BY <2>1, <3>1 DEF ShortLived
    <3>2. CASE (Go(c, "sign") \/ Go(c, "stale")) /\ UNCHANGED Unread
      BY <1>0, <1>1, <3>2 DEF Go, Unread, reads, redis
    <3> QED BY <2>2, <3>1, <3>2 DEF ReadCache
  <2>3. CASE Sign(c)
    <3>1. limit[c] \in Nat
      BY DEF SInv, TypeOK
    <3>2. NewToken(c).expiresAt <= now + TargetTtl
      BY <1>0, <3>1 DEF NewToken, Min2
    <3> QED BY <2>1, <2>3, <3>2 DEF Sign
  <2>4. CASE Discard(c) \/ WriteCache(c)
    <3>1. /\ UNCHANGED <<now, answer>> /\ \E stage : Go(c, stage)
          /\ at[c] = "write" \/ at'[c] = "sign"
          /\ \A entry \in cache' : entry \in cache
                                       \/ (entry.token = answer[c] /\ at[c] = "write")
      <4>1. CASE Discard(c)
        <5>1. UNCHANGED <<now, answer>> /\ Go(c, "sign")
          BY <4>1 DEF Discard, reads
        <5>2. \A entry \in cache' : entry \in cache
          BY <4>1 DEF Discard
        <5>3. at'[c] = "sign"
          BY <1>0, <5>1 DEF Go
        <5> QED BY <5>1, <5>2, <5>3
      <4>2. CASE WriteCache(c)
        <5>1. /\ UNCHANGED <<now, answer>> /\ Go(c, "record") /\ at[c] = "write"
          BY <4>2 DEF WriteCache, reads
        <5>2. \A entry \in cache' : entry \in cache \/ entry.token = answer[c]
          BY <4>2 DEF WriteCache
        <5> QED BY <5>1, <5>2
      <4> QED BY <2>4, <4>1, <4>2
    <3>2. \A d \in Calls : at'[d] \in Late => at[d] \in Late
      BY <1>0, <3>1 DEF Go
    <3> QED BY <1>0, <3>1, <3>2 DEF ShortLived
  <2>5. CASE \/ MarkRequest(c) \/ CheckTarget(c) \/ CheckAgent(c) \/ CheckApplication(c)
             \/ CheckRuntime(c) \/ CheckCredential(c) \/ FindConnection(c) \/ FindGrant(c)
             \/ Record(c) \/ Answer(c) \/ Fail(c) \/ (\E r \in Requests : Verify(c, r))
    <3>1. UNCHANGED <<now, answer, cache>>
      BY <2>5 DEF MarkRequest, CheckTarget, CheckAgent, CheckApplication, CheckRuntime,
         CheckCredential, FindConnection, FindGrant, Record, Answer, Fail, Verify, Unread,
         reads, redis
    <3>2. PICK stage \in Stages : Go(c, stage) /\ (stage \in Late => at[c] = "record")
      BY <2>5 DEF MarkRequest, CheckTarget, CheckAgent, CheckApplication, CheckRuntime,
         CheckCredential, FindConnection, FindGrant, Record, Answer, Fail, Verify, Check,
         Stages, Running, Ended
    <3> QED BY <1>0, <1>1, <3>1, <3>2 DEF Go
  <2> QED BY <1>4, <2>2, <2>3, <2>4, <2>5 DEF Exchange
<1> QED BY <1>2, <1>3, <1>4 DEF Next

(* Everything the refinement rests on. *)
Entitled ==
  SInv /\ Vouched /\ OwnEntries /\ MarkedInTime /\ InTime /\ Served /\ ShortLived

(* The replay mark and the clock do what they are for. *)
InTimeConstants ==
  /\ ReplayTtl >= RequesterTtl
  /\ AnswerLag <= Threshold /\ AnswerLag < TargetTtl
  /\ \A ttl \in Ttls : AnswerLag < ttl

LEMMA StepEntitled ==
  ASSUME InTimeConstants
  PROVE  Entitled /\ [Next]_vars => Entitled'
BY StepShape, StepVouched, StepOwnEntries, StepMarked, StepInTime, StepServed,
   StepShortLived DEF Entitled, InTimeConstants

LEMMA InitEntitled == Init => Entitled
<1> SUFFICES ASSUME Init PROVE Entitled
  OBVIOUS
<1> USE NoneIsNothing DEF Init, Running, HasMark, HasTarget, HasPrincipal, HasRuntime,
        HasCredential, HasConnection, HasGrant, HasToken
<1>1. SInv
  BY InitSInv
<1>2. Vouched /\ OwnEntries
  BY DEF Vouched, VouchedFor, OwnEntries
<1>3. MarkedInTime /\ InTime
  BY DEF MarkedInTime, InTime
<1>4. Served /\ ShortLived
  BY DEF Served, ShortLived
<1> QED BY <1>1, <1>2, <1>3, <1>4 DEF Entitled

(* What the abstract specification sees of a call. *)
LEMMA CallSeen ==
  ASSUME NEW c \in Calls
  PROVE  /\ State[c] = "open" <=> at[c] \in Running
         /\ State[c] = "given" <=> at[c] = "answered"
         /\ at[c] = "idle" => State[c] = "idle"
         /\ at[c] \in {"denied", "failed"} => State[c] = "refused"
BY DEF State, Running

LEMMA ClaimSeen ==
  ASSUME SInv, NEW c \in Calls, at[c] # "idle"
  PROVE  /\ Promise!ClaimOf(c) = ClaimOf(c) /\ ClaimOf(c) \in OwnClaims
         /\ ClaimOf(c).context \in Contexts \cup {None}
<1>1. request[c] \in Requests /\ at[request[c]] = "issued" /\ c \notin Requests
  BY NoneIsNothing DEF SInv, Shape
<1>2. ClaimOf(c) = claim[request[c]] /\ ClaimOf(c) \in OwnClaims
  BY <1>1 DEF SInv, Shape, ClaimOf
<1>3. Issued[request[c]].claim = claim[request[c]]
  BY <1>1 DEF Issued
<1> QED BY <1>2, <1>3 DEF Promise!ClaimOf, OwnClaims, Claim

LEMMA InForceKept ==
  ASSUME UNCHANGED <<now, rows>>
  PROVE  InForce' = InForce
BY DEF InForce, Good, Active, Unexpired, Admits, rows

LEMMA InitTokenPromise == Init => Promise!Init
<1> SUFFICES ASSUME Init PROVE Promise!Init
  OBVIOUS
<1>1. InForce \in [Contexts \cup {None} -> SUBSET Rows]
  BY DEF InForce
<1>2. \A x \in Requests \cup Calls : at[x] = "idle"
  BY DEF Init
<1>3. State = [c \in Calls |-> "idle"]
  BY <1>2 DEF State, Running
<1>4. Issued = [r \in Requests |-> None] /\ Given = [c \in Calls |-> None]
  BY <1>2 DEF Issued, Given
<1> QED BY <1>1, <1>3, <1>4 DEF Init, Promise!Init

(* Rows or the clock change, and open exchanges notice what is in force. *)
LEMMA WorldSeen ==
  ASSUME SInv, SInv', UNCHANGED <<at, claims, request, answer>>, now <= now',
         \A c \in Calls :
           alive'[c] = IF at[c] \in Running
                         THEN alive[c] \cup {e \in Rows : Good(e, ClaimOf(c).context)'}
                         ELSE alive[c]
  PROVE  Promise!World
<1>1. now' \in Nat /\ now \in Nat
  BY TimeConstants DEF SInv, TypeOK, Times
<1>2. InForce' \in [Contexts \cup {None} -> SUBSET Rows]
  BY DEF InForce
<1>3. UNCHANGED <<Issued, State, request, Given>>
  BY DEF Issued, State, Given, claims
<1>4. ASSUME NEW c \in Calls, at[c] \in Running
      PROVE  {e \in Rows : Good(e, ClaimOf(c).context)'} = InForce'[Promise!ClaimOf(c).context]
  <2>1. Promise!ClaimOf(c) = ClaimOf(c) /\ ClaimOf(c).context \in Contexts \cup {None}
    BY <1>4, ClaimSeen DEF Running
  <2>2. ClaimOf(c)' = ClaimOf(c)
    BY DEF ClaimOf, claims
  <2> QED BY <2>1, <2>2 DEF InForce
<1>5. alive' = [c \in Calls |-> IF State[c] = "open"
                                  THEN alive[c] \cup InForce'[Promise!ClaimOf(c).context]
                                  ELSE alive[c]]
  <2>1. alive' \in [Calls -> SUBSET Rows]
    BY DEF SInv, TypeOK
  <2> QED BY <1>4, <2>1, CallSeen
<1> QED BY <1>1, <1>2, <1>3, <1>5 DEF Promise!World

LEMMA AdministerSeen ==
  ASSUME SInv, SInv', Administer
  PROVE  Promise!World
<1>1. UNCHANGED Unadministered /\ Witness
  BY DEF Administer, SetStatus, SetAudience, Revoke, Delete, UpdateConnection, UpdateGrant
<1>2. now \in Nat /\ now' = now
  BY <1>1, TimeConstants DEF Unadministered, SInv, TypeOK, Times
<1> QED BY <1>1, <1>2, WorldSeen DEF Unadministered, Witness, reads

(* As time passes rows expire, and no row comes into force. *)
LEMMA TickSeen ==
  ASSUME SInv, SInv', Vouched, Vouched', Tick
  PROVE  Promise!World
<1>1. UNCHANGED <<at, claims, request, answer, alive>> /\ now <= now'
  BY TimeConstants DEF Tick, SInv, TypeOK, Times, reads
<1>2. ASSUME NEW c \in Calls, at[c] \in Running
      PROVE  {e \in Rows : Good(e, ClaimOf(c).context)'} \subseteq alive[c]
  <2>1. ClaimOf(c)' = ClaimOf(c) /\ at'[c] \in Running /\ alive'[c] = alive[c]
    BY <1>1, <1>2 DEF ClaimOf, claims
  <2> QED BY <2>1 DEF Vouched, VouchedFor, GoodRows
<1> QED BY <1>1, <1>2, WorldSeen

LEMMA IssueSeen ==
  ASSUME SInv, NEW r \in Requests, Issue(r)
  PROVE  Promise!Issue(r) \/ UNCHANGED Promise!vars
<1>0. /\ Requests \cap Calls = {} /\ at \in [Requests \cup Calls -> Stages]
      /\ expires \in [Requests -> Nat]
  BY NoneIsNothing DEF SInv, TypeOK, Stages
<1>1. /\ UNCHANGED <<now, rows, request, answer, alive>> /\ \E stage : Go(r, stage)
      /\ at[r] # "issued"
  BY DEF Issue, Ask, CheckAgent, CheckApplication, CheckRuntime, Authenticate,
     CheckRequestedTarget, IssueRequesterToken, Fail, Check, Unread, reads
<1>2. UNCHANGED InForce
  BY <1>1, InForceKept
<1>3. \A c \in Calls : at'[c] = at[c]
  BY <1>0, <1>1 DEF Go
<1>4. UNCHANGED <<State, Given>>
  BY <1>1, <1>3 DEF State, Given
<1>5. CASE IssueRequesterToken(r)
  <2>1. Issued[r] = None
    BY <1>1 DEF Issued
  <2>2. claim[r] \in OwnClaims
    BY <1>5 DEF IssueRequesterToken, SInv, Shape
  <2>3. Issued' = [Issued EXCEPT ![r] = [claim |-> claim[r], until |-> now + RequesterTtl]]
    BY <1>0, <1>5 DEF IssueRequesterToken, Issued, Go
  <2> QED BY <1>1, <1>2, <1>4, <2>1, <2>2, <2>3 DEF Promise!Issue
<1>6. CASE ~IssueRequesterToken(r)
  <2>1. /\ at'[r] # "issued" /\ \A q \in Requests \ {r} : at'[q] = at[q]
        /\ \A q \in Requests \ {r} : claim'[q] = claim[q] /\ expires'[q] = expires[q]
    <3>1. ASSUME NEW m \in OwnClaims, Ask(r, m)
          PROVE  /\ Go(r, "principal") /\ expires' = expires
                 /\ \A q \in Requests \ {r} : claim'[q] = claim[q]
      BY <3>1 DEF Ask, SInv, TypeOK
    <3>2. ASSUME ~\E m \in OwnClaims : Ask(r, m)
          PROVE  /\ \E stage \in Stages \ {"issued"} : Go(r, stage)
                 /\ UNCHANGED <<claim, expires>>
      BY <1>6, <3>2 DEF Issue, CheckAgent, CheckApplication, CheckRuntime, Authenticate,
         CheckRequestedTarget, Fail, Check, Unread, claims, Stages, Running, Ended
    <3> QED BY <1>0, <3>1, <3>2 DEF Go
  <2>2. UNCHANGED Issued
    BY <1>1, <2>1 DEF Issued
  <2> QED BY <1>1, <1>2, <1>4, <2>2 DEF Promise!vars
<1> QED BY <1>5, <1>6

(* A step within an exchange, and the one that ends it without an answer. *)
LEMMA StageSeen ==
  ASSUME SInv, NEW c \in Calls, NEW stage \in Running \cup {"denied", "failed"},
         at[c] \in Running, Go(c, stage),
         UNCHANGED <<now, rows, claims, request, alive>>,
         \A d \in Calls \ {c} : answer'[d] = answer[d]
  PROVE  Promise!Refuse(c) \/ UNCHANGED Promise!vars
<1>0. /\ Requests \cap Calls = {} /\ at \in [Requests \cup Calls -> Stages]
      /\ at' = [at EXCEPT ![c] = stage]
  BY NoneIsNothing DEF SInv, TypeOK, Stages, Go
<1>1. UNCHANGED <<InForce, Issued>>
  BY <1>0, InForceKept DEF Issued, claims
<1>2. UNCHANGED Given
  BY <1>0 DEF Given, Running
<1>3. CASE stage \in Running
  <2>1. UNCHANGED State
    BY <1>0, <1>3 DEF State, Running
  <2> QED BY <1>1, <1>2, <2>1 DEF Promise!vars
<1>4. CASE stage \in {"denied", "failed"}
  <2>1. State' = [State EXCEPT ![c] = "refused"] /\ State[c] = "open"
    BY <1>0, <1>4 DEF State, Running
  <2> QED BY <1>1, <1>2, <2>1 DEF Promise!Refuse
<1> QED BY <1>3, <1>4

LEMMA VerifySeen ==
  ASSUME SInv, NEW c \in Calls, NEW r \in Requests, Verify(c, r)
  PROVE  Promise!Open(c, r)
<1>0. /\ Requests \cap Calls = {} /\ at \in [Requests \cup Calls -> Stages]
      /\ at' = [at EXCEPT ![c] = "verified"] /\ at[c] = "idle" /\ at[r] = "issued"
  BY NoneIsNothing DEF SInv, TypeOK, Stages, Verify, Go
<1>1. UNCHANGED <<now, InForce, Issued>>
  BY <1>0, InForceKept DEF Verify, Issued, claims
<1>2. UNCHANGED Given
  BY <1>0 DEF Verify, Given
<1>3. State' = [State EXCEPT ![c] = "open"] /\ State[c] = "idle"
  BY <1>0 DEF State, Running
<1>4. Issued[r] = [claim |-> claim[r], until |-> expires[r]]
  BY <1>0 DEF Issued
<1>5. claim[r] \in OwnClaims /\ claim[r] \in Claim /\ expires[r] \in Nat
  BY <1>0 DEF SInv, TypeOK, Shape, OwnClaims
<1>6. Issued[r] # None
  BY <1>4, <1>5, NoneIsNothing
<1>7. InForce[claim[r].context] = {e \in Rows : Good(e, claim[r].context)}
  BY <1>5 DEF InForce, Claim
<1>8. alive' = [alive EXCEPT ![c] = InForce[Issued[r].claim.context]]
  <2>1. alive' = [alive EXCEPT ![c] = {e \in Rows : Good(e, claim[r].context)}]
    BY DEF Verify
  <2>2. Issued[r].claim = claim[r]
    BY <1>4
  <2> QED BY <1>7, <2>1, <2>2
<1>9. now < Issued[r].until /\ request' = [request EXCEPT ![c] = r]
  BY <1>4 DEF Verify
<1> QED BY <1>1, <1>2, <1>3, <1>6, <1>8, <1>9 DEF Promise!Open

LEMMA AnswerSeen ==
  ASSUME Entitled, NEW c \in Calls, Answer(c)
  PROVE  \E t \in {Given'[c]} \ {None} : Promise!Give(c, t)
<1> DEFINE t == answer[c]
           m == ClaimOf(c)
<1>0. /\ Requests \cap Calls = {} /\ at \in [Requests \cup Calls -> Stages]
      /\ at' = [at EXCEPT ![c] = "answered"] /\ at[c] = "audit"
      /\ UNCHANGED <<now, rows, claims, request, alive, answer>>
      /\ at[c] \in HasToken /\ at[c] \in HasGrant /\ at[c] \in HasConnection
  BY NoneIsNothing DEF Entitled, SInv, TypeOK, Stages, Answer, Go, Unread, reads,
     HasToken, HasGrant, HasConnection
<1>1. UNCHANGED <<now, InForce, Issued, request, alive>>
  BY <1>0, InForceKept DEF Issued, claims
<1>2. State' = [State EXCEPT ![c] = "given"] /\ State[c] = "open"
  BY <1>0 DEF State, Running
<1>3. t \in Token /\ t # None
  BY <1>0, NoneIsNothing DEF Entitled, SInv, Shape
<1>4. Given' = [Given EXCEPT ![c] = t] /\ Given'[c] = t
  BY <1>0 DEF Given
<1>5. ASSUME NEW d \in Calls, State[d] = "given", request[d] = request[c]
      PROVE  Promise!Spent(request[c])
  <2>1. at[d] = "answered" /\ d # c
    BY <1>0, <1>5, CallSeen
  <2>2. at[request[c]] = "issued" /\ request[c] \in Requests
    BY <1>0 DEF Entitled, SInv, Shape
  <2>3. Issued[request[c]].until = expires[request[c]]
    BY <2>2 DEF Issued
  <2> QED BY <1>0, <1>5, <2>1, <2>3 DEF Promise!Spent, Entitled, MarkedInTime, HasMark, HasTarget, HasPrincipal,
          HasRuntime, HasCredential, HasConnection, HasGrant, HasToken
<1>6. /\ t.claim = m /\ t.connection = chosen[c] /\ t.grant = permit[c]
  <2>1. KeyOf(t) = Key(c)
    BY <1>0 DEF Entitled, OwnEntries
  <2> QED BY <2>1 DEF KeyOf, Key
<1>7. Promise!ClaimOf(c) = m
  BY <1>0, ClaimSeen DEF Entitled
<1>8. Promise!Fits(t)
  BY <1>0, <1>6 DEF Promise!Fits, Entitled, Served, Serves
<1>9. Promise!RestsOn(t) \subseteq alive[c]
  <2>1. VouchedFor(c)
    BY DEF Entitled, Vouched
  <2> QED BY <1>0, <1>6, <2>1 DEF Promise!RestsOn, VouchedFor, HasTarget, HasPrincipal,
          HasRuntime, HasCredential, HasConnection, HasGrant, HasToken
<1>10. now < t.expiresAt /\ t.expiresAt <= now + TargetTtl
  <2>1. {now, AnswerLag, since[c], t.expiresAt} \subseteq Nat
    BY <1>3, TimeConstants DEF Entitled, SInv, TypeOK, Token, Times
  <2> QED BY <1>0, <2>1 DEF Entitled, InTime, ShortLived
<1>11. Promise!Give(c, t)
  BY <1>1, <1>2, <1>4, <1>5, <1>6, <1>7, <1>8, <1>9, <1>10 DEF Promise!Give
<1> QED BY <1>3, <1>4, <1>11

LEMMA ExchangeSeen ==
  ASSUME Entitled, NEW c \in Calls, Exchange(c)
  PROVE  [Promise!Next]_Promise!vars
<1>0. SInv /\ answer \in [Calls -> Token \cup {None}]
  BY DEF Entitled, SInv, TypeOK
<1>1. ASSUME NEW r \in Requests, Verify(c, r) PROVE Promise!Next
  BY <1>0, <1>1, VerifySeen DEF Promise!Next
<1>2. CASE Answer(c)
  BY <1>2, AnswerSeen DEF Promise!Next
<1>3. CASE \/ MarkRequest(c) \/ CheckTarget(c) \/ CheckAgent(c) \/ CheckApplication(c)
           \/ CheckRuntime(c) \/ CheckCredential(c) \/ FindConnection(c) \/ FindGrant(c)
           \/ ReadCache(c) \/ Discard(c) \/ Sign(c) \/ WriteCache(c) \/ Record(c)
           \/ Fail(c)
  <2>1. at[c] \in Running
    <3>1. CASE Fail(c)
      BY <1>0, <3>1 DEF Fail, SInv, TypeOK
    <3>2. CASE ~Fail(c)
      BY <1>3, <3>2 DEF MarkRequest, CheckTarget, CheckAgent, CheckApplication, CheckRuntime,
         CheckCredential, FindConnection, FindGrant, ReadCache, Discard, Sign, WriteCache,
         Record, Running
    <3> QED BY <3>1, <3>2
  <2>2. PICK stage \in Running \cup {"denied", "failed"} : Go(c, stage)
    <3>1. CASE MarkRequest(c) \/ CheckTarget(c) \/ CheckAgent(c) \/ CheckApplication(c)
               \/ CheckRuntime(c) \/ CheckCredential(c)
      BY <3>1 DEF MarkRequest, CheckTarget, CheckAgent, CheckApplication, CheckRuntime,
         CheckCredential, Check, Running
    <3>2. CASE \/ FindConnection(c) \/ FindGrant(c) \/ ReadCache(c) \/ Discard(c) \/ Sign(c)
               \/ WriteCache(c) \/ Record(c) \/ Fail(c)
      BY <3>2 DEF FindConnection, FindGrant, ReadCache, Discard, Sign, WriteCache, Record,
         Fail, Have, Running
    <3> QED BY <1>3, <3>1, <3>2
  <2>3. UNCHANGED <<now, rows, claims, request, alive>>
    BY <1>3 DEF MarkRequest, CheckTarget, CheckAgent, CheckApplication, CheckRuntime,
       CheckCredential, FindConnection, FindGrant, ReadCache, Discard, Sign, WriteCache,
       Record, Fail, Have, Unread, reads
  <2>4. \A d \in Calls \ {c} : answer'[d] = answer[d]
    BY <1>0, <1>3 DEF MarkRequest, CheckTarget, CheckAgent, CheckApplication, CheckRuntime,
       CheckCredential, FindConnection, FindGrant, ReadCache, Discard, Sign, WriteCache,
       Record, Fail, Have, Unread, reads
  <2>5. Promise!Refuse(c) \/ UNCHANGED Promise!vars
    BY <1>0, <2>1, <2>2, <2>3, <2>4, StageSeen
  <2> QED BY <2>5 DEF Promise!Next
<1> QED BY <1>1, <1>2, <1>3 DEF Exchange

LEMMA PromiseStep ==
  ASSUME Entitled, Entitled', [Next]_vars
  PROVE  [Promise!Next]_Promise!vars
<1>0. SInv /\ SInv' /\ Vouched /\ Vouched'
  BY DEF Entitled
<1>1. CASE Administer
  BY <1>0, <1>1, AdministerSeen DEF Promise!Next
<1>2. ASSUME NEW r \in Requests, Issue(r) PROVE [Promise!Next]_Promise!vars
  BY <1>0, <1>2, IssueSeen DEF Promise!Next
<1>3. CASE Tick
  BY <1>0, <1>3, TickSeen DEF Promise!Next
<1>4. CASE UNCHANGED vars
  <2>1. UNCHANGED <<now, rows, at, claims, request, answer, alive>>
    BY <1>4 DEF vars, reads
  <2>2. UNCHANGED InForce
    BY <2>1, InForceKept
  <2>3. UNCHANGED <<Issued, State, Given>>
    BY <2>1 DEF Issued, State, Given, claims
  <2> QED BY <2>1, <2>2, <2>3 DEF Promise!vars
<1> QED BY <1>1, <1>2, <1>3, <1>4, ExchangeSeen DEF Next

(* The many reads of an exchange, the broker's cache and the replay mark     *)
(* amount to one step that gives a target token to whom it is due, if the    *)
(* mark is kept for the lifetime of a requester token and an answer takes no *)
(* longer than the reuse threshold and less than any lifetime.               *)
THEOREM TokenPromise ==
  ASSUME InTimeConstants
  PROVE  Spec => KeepsTokenPromise
<1>1. Entitled /\ [Next]_vars => Entitled'
  BY StepEntitled
<1>2. Entitled /\ Entitled' /\ [Next]_vars => [Promise!Next]_Promise!vars
  BY PromiseStep
<1> QED BY <1>1, <1>2, InitEntitled, InitTokenPromise, PTL
        DEF Spec, KeepsTokenPromise, Promise!Spec

(* The abstract specification delivers what it is stated for: a requester    *)
(* token buys one target token as long as it is valid, and whoever is given  *)
(* one had it coming.                                                        *)
THEOREM PromiseIsEntitled ==
  Promise!Spec => [](Promise!GivenOnceWhileValid /\ Promise!GivenByRight)
<1> DEFINE Opened == \A c \in Calls : State[c] # "idle" =>
                       request[c] \in Requests /\ Issued[request[c]] # None
                         /\ Promise!ClaimOf(c) \in OwnClaims
           Inv == /\ Promise!TypeOK /\ Opened
                  /\ Promise!GivenOnceWhileValid /\ Promise!GivenByRight
<1> USE DEF Promise!TypeOK, Promise!GivenOnceWhileValid, Promise!GivenByRight, Promise!ClaimOf,
            Promise!Spent

<1>1. Promise!Init => Inv
  BY DEF Promise!Init
<1>2. Inv /\ [Promise!Next]_Promise!vars => Inv'
  <2> SUFFICES ASSUME Inv, [Promise!Next]_Promise!vars PROVE Inv'
    OBVIOUS
  <2>1. CASE Promise!World
    <3>1. /\ UNCHANGED <<Issued, State, request, Given>> /\ now' \in Nat
          /\ InForce' \in [Contexts \cup {None} -> SUBSET Rows]
          /\ alive' = [c \in Calls |-> IF State[c] = "open"
                                         THEN alive[c] \cup InForce'[Promise!ClaimOf(c).context]
                                         ELSE alive[c]]
      BY <2>1 DEF Promise!World
    <3>2. ASSUME NEW c \in Calls, State[c] = "open"
          PROVE  Promise!ClaimOf(c).context \in Contexts \cup {None}
      <4>1. Promise!ClaimOf(c) \in Claim
        BY <3>2 DEF OwnClaims
      <4> QED BY <4>1 DEF Claim
    <3>3. alive' \in [Calls -> SUBSET Rows]
      BY <3>1, <3>2
    <3>4. Promise!TypeOK'
      BY <3>1, <3>3
    <3>5. Opened'
      BY <3>1
    <3>6. ASSUME NEW c \in Calls, NEW d \in Calls, c # d, State[c] = "given",
                 State[d] = "given", request[c] = request[d]
          PROVE  Issued[request[c]].until <= now'
      <4>1. Issued[request[c]] \in [claim: OwnClaims, until: Nat] /\ now \in Nat
        BY <3>6
      <4>2. Issued[request[c]].until <= now /\ now <= now'
        BY <2>1, <3>6 DEF Promise!World
      <4> QED BY <3>1, <4>1, <4>2
    <3>7. Promise!GivenOnceWhileValid'
      BY <3>1, <3>6
    <3>8. Promise!GivenByRight'
      BY <3>1 DEF Promise!Fits, Promise!RestsOn
    <3> QED BY <3>4, <3>5, <3>7, <3>8
  <2>2. ASSUME NEW r \in Requests, Promise!Issue(r) PROVE Inv'
    <3>1. PICK m \in OwnClaims :
            Issued' = [Issued EXCEPT ![r] = [claim |-> m, until |-> now + RequesterTtl]]
      BY <2>2 DEF Promise!Issue
    <3>2. /\ UNCHANGED <<now, InForce, State, request, alive, Given>> /\ Issued[r] = None
          /\ now + RequesterTtl \in Nat
      BY <2>2, TimeConstants DEF Promise!Issue
    <3>3. Promise!TypeOK'
      BY <3>1, <3>2
    <3>4. \A c \in Calls : State[c] # "idle" => Issued'[request[c]] = Issued[request[c]]
      BY <3>1, <3>2
    <3>5. Opened' /\ Promise!GivenOnceWhileValid'
      BY <3>2, <3>4
    <3>6. Promise!GivenByRight'
      BY <3>2, <3>4 DEF Promise!Fits, Promise!RestsOn
    <3> QED BY <3>3, <3>5, <3>6
  <2>3. ASSUME NEW c \in Calls, NEW r \in Requests, Promise!Open(c, r) PROVE Inv'
    <3>1. /\ UNCHANGED <<now, InForce, Issued, Given>> /\ State[c] = "idle" /\ Issued[r] # None
          /\ State' = [State EXCEPT ![c] = "open"] /\ request' = [request EXCEPT ![c] = r]
          /\ alive' = [alive EXCEPT ![c] = InForce[Issued[r].claim.context]]
      BY <2>3 DEF Promise!Open
    <3>2. Issued[r].claim \in OwnClaims
      BY <3>1
    <3>3. Issued[r].claim.context \in Contexts \cup {None}
      BY <3>2 DEF OwnClaims, Claim
    <3>4. InForce[Issued[r].claim.context] \in SUBSET Rows
      BY <3>3
    <3>5. Promise!TypeOK'
      BY <3>1, <3>4
    <3>6. \A d \in Calls \ {c} : State'[d] = State[d] /\ request'[d] = request[d] /\ alive'[d] = alive[d]
      BY <3>1
    <3>7. Opened' /\ Promise!GivenOnceWhileValid'
      BY <3>1, <3>2, <3>6
    <3>8. Promise!GivenByRight'
      BY <3>1, <3>6 DEF Promise!Fits, Promise!RestsOn
    <3> QED BY <3>5, <3>7, <3>8
  <2>4. ASSUME NEW c \in Calls, NEW t, Promise!Give(c, t) PROVE Inv'
    BY <2>4 DEF Promise!Give
  <2>5. ASSUME NEW c \in Calls, Promise!Refuse(c) PROVE Inv'
    BY <2>5 DEF Promise!Refuse
  <2>6. CASE UNCHANGED Promise!vars
    BY <2>6 DEF Promise!vars
  <2> QED BY <2>1, <2>2, <2>3, <2>4, <2>5, <2>6 DEF Promise!Next
<1> QED BY <1>1, <1>2, PTL DEF Promise!Spec
================================================================================
