---------------------------- MODULE TargetExchange ----------------------------
(***************************************************************************)
(* Target tokens: a principal obtains a requester token with its credential *)
(* (server/src/modules/delegation/requester-token.service.ts) and exchanges *)
(* it for a token of one target resource, fresh or from the broker's cache  *)
(* (target-token-exchange.service.ts, delegation-token-broker.service.ts).  *)
(*                                                                         *)
(* Both handlers read one row after another; administrators change the      *)
(* rows, other calls write the cache and time passes between any two reads. *)
(***************************************************************************)
EXTENDS Naturals, FiniteSets

CONSTANTS
  Agents, Applications, Runtimes, Targets,
  Credentials,   \* caller credentials of agents and secrets of applications
  Connections, Grants,
  AgentOf,       \* the agent of a runtime
  OwnerOf,       \* the agent or application of a credential
  BoundTo,       \* the runtime a credential or connection is bound to, or None
  PrincipalOf,   \* the agent, application or runtime of a connection
  TargetOf,      \* the target of a connection
  ConnectionOf,  \* the connection of a grant
  Contexts,      \* external contexts, one for each provider
  Audiences,
  Requests,      \* calls for a requester token, and the tokens they issue
  Calls,         \* calls of the exchange
  RequesterTtl,  \* lifetime of a requester token, 300 seconds
  ReplayTtl,     \* AUTHANY_REPLAY_TTL_SECONDS
  TargetTtl,     \* AUTHANY_TARGET_TOKEN_TTL_SECONDS
  Threshold,     \* AUTHANY_TARGET_TOKEN_REUSE_THRESHOLD_SECONDS
  Page,          \* how many credentials authenticateAgentSecret looks at, 10
  CheckLag,      \* assumed: from the verification of a token to its replay check
  AnswerLag,     \* assumed: from having a target token to answering it
  Governed,      \* bound: the rows administrators change
  Expiries,      \* bound: the expiries they choose
  Ttls,          \* bound: the longest lifetimes they allow on a connection
  Policies,      \* bound: the context policies they choose
  MaxTime,       \* bound of the clock
  None           \* no runtime, context, row or token

Principals == Agents \cup Applications
Rows == Principals \cup Runtimes \cup Targets \cup Credentials
          \cup Connections \cup Grants

Times == 0 .. MaxTime
Never == MaxTime + 1

(* What a requester token says; its request_id is the member of Requests. *)
Claim == [principal: Principals, runtime: Runtimes \cup {None},
          credential: Credentials, target: Targets, context: Contexts \cup {None}]

(* A target token and what it was issued for; the jti is the issuing call. *)
Token == [jti: Calls, claim: Claim, audience: Audiences, connection: Connections,
          grant: Grants, issuedAt: Times, expiresAt: Nat]

ASSUME RowConstants ==
  /\ AgentOf \in [Runtimes -> Agents]
  /\ OwnerOf \in [Credentials -> Principals]
  /\ BoundTo \in [Credentials \cup Connections -> Runtimes \cup {None}]
  /\ PrincipalOf \in [Connections -> Principals \cup Runtimes]
  /\ TargetOf \in [Connections -> Targets]
  /\ ConnectionOf \in [Grants -> Connections]
  /\ Agents \cap Applications = {}
  /\ Connections \cap (Principals \cup Runtimes \cup Targets \cup Credentials
                        \cup Grants) = {}
  /\ Governed \subseteq Rows
  /\ Policies \subseteq SUBSET (Contexts \cup {None})

ASSUME TimeConstants ==
  /\ {RequesterTtl, ReplayTtl, TargetTtl, Threshold, CheckLag, AnswerLag} \subseteq Nat
  /\ MaxTime \in Nat
  /\ Expiries \subseteq 0 .. Never
  /\ Ttls \subseteq Nat

ASSUME NoneIsNothing ==
  /\ None \notin Nat
  /\ None \notin Rows \cup Contexts \cup Audiences \cup Requests
  /\ None \notin Claim \cup Token \cup [claim: Claim, until: Nat]
  /\ Requests \cap Calls = {}

VARIABLES
  now,        \* Date.now()
  status,     \* of every row; what is not active is blocked or, for good, deleted
  expiry,     \* expires_at of connections and grants
  maxTtl,     \* max_token_ttl_seconds of connections
  policy,     \* the contexts a connection admits: mode and provider allowlist
  audience,   \* of each target
  at,         \* where each call stands
  claim,      \* what a requester token says
  expires,    \* when it expires
  mark,       \* until when Redis holds the replay mark of a request_id
  request,    \* the requester token an exchange presents
  since,      \* when it verified that token, then when it had a target token
  aud,        \* the audience it read
  chosen,     \* the connection it found
  limit,      \* that connection's maxTtl
  permit,     \* the grant it found
  answer,     \* the token it answers
  cache,      \* the broker's entries in Redis
  records,    \* the rows of oauth_access_token_records
  alive       \* history: the rows that were good at some time during the call

rows == <<status, expiry, maxTtl, policy, audience>>
claims == <<claim, expires>>
reads == <<request, since, aud, chosen, limit, permit, answer>>
redis == <<mark, cache>>
vars == <<now, rows, at, claims, reads, redis, records, alive>>

(* A call that verified its token and has not ended. *)
Running == {"verified", "target", "principal", "runtime", "credential",
            "connection", "grant", "cache", "stale", "sign", "write",
            "record", "audit"}
Ended == {"answered", "denied", "failed"}

ClaimOf(x) == IF x \in Requests THEN claim[x] ELSE claim[request[x]]

Min2(m, n) == IF m < n THEN m ELSE n

--------------------------------------------------------------------------------
(* Rows *)

Unexpired(e) == e \in Connections \cup Grants => now < expiry[e]

(* The row passes a check of its status and expiry. *)
Active(e) == status[e] = "active" /\ Unexpired(e)

Admits(k, context) == context \in policy[k]

(* For a call with that context: a connection must admit it as well. *)
Good(e, context) == Active(e) /\ (e \in Connections => Admits(e, context))

--------------------------------------------------------------------------------
(* Plausible bugs; no action uses them. *)

(* findConnection forgets the expiry. *)
CandidatesByStatus(m) ==
  {k \in Connections :
     /\ status[k] = "active"
     /\ TargetOf[k] = m.target
     /\ PrincipalOf[k] \in {m.principal, m.runtime} /\ BoundTo[k] \in {m.runtime, None}}

(* The cache key leaves out the external context. *)
KeyWithoutContext(c) ==
  [claim |-> [ClaimOf(c) EXCEPT !.context = None], audience |-> aud[c],
   connection |-> chosen[c], grant |-> permit[c]]

(* A token with exactly the threshold left is reused. *)
ReusableAtThreshold(t) == t.expiresAt >= now + Threshold

(* The token is cached with its lifetime instead of its expiry. *)
TokenWithLifetime(c) ==
  [jti |-> c, claim |-> ClaimOf(c), audience |-> aud[c], connection |-> chosen[c],
   grant |-> permit[c], issuedAt |-> now, lifetime |-> Min2(TargetTtl, limit[c])]

--------------------------------------------------------------------------------
(* What the handlers look up and compute *)

(* findConnection before orderBy *)
Candidates(m) ==
  {k \in Connections :
     /\ Active(k)
     /\ TargetOf[k] = m.target
     /\ \/ PrincipalOf[k] = m.principal /\ BoundTo[k] \in {m.runtime, None}
        \/ m.runtime # None /\ PrincipalOf[k] = m.runtime}

(* orderBy runtimeRegistrationId desc: PostgreSQL puts NULL first. *)
First(K) ==
  LET unbound == {k \in K : BoundTo[k] = None}
  IN IF unbound # {} THEN unbound ELSE K

(* findActiveGrant *)
ActiveGrants(k) == {g \in Grants : ConnectionOf[g] = k /\ Active(g)}

(* The credentials authenticateAgentSecret compares with the one presented. *)
Comparable(m) ==
  {d \in Credentials : /\ OwnerOf[d] = m.principal
                       /\ BoundTo[d] = m.runtime
                       /\ Active(d)}

(* cacheKey; the tenant is always the same *)
Key(c) == [claim |-> ClaimOf(c), audience |-> aud[c],
           connection |-> chosen[c], grant |-> permit[c]]

(* Redis drops an entry when its token expires, and then it is not reusable. *)
Reusable(t) == t.expiresAt > now + Threshold

(* until when setIfAbsent keeps the mark *)
MarkUntil == now + ReplayTtl
Marked(r) == mark[r] # None /\ now < mark[r]

(* signWithMetadata of the claims, for resolveTokenTtl seconds *)
NewToken(c) ==
  [jti |-> c, claim |-> ClaimOf(c), audience |-> aud[c], connection |-> chosen[c],
   grant |-> permit[c], issuedAt |-> now, expiresAt |-> now + Min2(TargetTtl, limit[c])]

--------------------------------------------------------------------------------
(* Administrators, one row at a time; the rows exist from the start. *)

(* The rows a call in progress may have found good, after this step. *)
Witness ==
  alive' = [c \in Calls |->
              IF at[c] \in Running
                THEN alive[c] \cup {e \in Rows : Good(e, ClaimOf(c).context)'}
                ELSE alive[c]]

Unadministered == <<now, at, claims, reads, redis, records>>

(* update of an agent, application, runtime or target: any status to any. *)
SetStatus(e, s) ==
  /\ status[e] # "deleted"
  /\ status' = [status EXCEPT ![e] = s]
  /\ UNCHANGED <<expiry, maxTtl, policy, audience, Unadministered>>
  /\ Witness

SetAudience(t, a) ==
  /\ audience' = [audience EXCEPT ![t] = a]
  /\ UNCHANGED <<status, expiry, maxTtl, policy, Unadministered>>
  /\ Witness

(* A credential is revoked for good. *)
Revoke(d) ==
  /\ status' = [status EXCEPT ![d] = "deleted"]
  /\ UNCHANGED <<expiry, maxTtl, policy, audience, Unadministered>>
  /\ Witness

(* delete of an agent or application, with the credentials of it *)
Delete(p) ==
  /\ status[p] # "deleted"
  /\ status' = [e \in Rows |->
                  IF e = p \/ (e \in Credentials /\ OwnerOf[e] = p)
                    THEN "deleted" ELSE status[e]]
  /\ UNCHANGED <<expiry, maxTtl, policy, audience, Unadministered>>
  /\ Witness

UpdateConnection(k, s, time, ttl, contexts) ==
  /\ status' = [status EXCEPT ![k] = s]
  /\ expiry' = [expiry EXCEPT ![k] = time]
  /\ maxTtl' = [maxTtl EXCEPT ![k] = ttl]
  /\ policy' = [policy EXCEPT ![k] = contexts]
  /\ UNCHANGED <<audience, Unadministered>>
  /\ Witness

(* parseFutureDate, when the update names an expiry *)
UpdateGrant(g, s, time) ==
  /\ time > now \/ time = expiry[g]
  /\ status' = [status EXCEPT ![g] = s]
  /\ expiry' = [expiry EXCEPT ![g] = time]
  /\ UNCHANGED <<maxTtl, policy, audience, Unadministered>>
  /\ Witness

--------------------------------------------------------------------------------
(* Checks the two handlers share *)

Unread == <<now, rows, claims, reads, redis, records, alive>>

Go(x, stage) == at' = [at EXCEPT ![x] = stage]

(* At its stage, the call passes the check or is denied. *)
Check(x, stage, ok, next) ==
  /\ at[x] = stage
  /\ Go(x, IF ok THEN next ELSE "denied")

CheckAgent(x) ==
  /\ at[x] = "principal" /\ ClaimOf(x).principal \in Agents
  /\ Check(x, "principal", Active(ClaimOf(x).principal), "runtime")
  /\ UNCHANGED Unread

(* An application is read together with its secrets. *)
CheckApplication(x) ==
  /\ at[x] = "principal" /\ ClaimOf(x).principal \in Applications
  /\ Check(x, "principal",
           Active(ClaimOf(x).principal) /\ Active(ClaimOf(x).credential),
           IF x \in Requests THEN "target" ELSE "connection")
  /\ UNCHANGED Unread

(* Without a runtime_id there is nothing to check. *)
CheckRuntime(x) ==
  /\ at[x] = "runtime"
  /\ LET rt == ClaimOf(x).runtime
     IN Check(x, "runtime", rt = None \/ Active(rt), "credential")
  /\ UNCHANGED Unread

(* The handler dies, the database fails or the rate limiter refuses. *)
Fail(x) ==
  /\ at[x] \notin {"idle", "issued"} \cup Ended
  /\ Go(x, "failed")
  /\ UNCHANGED Unread

--------------------------------------------------------------------------------
(* A requester token *)

(* The caller presents a credential of its own for itself. *)
OwnClaims ==
  {m \in Claim : /\ OwnerOf[m.credential] = m.principal
                 /\ BoundTo[m.credential] = m.runtime
                 /\ m.runtime # None => AgentOf[m.runtime] = m.principal}

Ask(r, m) ==
  /\ at[r] = "idle" /\ m \in OwnClaims
  /\ claim' = [claim EXCEPT ![r] = m]
  /\ Go(r, "principal")
  /\ UNCHANGED <<now, rows, expires, reads, redis, records, alive>>

(* Of more than Page active credentials any Page are compared, and the one  *)
(* presented may not be among them.                                         *)
Authenticate(r) ==
  /\ at[r] = "credential"
  /\ LET m == claim[r] IN
     \/ m.credential \in Comparable(m) /\ Go(r, "target")
     \/ m.credential \notin Comparable(m) /\ Go(r, "denied")
     \/ Cardinality(Comparable(m)) > Page /\ Go(r, "denied")
  /\ UNCHANGED Unread

CheckRequestedTarget(r) ==
  /\ Check(r, "target", Active(claim[r].target), "sign")
  /\ UNCHANGED Unread

IssueRequesterToken(r) ==
  /\ at[r] = "sign"
  /\ expires' = [expires EXCEPT ![r] = now + RequesterTtl]
  /\ Go(r, "issued")
  /\ UNCHANGED <<now, rows, claim, reads, redis, records, alive>>

--------------------------------------------------------------------------------
(* The exchange *)

(* verifyRequesterJwt: signature, audience and expiry of the token hold. *)
Verify(c, r) ==
  /\ at[c] = "idle" /\ at[r] = "issued" /\ now < expires[r]
  /\ Go(c, "verified")
  /\ request' = [request EXCEPT ![c] = r]
  /\ since' = [since EXCEPT ![c] = now]
  /\ alive' = [alive EXCEPT ![c] = {e \in Rows : Good(e, claim[r].context)}]
  /\ UNCHANGED <<now, rows, claims, aud, chosen, limit, permit, answer, redis, records>>

(* A plausible bug like those above: SET without NX, and every call passes. *)
MarkRequestAnyway(c) ==
  /\ at[c] = "verified"
  /\ mark' = [mark EXCEPT ![request[c]] = MarkUntil]
  /\ Go(c, "target") \/ Go(c, "failed")
  /\ UNCHANGED <<now, rows, claims, reads, cache, records, alive>>

(* assertNotReplayed, SET NX: of two calls with one request_id one passes. *)
MarkRequest(c) ==
  /\ at[c] = "verified"
  /\ LET r == request[c] IN
     \/ Marked(r) /\ Go(c, "denied") /\ UNCHANGED mark
     \/ /\ ~Marked(r)
        /\ mark' = [mark EXCEPT ![r] = MarkUntil]
        \* the reply may be lost, and the request fails closed
        /\ Go(c, "target") \/ Go(c, "failed")
  /\ UNCHANGED <<now, rows, claims, reads, cache, records, alive>>

CheckTarget(c) ==
  /\ at[c] = "target"
  /\ Check(c, "target", Active(ClaimOf(c).target), "principal")
  /\ aud' = [aud EXCEPT ![c] = audience[ClaimOf(c).target]]
  /\ UNCHANGED <<now, rows, claims, request, since, chosen, limit, permit, answer,
                 redis, records, alive>>

(* requireActiveForAgent: the very credential the token was issued for *)
CheckCredential(c) ==
  /\ at[c] = "credential"
  /\ Check(c, "credential", Active(ClaimOf(c).credential), "connection")
  /\ UNCHANGED Unread

(* findConnection and assertExternalContextPolicy of what it found *)
FindConnection(c) ==
  /\ at[c] = "connection"
  /\ \/ \E k \in First(Candidates(ClaimOf(c))) :
          /\ chosen' = [chosen EXCEPT ![c] = k]
          /\ limit' = [limit EXCEPT ![c] = maxTtl[k]]
          /\ Go(c, IF Admits(k, ClaimOf(c).context) THEN "grant" ELSE "denied")
     \/ /\ Candidates(ClaimOf(c)) = {}
        /\ Go(c, "denied")
        /\ UNCHANGED <<chosen, limit>>
  /\ UNCHANGED <<now, rows, claims, request, since, aud, permit, answer,
                 redis, records, alive>>

(* requireGrant *)
FindGrant(c) ==
  /\ at[c] = "grant"
  /\ \/ \E g \in ActiveGrants(chosen[c]) :
          permit' = [permit EXCEPT ![c] = g] /\ Go(c, "cache")
     \/ /\ ActiveGrants(chosen[c]) = {}
        /\ Go(c, "denied")
        /\ UNCHANGED permit
  /\ UNCHANGED <<now, rows, claims, request, since, aud, chosen, limit, answer,
                 redis, records, alive>>

Have(c, t, stage) ==
  /\ answer' = [answer EXCEPT ![c] = t]
  /\ since' = [since EXCEPT ![c] = now]
  /\ Go(c, stage)
  /\ UNCHANGED <<now, rows, claims, request, aud, chosen, limit, permit,
                 redis, records, alive>>

(* readReusable; a Redis error is a miss. *)
ReadCache(c) ==
  /\ at[c] = "cache"
  /\ \/ \E entry \in cache :
          /\ entry.key = Key(c)
          /\ \/ Reusable(entry.token) /\ Have(c, entry.token, "audit")
             \/ ~Reusable(entry.token) /\ Go(c, "stale") /\ UNCHANGED Unread
     \/ Go(c, "sign") /\ UNCHANGED Unread

(* safeDelete of whatever is there by now, unless Redis fails *)
Discard(c) ==
  /\ at[c] = "stale"
  /\ \/ cache' = {entry \in cache : entry.key # Key(c)}
     \/ UNCHANGED cache
  /\ Go(c, "sign")
  /\ UNCHANGED <<now, rows, claims, reads, mark, records, alive>>

Sign(c) == at[c] = "sign" /\ Have(c, NewToken(c), "write")

(* write: set overwrites, unless Redis fails *)
WriteCache(c) ==
  /\ at[c] = "write"
  /\ \/ cache' = {entry \in cache : entry.key # Key(c)}
                  \cup {[key |-> Key(c), token |-> answer[c]]}
     \/ UNCHANGED cache
  /\ Go(c, "record")
  /\ UNCHANGED <<now, rows, claims, reads, mark, records, alive>>

(* persistAndAudit of a token that is not from the cache: its record, ... *)
Record(c) ==
  /\ at[c] = "record"
  /\ records' = records \cup {answer[c].jti}
  /\ Go(c, "audit")
  /\ UNCHANGED <<now, rows, claims, reads, redis, alive>>

(* ... then the audit event, and the response *)
Answer(c) ==
  /\ at[c] = "audit"
  /\ Go(c, "answered")
  /\ UNCHANGED Unread

--------------------------------------------------------------------------------
(* Time passes, but a handler keeps to the assumed lags. *)
Tick ==
  /\ now < MaxTime
  /\ \A c \in Calls :
       /\ at[c] = "verified" => now < since[c] + CheckLag
       /\ at[c] \in {"write", "record", "audit"} => now < since[c] + AnswerLag
  /\ now' = now + 1
  /\ UNCHANGED <<rows, at, claims, reads, redis, records, alive>>

Init ==
  /\ now = 0
  /\ status = [e \in Rows |-> "active"]
  /\ expiry = [e \in Connections \cup Grants |-> Never]
  /\ maxTtl \in [Connections -> Ttls]
  /\ policy \in [Connections -> Policies]
  /\ audience \in [Targets -> Audiences]
  /\ at = [x \in Requests \cup Calls |-> "idle"]
  /\ claim = [r \in Requests |-> None]
  /\ expires = [r \in Requests |-> 0]
  /\ mark = [r \in Requests |-> None]
  /\ request = [c \in Calls |-> None]
  /\ since = [c \in Calls |-> 0]
  /\ aud = [c \in Calls |-> None]
  /\ chosen = [c \in Calls |-> None]
  /\ limit = [c \in Calls |-> 0]
  /\ permit = [c \in Calls |-> None]
  /\ answer = [c \in Calls |-> None]
  /\ cache = {}
  /\ records = {}
  /\ alive = [c \in Calls |-> {}]

Administer ==
  \/ \E e \in Governed \cap (Principals \cup Runtimes \cup Targets),
       s \in {"active", "blocked"} : SetStatus(e, s)
  \/ \E t \in Governed \cap Targets, a \in Audiences : SetAudience(t, a)
  \/ \E d \in Governed \cap Credentials : Revoke(d)
  \/ \E p \in Governed \cap Principals : Delete(p)
  \/ \E k \in Governed \cap Connections, s \in {"active", "blocked"},
       time \in Expiries, ttl \in Ttls, contexts \in Policies :
       UpdateConnection(k, s, time, ttl, contexts)
  \/ \E g \in Governed \cap Grants, s \in {"active", "blocked"}, time \in Expiries :
       UpdateGrant(g, s, time)

Issue(r) ==
  \/ \E m \in OwnClaims : Ask(r, m)
  \/ CheckAgent(r) \/ CheckApplication(r) \/ CheckRuntime(r)
  \/ Authenticate(r) \/ CheckRequestedTarget(r) \/ IssueRequesterToken(r)
  \/ Fail(r)

Exchange(c) ==
  \/ \E r \in Requests : Verify(c, r)
  \/ MarkRequest(c) \/ CheckTarget(c)
  \/ CheckAgent(c) \/ CheckApplication(c) \/ CheckRuntime(c) \/ CheckCredential(c)
  \/ FindConnection(c) \/ FindGrant(c)
  \/ ReadCache(c) \/ Discard(c) \/ Sign(c) \/ WriteCache(c)
  \/ Record(c) \/ Answer(c)
  \/ Fail(c)

Next ==
  \/ Administer
  \/ \E r \in Requests : Issue(r)
  \/ \E c \in Calls : Exchange(c)
  \/ Tick

Spec == Init /\ [][Next]_vars

--------------------------------------------------------------------------------
TypeOK ==
  /\ now \in Times
  /\ status \in [Rows -> {"active", "blocked", "deleted"}]
  /\ expiry \in [Connections \cup Grants -> 0 .. Never]
  /\ maxTtl \in [Connections -> Ttls]
  /\ policy \in [Connections -> SUBSET (Contexts \cup {None})]
  /\ audience \in [Targets -> Audiences]
  /\ at \in [Requests \cup Calls -> {"idle", "issued"} \cup Running \cup Ended]
  /\ claim \in [Requests -> Claim \cup {None}]
  /\ expires \in [Requests -> Nat]
  /\ mark \in [Requests -> Nat \cup {None}]
  /\ request \in [Calls -> Requests \cup {None}]
  /\ since \in [Calls -> Times]
  /\ aud \in [Calls -> Audiences \cup {None}]
  /\ chosen \in [Calls -> Connections \cup {None}]
  /\ limit \in [Calls -> Nat]
  /\ permit \in [Calls -> Grants \cup {None}]
  /\ answer \in [Calls -> Token \cup {None}]
  /\ \A entry \in cache : entry.token \in Token
  /\ records \subseteq Calls
  /\ alive \in [Calls -> SUBSET Rows]

(* The rows an answer rests on. *)
Needed(c) ==
  {ClaimOf(c).principal, ClaimOf(c).runtime, ClaimOf(c).credential,
   ClaimOf(c).target, chosen[c], permit[c]} \ {None}

(* specs/13 SEC-04, specs/17 BROKER-03 and BROKER-04: a target token, fresh *)
(* or from the cache, is answered only if principal, runtime, credential,   *)
(* target, connection (with its context policy) and grant were each good at *)
(* some time while the call ran: what was revoked, blocked or expired       *)
(* before the call began stops it, however old the cache.                   *)
RevalidatedOnEveryAnswer ==
  \A c \in Calls : at[c] = "answered" => Needed(c) \subseteq alive[c]

(* specs/17 section 3: the answered token, even when another call left it   *)
(* in the cache, was issued for the claims, audience, connection and grant  *)
(* that this call has just checked.                                         *)
AnswersOwnContext ==
  \A c \in Calls : at[c] = "answered" =>
    LET t == answer[c]
    IN /\ t.claim = ClaimOf(c) /\ t.audience = aud[c]
       /\ t.connection = chosen[c] /\ t.grant = permit[c]

(* specs/13 SEC-03, as far as it holds: as long as a requester token is      *)
(* valid it has been exchanged for one target token at most, whatever runs   *)
(* beside or repeats an exchange of it.  Where mark and token end together,  *)
(* as with the defaults of 300 seconds each, a call that verified the token  *)
(* in its last moment and is late at its replay check finds no mark.         *)
OnceWhileValid ==
  \A c, d \in Calls :
    c # d /\ at[c] = "answered" /\ at[d] = "answered" /\ request[c] = request[d]
      => expires[request[c]] <= now

(* What the reuse threshold is for: a token taken from the cache, or signed, *)
(* has not expired when it is answered.                                      *)
UsableOnArrival ==
  \A c \in Calls : at[c] = "audit" => now < answer[c].expiresAt

(* docs/security-checklist-template.md wants every token given out to be in  *)
(* the status records.  One is not whose record failed after the cache had   *)
(* taken it, and only such: the call that issued it failed at the record, or *)
(* is still there, while later calls already answer the cached token.        *)
UnrecordedIsBroken ==
  \A c \in Calls : at[c] = "answered" =>
    LET issuer == answer[c].jti
    IN issuer \in records \/ at[issuer] \in {"record", "failed"}

(* The abstract specification sees an exchange from its verified token to    *)
(* its answer, and of the rows only which are good.                          *)
InForce == [x \in Contexts \cup {None} |-> {e \in Rows : Good(e, x)}]
Issued ==
  [r \in Requests |-> IF at[r] = "issued"
                        THEN [claim |-> claim[r], until |-> expires[r]] ELSE None]
State ==
  [c \in Calls |-> CASE at[c] \in Running  -> "open"
                     [] at[c] = "answered" -> "given"
                     [] at[c] \in {"denied", "failed"} -> "refused"
                     [] OTHER -> "idle"]
Given == [c \in Calls |-> IF at[c] = "answered" THEN answer[c] ELSE None]

Promise == INSTANCE EntitledTokens WITH
  Claims <- OwnClaims, inForce <- InForce, issued <- Issued, state <- State,
  presented <- request, seen <- alive, given <- Given

(* specs/17: an exchange of many reads, with its cache and its replay mark,  *)
(* amounts to one step that gives a token to whom it is due.                 *)
KeepsTokenPromise == Promise!Spec
================================================================================
