------------------------------ MODULE OAuthGrants ------------------------------
(***************************************************************************)
(* The OAuth grants of server/src/modules/oidc/oidc.service.ts: an         *)
(* authorization code is exchanged for an access token and a refresh       *)
(* token, a refresh token is rotated for the next pair, and either is      *)
(* redeemed with a compare-and-set on its database row.                    *)
(*                                                                         *)
(* Every HTTP request is a process with a program counter; an action is    *)
(* what the handler does between two awaits.  A row is named by the        *)
(* request that inserted it: an authorize request inserts a code, a token  *)
(* request inserts the refresh token it answers with, so grant[r] is the   *)
(* row r inserted.  All columns but status are written at insertion only,  *)
(* hence a handler's copy of them is the row's.                            *)
(***************************************************************************)
EXTENDS Naturals

CONSTANTS
  Requests,       \* the HTTP requests, each handled once
  EndpointOf,     \* which handler a request reaches
  Clients,        \* OAuth applications
  Operators,      \* human accounts
  Scopes,         \* scope names
  AdminScope,     \* "authany.admin"
  AllowedScopes,  \* oauth_clients.allowed_scopes, written at creation only
  AllowedGrants,  \* oauth_clients.allowed_grant_types, likewise
  Protected,      \* clients the admin service refuses to deactivate
  Reassigned,     \* bound: the operators whose roles are edited
  CodeTtl,        \* authCodeTtlSeconds
  RefreshTtl,     \* refreshTokenTtlSeconds
  MaxTime,        \* bound of the clock
  None            \* an absent row

Endpoints == {"authorize", "authorization_code", "refresh_token", "revoke"}

ASSUME GrantConstants ==
  /\ EndpointOf \in [Requests -> Endpoints]
  /\ AllowedScopes \in [Clients -> SUBSET Scopes]
  /\ AllowedGrants \in [Clients -> SUBSET {"authorization_code", "refresh_token"}]
  /\ Protected \subseteq Clients /\ Reassigned \subseteq Operators
  /\ AdminScope \in Scopes
  /\ CodeTtl \in Nat /\ RefreshTtl \in Nat /\ MaxTime \in Nat

VARIABLES
  now,            \* Date.now()
  activeClients,  \* oauth_clients.status = "active"
  admins,         \* operators with an active platform_admin role
  pc,             \* where the handler of each request is
  caller,         \* the client a request authenticated as
  presented,      \* the row a token or revoke request read
  grant,          \* oauth_authorization_codes and oauth_refresh_tokens
  access,         \* oauth_access_token_records
  denylist,       \* refresh tokens whose jti is in token_revocations
  startedAt,      \* history: when a request arrived
  adminsSeen,     \* history: who held the admin role during a request
  revokedBefore   \* history: family revocations done when a row was inserted

world == <<now, activeClients, admins>>
locals == <<caller, presented, startedAt, adminsSeen>>
records == <<access, denylist>>
rows == <<grant, revokedBefore, records>>
vars == <<world, pc, locals, rows>>

--------------------------------------------------------------------------------
(* Rows *)

GrantRow == [status: {"active", "consumed", "rotated", "revoked"},
             client: Clients, operator: Operators, scope: SUBSET Scopes,
             expiresAt: Nat]

ASSUME NoneIsNothing ==
  /\ None \notin GrantRow
  /\ None \notin Requests
  /\ \A scope \in SUBSET Scopes : scope # None

IsCode(g) == EndpointOf[g] = "authorize"
Exists(g) == grant[g] # None
Active(g) == Exists(g) /\ grant[g].status = "active"

(* The tables a token request searches: codes or refresh tokens. *)
InTable(r, g) == IsCode(g) <=> EndpointOf[r] = "authorization_code"

Goto(r, l) == pc' = [pc EXCEPT ![r] = l]
Step(r, from, to) == pc[r] = from /\ Goto(r, to)

--------------------------------------------------------------------------------
(* Plausible bugs, one for each property; no action uses them. *)

(* A row inserted without its expiry. *)
OpenEndedRow(c, o, scope, ttl) ==
  [status |-> "active", client |-> c, operator |-> o, scope |-> scope]

(* isExpired is not asked. *)
RedeemableForever(g, c) == Active(g) /\ grant[g].client = c

(* The scope of the client instead of the scope of the grant. *)
ClientScope(r) == AllowedScopes[caller[r]]

(* update({id}) instead of updateMany({id, status: "active"}). *)
SetWithoutCompare(r, status, lost) ==
  /\ Step(r, "checked", "redeemed")
  /\ grant' = [grant EXCEPT ![presented[r]].status = status]
  /\ UNCHANGED <<world, locals, records, revokedBefore>>

(* The lost compare-and-set is retried until it succeeds. *)
RetryCompareAndSet(r, status, lost) ==
  SetWithoutCompare(r, status, lost) /\ Active(presented[r])

(* The losing request revokes the presented row only. *)
RevokedAlone(o) ==
  [g \in Requests |->
     IF Exists(g) /\ grant[g].status = "rotated" /\ grant[g].operator = o
       THEN [grant[g] EXCEPT !.status = "revoked"]
       ELSE grant[g]]

(* The role is asked for at login, not at every refresh. *)
CheckRoleAtLogin(r) ==
  /\ pc[r] = "redeemed"
  /\ IF IsCode(presented[r]) /\ AdminScope \in ClientScope(r)
          => grant[presented[r]].operator \in admins
       THEN Goto(r, "cleared")
       ELSE Goto(r, "aborted")
  /\ UNCHANGED <<world, locals, rows>>

--------------------------------------------------------------------------------
(* The checks made on the row that was read; a row is good until and       *)
(* including the instant it expires.                                        *)
Redeemable(g, c) ==
  /\ Active(g)
  /\ grant[g].client = c
  /\ now <= grant[g].expiresAt

NewRow(c, o, scope, ttl) ==
  [status |-> "active", client |-> c, operator |-> o, scope |-> scope,
   expiresAt |-> now + ttl]

(* updateMany({operatorId, status: "active"} -> revoked): the operator's   *)
(* refresh tokens at every client.                                          *)
RevokedFamily(o) ==
  [g \in Requests |->
     IF Active(g) /\ ~IsCode(g) /\ grant[g].operator = o
       THEN [grant[g] EXCEPT !.status = "revoked"]
       ELSE grant[g]]

--------------------------------------------------------------------------------
(* Requests *)

Issuing == {"redeemed", "cleared", "recorded", "minted"}
Waiting == {"consented", "authenticated", "checked", "replayed", "located",
            "listed"} \cup Issuing
Ended == {"done", "failed", "familyRevoked", "aborted"}

(* The request won its grant's compare-and-set, whatever came of it. *)
Won(r) ==
  /\ EndpointOf[r] \in {"authorization_code", "refresh_token"}
  /\ pc[r] \in Issuing \cup {"done", "aborted"}

FamilyRevocations == {r \in Requests : pc[r] = "familyRevoked"}

(* item in requested and in client.allowedScopes *)
EffectiveScope(r) == grant[presented[r]].scope \cap AllowedScopes[caller[r]]

Insert(r, row) ==
  /\ grant' = [grant EXCEPT ![r] = row]
  /\ revokedBefore' = [revokedBefore EXCEPT ![r] = FamilyRevocations]

Arrive(r) ==
  /\ pc[r] = "idle"
  /\ startedAt' = [startedAt EXCEPT ![r] = now]
  /\ adminsSeen' = [adminsSeen EXCEPT ![r] = admins]

(* createAuthorizationCode: the session's operator and the client, the     *)
(* redirect URI and the scope are checked first ...                         *)
Authorize(r, c) ==
  /\ EndpointOf[r] = "authorize"
  /\ Arrive(r)
  /\ IF c \in activeClients /\ "authorization_code" \in AllowedGrants[c]
       THEN Goto(r, "consented") /\ caller' = [caller EXCEPT ![r] = c]
       ELSE Goto(r, "failed") /\ UNCHANGED caller
  /\ UNCHANGED <<world, presented, rows>>

(* ... then the code is inserted. *)
InsertCode(r, o, scope) ==
  /\ EndpointOf[r] = "authorize" /\ pc[r] = "consented"
  /\ scope \subseteq AllowedScopes[caller[r]]
  /\ Insert(r, NewRow(caller[r], o, scope, CodeTtl))
  /\ Goto(r, "done")
  /\ UNCHANGED <<world, locals, records>>

(* validateClientSecret and assertGrantTypeAllowed *)
Authenticate(r, c, secretMatches) ==
  /\ EndpointOf[r] # "authorize"
  /\ Arrive(r)
  /\ IF /\ c \in activeClients
        /\ secretMatches
        /\ EndpointOf[r] \in AllowedGrants[c] \cup {"revoke"}
       THEN Goto(r, "authenticated") /\ caller' = [caller EXCEPT ![r] = c]
       ELSE Goto(r, "failed") /\ UNCHANGED caller
  /\ UNCHANGED <<world, presented, rows>>

(* findUnique by hash and the checks on the row; contextMatches is the     *)
(* redirect URI and the PKCE verifier of a code exchange.                   *)
ReadGrant(r, g, contextMatches) ==
  /\ EndpointOf[r] \in {"authorization_code", "refresh_token"}
  /\ pc[r] = "authenticated"
  /\ InTable(r, g) /\ Exists(g)
  /\ presented' = [presented EXCEPT ![r] = g]
  /\ IF Redeemable(g, caller[r]) /\ (IsCode(g) => contextMatches)
       THEN Goto(r, "checked")
       ELSE Goto(r, "failed")
  /\ UNCHANGED <<world, caller, startedAt, adminsSeen, rows>>

(* What was presented is in no table: an error of the token endpoint, but a *)
(* success of the revocation endpoint (RFC 7009), whose access-token branch *)
(* changes nothing the grants rest on.                                      *)
FindNothing(r) ==
  /\ pc[r] = "authenticated"
  /\ Goto(r, IF EndpointOf[r] = "revoke" THEN "done" ELSE "failed")
  /\ UNCHANGED <<world, locals, rows>>

(* updateMany({id, status: "active"} -> status): the row decides, not the   *)
(* copy read before.                                                        *)
CompareAndSet(r, status, lost) ==
  /\ pc[r] = "checked"
  /\ IF Active(presented[r])
       THEN /\ grant' = [grant EXCEPT ![presented[r]].status = status]
            /\ Goto(r, "redeemed")
       ELSE Goto(r, lost) /\ UNCHANGED grant
  /\ UNCHANGED <<world, locals, records, revokedBefore>>

ConsumeCode(r) ==
  EndpointOf[r] = "authorization_code" /\ CompareAndSet(r, "consumed", "failed")

RotateToken(r) ==
  EndpointOf[r] = "refresh_token" /\ CompareAndSet(r, "rotated", "replayed")

(* revokeRefreshTokenFamily after a lost compare-and-set, then invalid_grant *)
RevokeFamily(r) ==
  /\ Step(r, "replayed", "familyRevoked")
  /\ grant' = RevokedFamily(grant[presented[r]].operator)
  /\ UNCHANGED <<world, locals, records, revokedBefore>>

(* issueStandardTokens: the role is read only when the admin scope is      *)
(* among the effective scopes ...                                           *)
CheckRole(r) ==
  /\ pc[r] = "redeemed"
  /\ IF AdminScope \in EffectiveScope(r)
          => grant[presented[r]].operator \in admins
       THEN Goto(r, "cleared")
       ELSE Goto(r, "aborted")
  /\ UNCHANGED <<world, locals, rows>>

(* ... then the access token is signed and its record inserted, ... *)
RecordAccess(r) ==
  /\ Step(r, "cleared", "recorded")
  /\ access' = [access EXCEPT ![r] = EffectiveScope(r)]
  /\ UNCHANGED <<world, locals, grant, revokedBefore, denylist>>

(* ... then the next refresh token, ... *)
MintRefresh(r) ==
  /\ Step(r, "recorded", "minted")
  /\ Insert(r, NewRow(caller[r], grant[presented[r]].operator, EffectiveScope(r),
                      RefreshTtl))
  /\ UNCHANGED <<world, locals, records>>

(* ... then the ID token is signed and the client answered. *)
Respond(r) ==
  /\ Step(r, "minted", "done")
  /\ UNCHANGED <<world, locals, rows>>

(* revokeToken looks for a refresh token, of whatever status, first. *)
LocateRevoked(r, g) ==
  /\ EndpointOf[r] = "revoke" /\ pc[r] = "authenticated"
  /\ ~IsCode(g) /\ Exists(g)
  /\ presented' = [presented EXCEPT ![r] = g]
  /\ Goto(r, IF grant[g].client = caller[r] THEN "located" ELSE "failed")
  /\ UNCHANGED <<world, caller, startedAt, adminsSeen, rows>>

(* createRevocation *)
DenyJti(r) ==
  /\ Step(r, "located", "listed")
  /\ denylist' = denylist \cup {presented[r]}
  /\ UNCHANGED <<world, locals, grant, revokedBefore, access>>

(* An unconditional update: it also hits a row rotated meanwhile. *)
MarkRevoked(r) ==
  /\ Step(r, "listed", "done")
  /\ grant' = [grant EXCEPT ![presented[r]].status = "revoked"]
  /\ UNCHANGED <<world, locals, records, revokedBefore>>

(* Any await may throw (database, audit insert, missing signing key) and   *)
(* the process may die: the handler stops, what it wrote stays.             *)
Crash(r) ==
  /\ pc[r] \in Waiting
  /\ Goto(r, IF pc[r] \in Issuing THEN "aborted" ELSE "failed")
  /\ UNCHANGED <<world, locals, rows>>

(* An administrator changes an application's status, or deletes it. *)
SetClientStatus(c) ==
  /\ c \notin Protected
  /\ activeClients' \in {activeClients \cup {c}, activeClients \ {c}}
  /\ UNCHANGED <<now, admins, pc, locals, rows>>

(* operator_roles is edited outside the server.  The second conjunct keeps *)
(* the history adminsSeen of the requests under way.                        *)
SetRole(o) ==
  /\ o \in Reassigned
  /\ admins' \in {admins \cup {o}, admins \ {o}}
  /\ adminsSeen' = [r \in Requests |-> IF pc[r] \in Waiting
                                         THEN adminsSeen[r] \cup admins'
                                         ELSE adminsSeen[r]]
  /\ UNCHANGED <<now, activeClients, pc, caller, presented, startedAt, rows>>

Tick ==
  /\ now < MaxTime
  /\ now' = now + 1
  /\ UNCHANGED <<activeClients, admins, pc, locals, rows>>

--------------------------------------------------------------------------------
Init ==
  /\ now = 0
  /\ activeClients = Clients
  /\ admins \in SUBSET Operators
  /\ pc = [r \in Requests |-> "idle"]
  /\ caller = [r \in Requests |-> None]
  /\ presented = [r \in Requests |-> None]
  /\ grant = [r \in Requests |-> None]
  /\ access = [r \in Requests |-> None]
  /\ denylist = {}
  /\ startedAt = [r \in Requests |-> 0]
  /\ adminsSeen = [r \in Requests |-> {}]
  /\ revokedBefore = [r \in Requests |-> {}]

(* What the handler of a request that has arrived does next. *)
Handle(r) ==
  \/ \E o \in Operators, scope \in SUBSET Scopes : InsertCode(r, o, scope)
  \/ \E g \in Requests, ok \in BOOLEAN : ReadGrant(r, g, ok)
  \/ FindNothing(r) \/ ConsumeCode(r) \/ RotateToken(r) \/ RevokeFamily(r)
  \/ CheckRole(r) \/ RecordAccess(r) \/ MintRefresh(r) \/ Respond(r)
  \/ \E g \in Requests : LocateRevoked(r, g)
  \/ DenyJti(r) \/ MarkRevoked(r)

Next ==
  \/ \E r \in Requests, c \in Clients : Authorize(r, c)
  \/ \E r \in Requests, c \in Clients, ok \in BOOLEAN : Authenticate(r, c, ok)
  \/ \E r \in Requests : Handle(r) \/ Crash(r)
  \/ \E c \in Clients : SetClientStatus(c)
  \/ \E o \in Operators : SetRole(o)
  \/ Tick

Spec == Init /\ [][Next]_vars

(* Node resumes every handler whose await has settled. *)
FairSpec == Spec /\ \A r \in Requests : WF_vars(Handle(r))

--------------------------------------------------------------------------------
TypeOK ==
  /\ now \in 0 .. MaxTime
  /\ activeClients \subseteq Clients
  /\ admins \subseteq Operators
  /\ pc \in [Requests -> {"idle"} \cup Waiting \cup Ended]
  /\ caller \in [Requests -> Clients \cup {None}]
  /\ presented \in [Requests -> Requests \cup {None}]
  /\ grant \in [Requests -> GrantRow \cup {None}]
  /\ access \in [Requests -> (SUBSET Scopes) \cup {None}]
  /\ denylist \subseteq Requests
  /\ startedAt \in [Requests -> 0 .. MaxTime]
  /\ adminsSeen \in [Requests -> SUBSET Operators]
  /\ revokedBefore \in [Requests -> SUBSET Requests]

(* However requests interleave and fail, no two of them ever receive       *)
(* tokens for the same code or refresh token: the read that precedes the   *)
(* compare-and-set in exchangeAuthorizationCode and exchangeRefreshToken   *)
(* is allowed to be stale.                                                  *)
RedeemedByOne ==
  \A r, s \in Requests :
    Won(r) /\ Won(s) /\ presented[r] = presented[s] => r = s

(* A token chain never gains authority: what a request mints belongs to the *)
(* client and operator of the grant it redeemed, and its scope, like the    *)
(* access token's, is within that grant's and within the client's.          *)
ChainNeverWidens ==
  \A r \in Requests :
    LET g == presented[r] IN
    /\ access[r] # None =>
         access[r] \subseteq grant[g].scope \cap AllowedScopes[grant[g].client]
    /\ Exists(r) /\ ~IsCode(r) =>
         /\ grant[r].client = grant[g].client
         /\ grant[r].operator = grant[g].operator
         /\ grant[r].scope \subseteq grant[g].scope

(* An access token with the admin scope was issued only to an operator who *)
(* held platform_admin at some moment of that very request: a demoted      *)
(* operator's refresh chain stops carrying the scope (issueStandardTokens  *)
(* reads the roles anew each time).                                         *)
AdminScopeNeedsRole ==
  \A r \in Requests :
    access[r] # None /\ AdminScope \in access[r] =>
      grant[presented[r]].operator \in adminsSeen[r]

(* A request that arrives after a grant has expired never wins it, although *)
(* the compare-and-set itself does not look at expiresAt.                   *)
ExpiredNeverRedeemed ==
  \A r \in Requests :
    Won(r) => startedAt[r] <= grant[presented[r]].expiresAt

(* revokeRefreshTokenFamily reaches every token of the operator that exists *)
(* when it runs: a token that is active although a family revocation for    *)
(* its operator has finished was inserted after it.                         *)
SurvivorsAreNewer ==
  \A g, s \in Requests :
    /\ Active(g) /\ ~IsCode(g)
    /\ pc[s] = "familyRevoked"
    /\ grant[presented[s]].operator = grant[g].operator
    => s \in revokedBefore[g]

(* Once revokeToken has answered for a refresh token, no request wins that *)
(* token any more, not even one that read it as active before.              *)
RevokedNeverRedeemed ==
  [][\A r, s \in Requests :
       /\ EndpointOf[s] = "revoke" /\ pc[s] = "done" /\ presented[s] \in denylist
       /\ ~Won(r) /\ Won(r)'
       => presented'[r] # presented[s]]_vars

(* Every request that is authenticated gets an answer or an error. *)
EveryRequestEnds ==
  \A r \in Requests : pc[r] \in Waiting ~> pc[r] \in Ended

(* The grants of the abstract specification: a grant exists once its row is *)
(* inserted, is live while the row is active, and is redeemed by the        *)
(* request that won its compare-and-set.                                    *)
Minted == {g \in Requests : Exists(g)}
Live == {g \in Requests : Active(g)}
Redemptions ==
  {p \in Requests \X Requests : Won(p[2]) /\ presented[p[2]] = p[1]}

Promise == INSTANCE OneTimeGrants WITH
  minted <- Minted, live <- Live, redemptions <- Redemptions

(* Codes and refresh tokens keep the promise of one-time grants: every step *)
(* of a handler grants, redeems, mints or withdraws, or changes nothing.    *)
KeepsPromise == Promise!Spec

(* docs/src-deep-analysis.md:386 says that when a rotated refresh token is  *)
(* presented again, all refresh tokens of its operator are revoked.  The    *)
(* request below is such a replay, and this step answers it.                *)
ReplayRevokesAll ==
  [][\A r \in Requests :
       LET g == presented'[r] IN
       /\ EndpointOf[r] = "refresh_token"
       /\ pc[r] = "authenticated" /\ pc'[r] = "failed"
       /\ g # None /\ grant[g].status = "rotated"
       => \A t \in Requests :
            /\ ~IsCode(t) /\ Exists(t)
            /\ grant[t].operator = grant[g].operator
            => grant'[t].status # "active"]_vars
================================================================================
