--------------------------- MODULE OAuthGrantsProofs ---------------------------
(***************************************************************************)
(* Proofs about OAuthGrants, for any number of requests, clients,          *)
(* operators and scopes and any lifetimes.                                  *)
(***************************************************************************)
EXTENDS OAuthGrants, TLAPS

(* Handlers of these endpoints redeem a grant and may win it. *)
TokenEndpoints == {"authorization_code", "refresh_token"}

Holding == {"checked", "replayed", "located", "listed"} \cup Issuing

(* A handler that has passed its lookup holds the name of an existing row, *)
(* and so does every request that won one.                                  *)
HoldsRow ==
  \A r \in Requests :
    pc[r] \in Holding \/ Won(r) =>
      presented[r] \in Requests /\ grant[presented[r]] \in GrantRow

(* A handler that has passed its first check knows who is calling. *)
KnowsCaller ==
  \A r \in Requests :
    pc[r] \in {"consented", "authenticated"} \cup Holding => caller[r] \in Clients

(* The endpoints whose handlers can be at a given place. *)
PlaceOfEndpoint ==
  \A r \in Requests :
    /\ pc[r] \in {"checked", "aborted"} \cup Issuing => EndpointOf[r] \in TokenEndpoints
    /\ pc[r] \in {"replayed", "familyRevoked"} => EndpointOf[r] = "refresh_token"
    /\ pc[r] \in {"located", "listed"} => EndpointOf[r] = "revoke"

(* A row is inserted by the last database write of its request, once. *)
FreshRow ==
  \A r \in Requests : grant[r] # None => pc[r] \in {"minted", "done", "aborted"}

(* The strengthened invariant behind RedeemedByOne: a grant that was won is *)
(* no longer active, so its compare-and-set cannot succeed again.           *)
WonIsInactive == \A r \in Requests : Won(r) => ~Active(presented[r])

IInv ==
  /\ TypeOK
  /\ HoldsRow
  /\ KnowsCaller
  /\ PlaceOfEndpoint
  /\ FreshRow
  /\ WonIsInactive
  /\ RedeemedByOne

--------------------------------------------------------------------------------
(* The row inserted by NewRow is a row. *)
LEMMA NewRowType ==
  ASSUME TypeOK, NEW c \in Clients, NEW o \in Operators,
         NEW scope \in SUBSET Scopes, NEW ttl \in Nat
  PROVE  NewRow(c, o, scope, ttl) \in GrantRow
BY DEF TypeOK, NewRow, GrantRow

(* Effective scopes are scopes. *)
LEMMA EffectiveScopeType ==
  ASSUME NEW r \in Requests, presented[r] \in Requests,
         grant[presented[r]] \in GrantRow
  PROVE  EffectiveScope(r) \in SUBSET Scopes
BY DEF EffectiveScope, GrantRow

LEMMA InitIInv == Init => IInv
BY GrantConstants
   DEF Init, IInv, TypeOK, HoldsRow, KnowsCaller, PlaceOfEndpoint, FreshRow, WonIsInactive,
       RedeemedByOne, Won, Exists, Active, Holding, Issuing, Waiting, Ended

--------------------------------------------------------------------------------
(* Types are preserved. *)
LEMMA TypeStep ==
  ASSUME TypeOK, HoldsRow, KnowsCaller, [Next]_vars
  PROVE  TypeOK'
<1> USE GrantConstants DEF TypeOK, Goto, Step, Waiting, Ended, Issuing, rows, world,
        locals, records
<1>1. ASSUME NEW r \in Requests, NEW c \in Clients, Authorize(r, c)
      PROVE  TypeOK'
  BY <1>1 DEF Authorize, Arrive
<1>2. ASSUME NEW r \in Requests, NEW c \in Clients, NEW ok \in BOOLEAN,
             Authenticate(r, c, ok)
      PROVE  TypeOK'
  BY <1>2 DEF Authenticate, Arrive
<1>3. ASSUME NEW r \in Requests, NEW o \in Operators, NEW scope \in SUBSET Scopes,
             InsertCode(r, o, scope)
      PROVE  TypeOK'
  <2>1. NewRow(caller[r], o, scope, CodeTtl) \in GrantRow
    BY <1>3, NewRowType DEF InsertCode, KnowsCaller
  <2>2. FamilyRevocations \in SUBSET Requests
    BY DEF FamilyRevocations
  <2>. QED BY <1>3, <2>1, <2>2 DEF InsertCode, Insert
<1>4. ASSUME NEW r \in Requests, NEW g \in Requests, NEW ok \in BOOLEAN,
             ReadGrant(r, g, ok)
      PROVE  TypeOK'
  BY <1>4 DEF ReadGrant
<1>5. ASSUME NEW r \in Requests, FindNothing(r)
      PROVE  TypeOK'
  BY <1>5 DEF FindNothing
<1>6. ASSUME NEW r \in Requests, NEW status \in {"consumed", "rotated"},
             NEW lost \in {"failed", "replayed"}, CompareAndSet(r, status, lost)
      PROVE  TypeOK'
  <2>1. presented[r] \in Requests /\ grant[presented[r]] \in GrantRow
    BY <1>6 DEF CompareAndSet, HoldsRow, Holding
  <2>2. [grant[presented[r]] EXCEPT !.status = status] \in GrantRow
    BY <2>1 DEF GrantRow
  <2>3. [grant EXCEPT ![presented[r]].status = status]
          \in [Requests -> GrantRow \cup {None}]
    BY <2>1, <2>2
  <2>. QED BY <1>6, <2>3 DEF CompareAndSet
<1>7. ASSUME NEW r \in Requests, RevokeFamily(r)
      PROVE  TypeOK'
  <2>1. ASSUME NEW o PROVE RevokedFamily(o) \in [Requests -> GrantRow \cup {None}]
    BY DEF RevokedFamily, Active, Exists, GrantRow
  <2>. QED BY <1>7, <2>1 DEF RevokeFamily
<1>8. ASSUME NEW r \in Requests, CheckRole(r) \/ Respond(r) \/ Crash(r)
      PROVE  TypeOK'
  BY <1>8 DEF CheckRole, Respond, Crash
<1>9. ASSUME NEW r \in Requests, RecordAccess(r)
      PROVE  TypeOK'
  <2>1. EffectiveScope(r) \in SUBSET Scopes
    BY <1>9, EffectiveScopeType DEF RecordAccess, HoldsRow, Holding
  <2>. QED BY <1>9, <2>1 DEF RecordAccess
<1>10. ASSUME NEW r \in Requests, MintRefresh(r)
       PROVE  TypeOK'
  <2>1. presented[r] \in Requests /\ grant[presented[r]] \in GrantRow
    BY <1>10 DEF MintRefresh, HoldsRow, Holding
  <2>2. NewRow(caller[r], grant[presented[r]].operator, EffectiveScope(r), RefreshTtl)
          \in GrantRow
    <3>1. EffectiveScope(r) \in SUBSET Scopes
      BY <2>1, EffectiveScopeType
    <3>2. grant[presented[r]].operator \in Operators
      BY <2>1 DEF GrantRow
    <3>3. caller[r] \in Clients
      BY <1>10 DEF MintRefresh, KnowsCaller, Holding
    <3>. QED BY <3>1, <3>2, <3>3, NewRowType
  <2>3. FamilyRevocations \in SUBSET Requests
    BY DEF FamilyRevocations
  <2>. QED BY <1>10, <2>2, <2>3 DEF MintRefresh, Insert
<1>11. ASSUME NEW r \in Requests, NEW g \in Requests, LocateRevoked(r, g)
       PROVE  TypeOK'
  BY <1>11 DEF LocateRevoked
<1>12. ASSUME NEW r \in Requests, DenyJti(r)
       PROVE  TypeOK'
  BY <1>12 DEF DenyJti, HoldsRow, Holding
<1>13. ASSUME NEW r \in Requests, MarkRevoked(r)
       PROVE  TypeOK'
  <2>1. presented[r] \in Requests /\ grant[presented[r]] \in GrantRow
    BY <1>13 DEF MarkRevoked, HoldsRow, Holding
  <2>2. [grant[presented[r]] EXCEPT !.status = "revoked"] \in GrantRow
    BY <2>1 DEF GrantRow
  <2>3. [grant EXCEPT ![presented[r]].status = "revoked"]
          \in [Requests -> GrantRow \cup {None}]
    BY <2>1, <2>2
  <2>. QED BY <1>13, <2>3 DEF MarkRevoked
<1>14. ASSUME NEW c \in Clients, SetClientStatus(c)
       PROVE  TypeOK'
  BY <1>14 DEF SetClientStatus
<1>15. ASSUME NEW o \in Operators, SetRole(o)
       PROVE  TypeOK'
  BY <1>15 DEF SetRole
<1>16. CASE Tick
  BY <1>16 DEF Tick
<1>17. CASE UNCHANGED vars
  BY <1>17 DEF vars
<1>. QED
  BY <1>1, <1>2, <1>3, <1>4, <1>5, <1>6, <1>7, <1>8, <1>9, <1>10, <1>11, <1>12, <1>13,
     <1>14, <1>15, <1>16, <1>17
     DEF Next, Handle, ConsumeCode, RotateToken

--------------------------------------------------------------------------------
(* Handlers are at places their endpoint has. *)
LEMMA PlaceStep ==
  ASSUME TypeOK, PlaceOfEndpoint, [Next]_vars
  PROVE  PlaceOfEndpoint'
<1> USE GrantConstants DEF TypeOK, PlaceOfEndpoint, TokenEndpoints, Goto, Step, Issuing
<1>1. ASSUME NEW r \in Requests,
             \/ \E c \in Clients : Authorize(r, c)
             \/ \E c \in Clients, ok \in BOOLEAN : Authenticate(r, c, ok)
             \/ \E o \in Operators, scope \in SUBSET Scopes : InsertCode(r, o, scope)
      PROVE  PlaceOfEndpoint'
  BY <1>1 DEF Authorize, Authenticate, Arrive, InsertCode
<1>2. ASSUME NEW r \in Requests,
             \/ \E g \in Requests, ok \in BOOLEAN : ReadGrant(r, g, ok)
             \/ FindNothing(r)
             \/ \E g \in Requests : LocateRevoked(r, g)
      PROVE  PlaceOfEndpoint'
  BY <1>2 DEF ReadGrant, FindNothing, LocateRevoked
<1>3. ASSUME NEW r \in Requests, ConsumeCode(r) \/ RotateToken(r) \/ RevokeFamily(r)
      PROVE  PlaceOfEndpoint'
  BY <1>3 DEF ConsumeCode, RotateToken, CompareAndSet, RevokeFamily
<1>4. ASSUME NEW r \in Requests,
             CheckRole(r) \/ RecordAccess(r) \/ MintRefresh(r) \/ Respond(r)
      PROVE  PlaceOfEndpoint'
  BY <1>4 DEF CheckRole, RecordAccess, MintRefresh, Respond
<1>5. ASSUME NEW r \in Requests, DenyJti(r) \/ MarkRevoked(r) \/ Crash(r)
      PROVE  PlaceOfEndpoint'
  BY <1>5 DEF DenyJti, MarkRevoked, Crash
<1>6. CASE \/ \E c \in Clients : SetClientStatus(c)
           \/ \E o \in Operators : SetRole(o)
           \/ Tick \/ UNCHANGED vars
  BY <1>6 DEF SetClientStatus, SetRole, Tick, vars
<1>. QED
  BY <1>1, <1>2, <1>3, <1>4, <1>5, <1>6 DEF Next, Handle

(* A handler past its first check keeps the caller it found. *)
LEMMA CallerStep ==
  ASSUME TypeOK, KnowsCaller, [Next]_vars
  PROVE  KnowsCaller'
<1> USE GrantConstants DEF TypeOK, KnowsCaller, Goto, Step, Issuing, Holding, locals
<1>1. ASSUME NEW r \in Requests,
             \/ \E c \in Clients : Authorize(r, c)
             \/ \E c \in Clients, ok \in BOOLEAN : Authenticate(r, c, ok)
             \/ \E o \in Operators, scope \in SUBSET Scopes : InsertCode(r, o, scope)
      PROVE  KnowsCaller'
  BY <1>1 DEF Authorize, Authenticate, Arrive, InsertCode
<1>2. ASSUME NEW r \in Requests,
             \/ \E g \in Requests, ok \in BOOLEAN : ReadGrant(r, g, ok)
             \/ FindNothing(r)
             \/ \E g \in Requests : LocateRevoked(r, g)
      PROVE  KnowsCaller'
  BY <1>2 DEF ReadGrant, FindNothing, LocateRevoked
<1>3. ASSUME NEW r \in Requests, ConsumeCode(r) \/ RotateToken(r) \/ RevokeFamily(r)
      PROVE  KnowsCaller'
  BY <1>3 DEF ConsumeCode, RotateToken, CompareAndSet, RevokeFamily
<1>4. ASSUME NEW r \in Requests,
             CheckRole(r) \/ RecordAccess(r) \/ MintRefresh(r) \/ Respond(r)
      PROVE  KnowsCaller'
  BY <1>4 DEF CheckRole, RecordAccess, MintRefresh, Respond
<1>5. ASSUME NEW r \in Requests, DenyJti(r) \/ MarkRevoked(r) \/ Crash(r)
      PROVE  KnowsCaller'
  BY <1>5 DEF DenyJti, MarkRevoked, Crash
<1>6. CASE \/ \E c \in Clients : SetClientStatus(c)
           \/ \E o \in Operators : SetRole(o)
           \/ Tick \/ UNCHANGED vars
  BY <1>6 DEF SetClientStatus, SetRole, Tick, vars
<1>. QED
  BY <1>1, <1>2, <1>3, <1>4, <1>5, <1>6 DEF Next, Handle

(* A request inserts its row when it has none, and never again. *)
LEMMA FreshStep ==
  ASSUME TypeOK, HoldsRow, FreshRow, [Next]_vars
  PROVE  FreshRow'
<1> USE GrantConstants, NoneIsNothing
    DEF TypeOK, FreshRow, Goto, Step, Issuing, Waiting, rows, Exists, Active
<1>1. ASSUME NEW r \in Requests,
             \/ \E c \in Clients : Authorize(r, c)
             \/ \E c \in Clients, ok \in BOOLEAN : Authenticate(r, c, ok)
             \/ \E o \in Operators, scope \in SUBSET Scopes : InsertCode(r, o, scope)
      PROVE  FreshRow'
  BY <1>1 DEF Authorize, Authenticate, Arrive, InsertCode, Insert
<1>2. ASSUME NEW r \in Requests,
             \/ \E g \in Requests, ok \in BOOLEAN : ReadGrant(r, g, ok)
             \/ FindNothing(r)
             \/ \E g \in Requests : LocateRevoked(r, g)
      PROVE  FreshRow'
  BY <1>2 DEF ReadGrant, FindNothing, LocateRevoked
<1>3. ASSUME NEW r \in Requests, ConsumeCode(r) \/ RotateToken(r) \/ RevokeFamily(r)
      PROVE  FreshRow'
  BY <1>3 DEF ConsumeCode, RotateToken, CompareAndSet, RevokeFamily, RevokedFamily
<1>4. ASSUME NEW r \in Requests,
             CheckRole(r) \/ RecordAccess(r) \/ MintRefresh(r) \/ Respond(r)
      PROVE  FreshRow'
  BY <1>4 DEF CheckRole, RecordAccess, MintRefresh, Respond, Insert
<1>5. ASSUME NEW r \in Requests, DenyJti(r) \/ Crash(r)
      PROVE  FreshRow'
  BY <1>5 DEF DenyJti, Crash
<1>6. ASSUME NEW r \in Requests, MarkRevoked(r)
      PROVE  FreshRow'
  <2>1. presented[r] \in Requests /\ grant[presented[r]] \in GrantRow
    BY <1>6 DEF MarkRevoked, HoldsRow, Holding
  <2>2. ASSUME NEW g \in Requests, g # presented[r] PROVE grant'[g] = grant[g]
    BY <1>6, <2>2 DEF MarkRevoked
  <2>. QED BY <1>6, <2>1, <2>2 DEF MarkRevoked
<1>7. CASE \/ \E c \in Clients : SetClientStatus(c)
           \/ \E o \in Operators : SetRole(o)
           \/ Tick \/ UNCHANGED vars
  BY <1>7 DEF SetClientStatus, SetRole, Tick, vars
<1>. QED
  BY <1>1, <1>2, <1>3, <1>4, <1>5, <1>6, <1>7 DEF Next, Handle

--------------------------------------------------------------------------------
(* A step never removes a row, never changes a column of it but the status, *)
(* and never makes it active again: what a handler read before an await     *)
(* stays true of the row but for its being active.                          *)
RowKept(g) ==
  /\ grant'[g] \in GrantRow
  /\ grant'[g].client = grant[g].client
  /\ grant'[g].operator = grant[g].operator
  /\ grant'[g].scope = grant[g].scope
  /\ grant'[g].expiresAt = grant[g].expiresAt
  /\ grant[g].status # "active" => grant'[g].status # "active"

(* What one assignment to the status column leaves alone. *)
LEMMA StatusOnly ==
  ASSUME TypeOK, NEW p \in Requests, grant[p] \in GrantRow,
         NEW status \in {"consumed", "rotated", "revoked"},
         grant' = [grant EXCEPT ![p].status = status],
         NEW g \in Requests, grant[g] \in GrantRow
  PROVE  RowKept(g)
BY DEF TypeOK, RowKept, GrantRow

(* Insertion touches the row of the inserting request only. *)
LEMMA InsertOther ==
  ASSUME TypeOK, NEW r \in Requests, NEW row, Insert(r, row),
         NEW g \in Requests, g # r, grant[g] \in GrantRow
  PROVE  RowKept(g)
BY DEF TypeOK, RowKept, Insert

LEMMA RowStep ==
  ASSUME TypeOK, HoldsRow, FreshRow, [Next]_vars,
         NEW g \in Requests, grant[g] \in GrantRow
  PROVE  RowKept(g)
<1>1. CASE UNCHANGED grant
  BY <1>1 DEF RowKept
<1>2. ASSUME NEW r \in Requests, NEW o \in Operators, NEW scope \in SUBSET Scopes,
             InsertCode(r, o, scope)
      PROVE  RowKept(g)
  <2>1. g # r
    BY <1>2, NoneIsNothing DEF InsertCode, FreshRow
  <2>. QED BY <1>2, <2>1, InsertOther DEF InsertCode
<1>3. ASSUME NEW r \in Requests, MintRefresh(r)
      PROVE  RowKept(g)
  <2>1. g # r
    BY <1>3, NoneIsNothing DEF MintRefresh, Step, FreshRow
  <2>. QED BY <1>3, <2>1, InsertOther DEF MintRefresh
<1>4. ASSUME NEW r \in Requests, ConsumeCode(r) \/ RotateToken(r)
      PROVE  RowKept(g)
  <2>1. presented[r] \in Requests /\ grant[presented[r]] \in GrantRow
    BY <1>4 DEF ConsumeCode, RotateToken, CompareAndSet, HoldsRow, Holding
  <2>. QED BY <1>1, <1>4, <2>1, StatusOnly DEF ConsumeCode, RotateToken, CompareAndSet
<1>5. ASSUME NEW r \in Requests, MarkRevoked(r)
      PROVE  RowKept(g)
  <2>1. presented[r] \in Requests /\ grant[presented[r]] \in GrantRow
    BY <1>5 DEF MarkRevoked, Step, HoldsRow, Holding
  <2>. QED BY <1>5, <2>1, StatusOnly DEF MarkRevoked
<1>6. ASSUME NEW r \in Requests, RevokeFamily(r)
      PROVE  RowKept(g)
  BY <1>6 DEF RevokeFamily, RevokedFamily, RowKept, GrantRow
<1>7. CASE \/ \E c \in Clients : SetClientStatus(c)
           \/ \E o \in Operators : SetRole(o)
           \/ Tick \/ UNCHANGED vars
  BY <1>1, <1>7 DEF SetClientStatus, SetRole, Tick, vars, rows
<1>8. ASSUME NEW r \in Requests,
             \/ \E c \in Clients : Authorize(r, c)
             \/ \E c \in Clients, ok \in BOOLEAN : Authenticate(r, c, ok)
             \/ \E h \in Requests, ok \in BOOLEAN : ReadGrant(r, h, ok)
             \/ FindNothing(r)
             \/ \E h \in Requests : LocateRevoked(r, h)
             \/ CheckRole(r) \/ RecordAccess(r) \/ Respond(r)
             \/ DenyJti(r) \/ Crash(r)
      PROVE  RowKept(g)
  BY <1>1, <1>8
     DEF Authorize, Authenticate, ReadGrant, FindNothing, LocateRevoked, CheckRole,
         RecordAccess, Respond, DenyJti, Crash, rows
<1>. QED
  BY <1>2, <1>3, <1>4, <1>5, <1>6, <1>7, <1>8 DEF Next, Handle

(* A handler changes what it presented only when it looks it up, before it  *)
(* holds any row; wins come from a compare-and-set on an active row.        *)
LEMMA WinStep ==
  ASSUME TypeOK, PlaceOfEndpoint, [Next]_vars, NEW r \in Requests, Won(r)'
  PROVE  /\ presented'[r] = presented[r]
         /\ Won(r) \/ (/\ pc[r] = "checked"
                       /\ Active(presented[r])
                       /\ \A s \in Requests \ {r} : pc'[s] = pc[s]
                       /\ \E status \in {"consumed", "rotated"} :
                            grant' = [grant EXCEPT ![presented[r]].status = status])
<1> USE GrantConstants
    DEF TypeOK, PlaceOfEndpoint, TokenEndpoints, Won, Goto, Step, Issuing, locals
<1>1. CASE pc' = pc /\ presented' = presented
  BY <1>1
<1>2. ASSUME NEW s \in Requests,
             \/ \E c \in Clients : Authorize(s, c)
             \/ \E c \in Clients, ok \in BOOLEAN : Authenticate(s, c, ok)
             \/ \E o \in Operators, scope \in SUBSET Scopes : InsertCode(s, o, scope)
      PROVE  presented'[r] = presented[r] /\ Won(r)
  BY <1>2 DEF Authorize, Authenticate, Arrive, InsertCode
<1>3. ASSUME NEW s \in Requests,
             \/ \E g \in Requests, ok \in BOOLEAN : ReadGrant(s, g, ok)
             \/ FindNothing(s)
             \/ \E g \in Requests : LocateRevoked(s, g)
      PROVE  presented'[r] = presented[r] /\ Won(r)
  BY <1>3 DEF ReadGrant, FindNothing, LocateRevoked
<1>4. ASSUME NEW s \in Requests, NEW status \in {"consumed", "rotated"},
             NEW lost \in {"failed", "replayed"}, CompareAndSet(s, status, lost)
      PROVE  /\ presented'[r] = presented[r]
             /\ Won(r) \/ (/\ pc[r] = "checked"
                           /\ Active(presented[r])
                           /\ \A t \in Requests \ {r} : pc'[t] = pc[t]
                           /\ grant' = [grant EXCEPT ![presented[r]].status = status])
  BY <1>4 DEF CompareAndSet
<1>5. ASSUME NEW s \in Requests,
             \/ RevokeFamily(s) \/ CheckRole(s) \/ RecordAccess(s) \/ MintRefresh(s)
             \/ Respond(s) \/ DenyJti(s) \/ MarkRevoked(s)
      PROVE  presented'[r] = presented[r] /\ Won(r)
  BY <1>5 DEF RevokeFamily, CheckRole, RecordAccess, MintRefresh, Respond, DenyJti,
              MarkRevoked
<1>6. ASSUME NEW s \in Requests, Crash(s)
      PROVE  presented'[r] = presented[r] /\ Won(r)
  BY <1>6 DEF Crash
<1>7. CASE \/ \E c \in Clients : SetClientStatus(c)
           \/ \E o \in Operators : SetRole(o)
           \/ Tick \/ UNCHANGED vars
  BY <1>1, <1>7 DEF SetClientStatus, SetRole, Tick, vars
<1>8. ASSUME NEW s \in Requests, ConsumeCode(s) \/ RotateToken(s)
      PROVE  \/ CompareAndSet(s, "consumed", "failed")
             \/ CompareAndSet(s, "rotated", "replayed")
  BY <1>8 DEF ConsumeCode, RotateToken
<1>. QED
  BY <1>2, <1>3, <1>4, <1>5, <1>6, <1>7, <1>8 DEF Next, Handle

(* A handler that gets to hold a row has found it. *)
LEMMA HoldsRowStep ==
  ASSUME TypeOK, HoldsRow, FreshRow, PlaceOfEndpoint, [Next]_vars
  PROVE  HoldsRow'
<1>1. ASSUME NEW r \in Requests, pc'[r] \in Holding \/ Won(r)'
      PROVE  presented'[r] \in Requests /\ grant'[presented'[r]] \in GrantRow
  <2>1. ASSUME NEW g \in Requests, grant[g] \in GrantRow
        PROVE  grant'[g] \in GrantRow
    BY <2>1, RowStep DEF RowKept
  <2>2. CASE /\ presented'[r] = presented[r]
             /\ pc[r] \in Holding \/ Won(r)
    BY <2>1, <2>2 DEF HoldsRow
  <2>3. CASE Won(r)'
    BY <2>2, <2>3, WinStep DEF Holding
  <2>4. CASE pc'[r] \in Holding /\ ~Won(r)'
    <3> USE GrantConstants DEF TypeOK, Goto, Step, Holding, Issuing, locals
    <3>1. CASE pc' = pc /\ presented' = presented
      BY <1>1, <2>2, <2>4, <3>1
    <3>2. ASSUME NEW s \in Requests,
                 \/ \E c \in Clients : Authorize(s, c)
                 \/ \E c \in Clients, ok \in BOOLEAN : Authenticate(s, c, ok)
                 \/ \E o \in Operators, scope \in SUBSET Scopes : InsertCode(s, o, scope)
          PROVE  presented'[r] = presented[r] /\ pc[r] \in Holding
      BY <2>4, <3>2 DEF Authorize, Authenticate, Arrive, InsertCode
    <3>3. ASSUME NEW s \in Requests, NEW g \in Requests,
                 (\E ok \in BOOLEAN : ReadGrant(s, g, ok)) \/ LocateRevoked(s, g)
          PROVE  presented'[r] \in Requests /\ grant'[presented'[r]] \in GrantRow
      <4>1. CASE r = s
        <5>1. presented'[r] = g /\ grant[g] \in GrantRow
          BY <3>3, <4>1 DEF ReadGrant, LocateRevoked, Exists
        <5>. QED BY <2>1, <5>1
      <4>2. CASE r # s
        <5>1. presented'[r] = presented[r] /\ pc[r] \in Holding
          BY <2>4, <3>3, <4>2 DEF ReadGrant, LocateRevoked
        <5>. QED BY <2>2, <5>1
      <4>. QED BY <4>1, <4>2
    <3>4. ASSUME NEW s \in Requests,
                 \/ FindNothing(s) \/ RevokeFamily(s) \/ CheckRole(s)
                 \/ RecordAccess(s) \/ MintRefresh(s) \/ Respond(s) \/ DenyJti(s)
                 \/ MarkRevoked(s) \/ Crash(s)
          PROVE  presented'[r] = presented[r] /\ pc[r] \in Holding
      BY <2>4, <3>4
         DEF FindNothing, RevokeFamily, CheckRole, RecordAccess, MintRefresh, Respond,
             DenyJti, MarkRevoked, Crash
    <3>5. ASSUME NEW s \in Requests, ConsumeCode(s) \/ RotateToken(s)
          PROVE  presented'[r] = presented[r] /\ pc[r] \in Holding
      BY <2>4, <3>5 DEF ConsumeCode, RotateToken, CompareAndSet
    <3>6. CASE \/ \E c \in Clients : SetClientStatus(c)
               \/ \E o \in Operators : SetRole(o)
               \/ Tick \/ UNCHANGED vars
      BY <3>1, <3>6 DEF SetClientStatus, SetRole, Tick, vars
    <3>. QED
      BY <2>2, <3>2, <3>3, <3>4, <3>5, <3>6 DEF Next, Handle
  <2>. QED BY <1>1, <2>3, <2>4
<1>. QED BY <1>1 DEF HoldsRow

(* The rows that were won stay inactive, and nobody wins one again. *)
LEMMA WonStep ==
  ASSUME TypeOK, HoldsRow, FreshRow, PlaceOfEndpoint, WonIsInactive, RedeemedByOne,
         [Next]_vars
  PROVE  WonIsInactive' /\ RedeemedByOne'
<1>1. ASSUME NEW r \in Requests, Won(r)'
      PROVE  ~Active(presented[r])'
  <2>1. presented[r] \in Requests /\ grant[presented[r]] \in GrantRow
    BY <1>1, WinStep DEF HoldsRow, Holding
  <2>2. CASE Won(r)
    <3>1. presented'[r] = presented[r]
      BY <1>1, WinStep
    <3>2. RowKept(presented[r])
      BY <2>1, RowStep
    <3>3. grant[presented[r]].status # "active"
      BY <2>1, <2>2, NoneIsNothing DEF WonIsInactive, Active, Exists
    <3>. QED BY <3>1, <3>2, <3>3 DEF Active, RowKept
  <2>3. CASE ~Won(r)
    <3>1. PICK status \in {"consumed", "rotated"} :
            grant' = [grant EXCEPT ![presented[r]].status = status]
      BY <1>1, <2>3, WinStep
    <3>2. grant'[presented[r]].status = status
      BY <2>1, <3>1 DEF TypeOK, GrantRow
    <3>. QED BY <1>1, <3>2, WinStep DEF Active
  <2>. QED BY <2>2, <2>3
<1>2. ASSUME NEW r \in Requests, NEW s \in Requests, Won(r)', Won(s)',
             presented'[r] = presented'[s], r # s
      PROVE  FALSE
  <2>1. presented[r] = presented[s]
    BY <1>2, WinStep
  <2>2. CASE Won(r) /\ Won(s)
    BY <1>2, <2>1, <2>2 DEF RedeemedByOne
  <2>3. CASE ~Won(r)
    <3>1. Won(s)
      BY <1>2, <2>3, WinStep DEF Won
    <3>. QED BY <1>2, <2>1, <2>3, <3>1, WinStep DEF WonIsInactive
  <2>4. CASE ~Won(s)
    <3>1. Won(r)
      BY <1>2, <2>4, WinStep DEF Won
    <3>. QED BY <1>2, <2>1, <2>4, <3>1, WinStep DEF WonIsInactive
  <2>. QED BY <2>2, <2>3, <2>4
<1>. QED BY <1>1, <1>2 DEF WonIsInactive, RedeemedByOne

--------------------------------------------------------------------------------
(* Every reachable state satisfies the strengthened invariant. *)
THEOREM Invariance == Spec => []IInv
<1>1. Init => IInv
  BY InitIInv
<1>2. IInv /\ [Next]_vars => IInv'
  BY TypeStep, HoldsRowStep, CallerStep, PlaceStep, FreshStep, WonStep DEF IInv
<1>. QED BY <1>1, <1>2, PTL DEF Spec

(* The state of the tables and of the handlers keeps its types. *)
THEOREM TypeCorrect == Spec => []TypeOK
<1>1. IInv => TypeOK
  BY DEF IInv
<1>. QED BY <1>1, Invariance, PTL

(* exchangeAuthorizationCode and exchangeRefreshToken: no two requests ever *)
(* receive tokens for the same code or refresh token.                       *)
THEOREM OneRedemption == Spec => []RedeemedByOne
<1>1. IInv => RedeemedByOne
  BY DEF IInv
<1>. QED BY <1>1, Invariance, PTL

--------------------------------------------------------------------------------
(* OAuthGrants implements OneTimeGrants. *)

(* A win is never undone. *)
LEMMA WonForever ==
  ASSUME TypeOK, [Next]_vars, NEW r \in Requests, Won(r)
  PROVE  Won(r)'
<1> USE DEF TypeOK, Won, Goto, Step, Issuing
<1>1. CASE pc'[r] = pc[r]
  BY <1>1
<1>2. ASSUME NEW s \in Requests,
             \/ \E c \in Clients : Authorize(s, c)
             \/ \E c \in Clients, ok \in BOOLEAN : Authenticate(s, c, ok)
             \/ \E o \in Operators, scope \in SUBSET Scopes : InsertCode(s, o, scope)
             \/ \E g \in Requests, ok \in BOOLEAN : ReadGrant(s, g, ok)
             \/ FindNothing(s)
             \/ \E g \in Requests : LocateRevoked(s, g)
      PROVE  Won(r)'
  BY <1>2 DEF Authorize, Authenticate, Arrive, InsertCode, ReadGrant, FindNothing,
              LocateRevoked
<1>3. ASSUME NEW s \in Requests,
             \/ ConsumeCode(s) \/ RotateToken(s) \/ RevokeFamily(s)
             \/ DenyJti(s) \/ MarkRevoked(s) \/ Crash(s)
      PROVE  Won(r)'
  BY <1>3 DEF ConsumeCode, RotateToken, CompareAndSet, RevokeFamily, DenyJti,
              MarkRevoked, Crash, Waiting
<1>5. ASSUME NEW s \in Requests,
             CheckRole(s) \/ RecordAccess(s) \/ MintRefresh(s) \/ Respond(s)
      PROVE  Won(r)'
  BY <1>5 DEF CheckRole, RecordAccess, MintRefresh, Respond
<1>4. CASE \/ \E c \in Clients : SetClientStatus(c)
           \/ \E o \in Operators : SetRole(o)
           \/ Tick \/ UNCHANGED vars
  BY <1>1, <1>4 DEF SetClientStatus, SetRole, Tick, vars
<1>. QED
  BY <1>2, <1>3, <1>4, <1>5 DEF Next, Handle

(* Only a won compare-and-set adds a redemption. *)
LEMMA RedemptionsKept ==
  ASSUME TypeOK, PlaceOfEndpoint, [Next]_vars,
         \A r \in Requests : Won(r)' => Won(r)
  PROVE  Redemptions' = Redemptions
<1>1. ASSUME NEW r \in Requests
      PROVE  /\ Won(r)' <=> Won(r)
             /\ Won(r)' => presented'[r] = presented[r]
  BY WonForever, WinStep
<1>. QED BY <1>1 DEF Redemptions

(* A request that stays before or after its win adds no redemption. *)
LEMMA NoWin ==
  ASSUME TypeOK, PlaceOfEndpoint, [Next]_vars,
         NEW s \in Requests, \A t \in Requests \ {s} : pc'[t] = pc[t],
         pc[s] # "checked"
  PROVE  Redemptions' = Redemptions
<1>1. ASSUME NEW r \in Requests, Won(r)' PROVE Won(r)
  BY <1>1, WinStep DEF Won
<1>. QED BY <1>1, RedemptionsKept

LEMMA InitPromise == Init => Promise!Init
BY DEF Init, Promise!Init, Minted, Live, Redemptions, Exists, Active, Won, Issuing

LEMMA PromiseStep ==
  ASSUME IInv, [Next]_vars
  PROVE  [Promise!Next]_Promise!vars
<1> USE GrantConstants, NoneIsNothing DEF IInv
<1>1. ASSUME NEW r \in Requests, NEW o \in Operators, NEW scope \in SUBSET Scopes,
             InsertCode(r, o, scope)
      PROVE  Promise!Grant(r)
  <2>1. Redemptions' = Redemptions
    BY <1>1, NoWin DEF InsertCode, Goto, TypeOK
  <2>2. r \notin Minted /\ r \notin Promise!Redeemers
    BY <1>1 DEF InsertCode, FreshRow, Minted, Exists, Redemptions, Won, Promise!Redeemers
  <2>3. NewRow(caller[r], o, scope, CodeTtl) \in GrantRow
    BY <1>1, NewRowType DEF InsertCode, KnowsCaller
  <2>4. Minted' = Minted \cup {r} /\ Live' = Live \cup {r}
    BY <1>1, <2>3 DEF InsertCode, Insert, Minted, Live, Active, Exists, TypeOK, NewRow
  <2>. QED BY <2>1, <2>2, <2>4 DEF Promise!Grant
<1>2. ASSUME NEW r \in Requests, MintRefresh(r)
      PROVE  Promise!Succeed(r)
  <2>1. Redemptions' = Redemptions
    BY <1>2, NoWin DEF MintRefresh, Step, Goto, TypeOK
  <2>2. presented[r] \in Requests /\ grant[presented[r]] \in GrantRow /\ caller[r] \in Clients
    BY <1>2 DEF MintRefresh, Step, HoldsRow, KnowsCaller, Holding, Issuing
  <2>3. r \in Promise!Redeemers
    <3>1. <<presented[r], r>> \in Redemptions
      BY <1>2, <2>2
         DEF MintRefresh, Step, Redemptions, Won, Issuing, PlaceOfEndpoint, TokenEndpoints
    <3>. QED BY <2>2, <3>1 DEF Promise!Redeemers
  <2>4. r \notin Minted
    BY <1>2 DEF MintRefresh, Step, FreshRow, Minted, Exists
  <2>5. NewRow(caller[r], grant[presented[r]].operator, EffectiveScope(r), RefreshTtl)
          \in GrantRow
    <3>1. EffectiveScope(r) \in SUBSET Scopes
      BY <2>2, EffectiveScopeType
    <3>2. grant[presented[r]].operator \in Operators
      BY <2>2 DEF GrantRow
    <3>. QED BY <2>2, <3>1, <3>2, NewRowType
  <2>6. Minted' = Minted \cup {r} /\ Live' = Live \cup {r}
    BY <1>2, <2>5 DEF MintRefresh, Insert, Minted, Live, Active, Exists, TypeOK, NewRow
  <2>. QED BY <2>1, <2>3, <2>4, <2>6 DEF Promise!Succeed
<1>3. ASSUME NEW r \in Requests, NEW status \in {"consumed", "rotated"},
             NEW lost \in {"failed", "replayed"},
             EndpointOf[r] \in TokenEndpoints,
             CompareAndSet(r, status, lost), Active(presented[r])
      PROVE  Promise!Redeem(presented[r], r) /\ presented[r] \in Requests
  <2> DEFINE g == presented[r]
  <2>1. g \in Requests /\ grant[g] \in GrantRow /\ pc[r] = "checked"
    BY <1>3 DEF CompareAndSet, HoldsRow, Holding
  <2>2. grant'[g].status = status /\ grant'[g] \in GrantRow
    BY <1>3, <2>1 DEF CompareAndSet, TypeOK, GrantRow
  <2>3. ASSUME NEW h \in Requests, h # g PROVE grant'[h] = grant[h]
    BY <1>3, <2>1, <2>3 DEF CompareAndSet, TypeOK
  <2>4. Minted' = Minted
    BY <2>1, <2>2, <2>3 DEF Minted, Exists
  <2>5. Live' = Live \ {g}
    BY <2>1, <2>2, <2>3 DEF Live, Active, Exists
  <2>6. g \in Live
    BY <1>3, <2>1 DEF Live
  <2>7. r \notin Minted /\ r \notin Promise!Redeemers
    BY <2>1 DEF FreshRow, Minted, Exists, Redemptions, Won, Issuing, Promise!Redeemers
  <2>8. Redemptions' = Redemptions \cup {<<g, r>>}
    <3>1. Won(r)' /\ ~Won(r) /\ presented' = presented
      BY <1>3, <2>1
         DEF CompareAndSet, Goto, TypeOK, Won, Issuing, TokenEndpoints, locals
    <3>2. \A s \in Requests \ {r} : Won(s)' <=> Won(s)
      BY <1>3, <2>1 DEF CompareAndSet, Goto, TypeOK, Won
    <3>. QED BY <2>1, <3>1, <3>2 DEF Redemptions
  <2>. QED BY <2>1, <2>4, <2>5, <2>6, <2>7, <2>8 DEF Promise!Redeem
<1>4. ASSUME NEW r \in Requests, NEW status, NEW lost \in {"failed", "replayed"},
             CompareAndSet(r, status, lost), ~Active(presented[r])
      PROVE  UNCHANGED Promise!vars
  <2>1. \A s \in Requests : Won(s)' => Won(s)
    BY <1>4 DEF CompareAndSet, Goto, TypeOK, Won, Issuing
  <2>2. Redemptions' = Redemptions
    BY <2>1, RedemptionsKept
  <2>. QED BY <1>4, <2>2 DEF CompareAndSet, Promise!vars, Minted, Live, Exists, Active
<1>5. ASSUME NEW r \in Requests, RevokeFamily(r) \/ MarkRevoked(r)
      PROVE  Promise!Withdraw
  <2>1. Redemptions' = Redemptions
    BY <1>5, NoWin DEF RevokeFamily, MarkRevoked, Step, Goto, TypeOK
  <2>2. ASSUME NEW g \in Requests
        PROVE  /\ grant[g] = None <=> grant'[g] = None
               /\ Active(g)' => Active(g)
    <3>1. CASE grant[g] \in GrantRow
      BY <3>1, RowStep DEF RowKept, Active, Exists
    <3>2. CASE grant[g] = None
      <4>1. CASE RevokeFamily(r)
        BY <3>2, <4>1 DEF RevokeFamily, RevokedFamily, Active, Exists
      <4>2. CASE MarkRevoked(r)
        <5>1. presented[r] \in Requests /\ grant[presented[r]] \in GrantRow
          BY <4>2 DEF MarkRevoked, Step, HoldsRow, Holding
        <5>. QED BY <3>2, <4>2, <5>1 DEF MarkRevoked, Active, Exists, TypeOK
      <4>. QED BY <1>5, <4>1, <4>2
    <3>. QED BY <3>1, <3>2 DEF TypeOK
  <2>3. Minted' = Minted /\ Live' \subseteq Live
    BY <2>2 DEF Minted, Live, Exists
  <2>. QED BY <2>1, <2>3 DEF Promise!Withdraw
<1>6. ASSUME NEW r \in Requests,
             \/ \E c \in Clients : Authorize(r, c)
             \/ \E c \in Clients, ok \in BOOLEAN : Authenticate(r, c, ok)
             \/ \E g \in Requests, ok \in BOOLEAN : ReadGrant(r, g, ok)
             \/ FindNothing(r)
             \/ \E g \in Requests : LocateRevoked(r, g)
             \/ CheckRole(r) \/ RecordAccess(r) \/ Respond(r) \/ DenyJti(r)
      PROVE  UNCHANGED Promise!vars
  <2>1. Redemptions' = Redemptions
    BY <1>6, NoWin
       DEF Authorize, Authenticate, Arrive, ReadGrant, FindNothing, LocateRevoked,
           CheckRole, RecordAccess, Respond, DenyJti, Step, Goto, TypeOK
  <2>2. UNCHANGED grant
    BY <1>6 DEF Authorize, Authenticate, ReadGrant, FindNothing, LocateRevoked,
                CheckRole, RecordAccess, Respond, DenyJti, rows
  <2>. QED BY <2>1, <2>2 DEF Promise!vars, Minted, Live, Exists, Active
<1>7. ASSUME NEW r \in Requests, Crash(r)
      PROVE  UNCHANGED Promise!vars
  <2>1. \A s \in Requests : Won(s)' => Won(s)
    BY <1>7 DEF Crash, Goto, TypeOK, Won, Issuing
  <2>2. Redemptions' = Redemptions
    BY <2>1, RedemptionsKept
  <2>. QED BY <1>7, <2>2 DEF Crash, rows, Promise!vars, Minted, Live, Exists, Active
<1>8. CASE \/ \E c \in Clients : SetClientStatus(c)
           \/ \E o \in Operators : SetRole(o)
           \/ Tick \/ UNCHANGED vars
  <2>1. UNCHANGED <<pc, presented, grant>>
    BY <1>8 DEF SetClientStatus, SetRole, Tick, vars, locals, rows
  <2>. QED
    BY <2>1 DEF Promise!vars, Minted, Live, Redemptions, Exists, Active, Won
<1>9. ASSUME NEW r \in Requests, ConsumeCode(r) \/ RotateToken(r)
      PROVE  [Promise!Next]_Promise!vars
  <2>1. PICK status \in {"consumed", "rotated"}, lost \in {"failed", "replayed"} :
          CompareAndSet(r, status, lost) /\ EndpointOf[r] \in TokenEndpoints
    BY <1>9 DEF ConsumeCode, RotateToken, TokenEndpoints
  <2>. QED BY <1>3, <1>4, <2>1 DEF Promise!Next
<1>. QED
  BY <1>1, <1>2, <1>5, <1>6, <1>7, <1>8, <1>9 DEF Next, Handle, Promise!Next

(* The handlers of oidc.service.ts, with all their interleavings, crashes    *)
(* and revocations, implement one-time grants.                               *)
THEOREM Refinement == Spec => KeepsPromise
<1>1. Init => Promise!Init
  BY InitPromise
<1>2. IInv /\ [Next]_vars => [Promise!Next]_Promise!vars
  BY PromiseStep
<1>. QED BY <1>1, <1>2, Invariance, PTL DEF Spec, KeepsPromise, Promise!Spec

(* The abstract specification delivers what it is stated for: a live grant  *)
(* is unredeemed, a grant is redeemed by one request and a request redeems  *)
(* one grant.                                                               *)
THEOREM PromiseIsOneTime ==
  Promise!Spec =>
    [](Promise!LiveIsUnredeemed /\ Promise!RedeemedOnce /\ Promise!OnePredecessor)
<1> DEFINE RedeemedExist == \A g, r \in Requests : <<g, r>> \in Redemptions => g \in Minted
           Inv == /\ Promise!TypeOK /\ RedeemedExist
                  /\ Promise!LiveIsUnredeemed
                  /\ Promise!RedeemedOnce
                  /\ Promise!OnePredecessor
<1> USE DEF Promise!TypeOK, Promise!LiveIsUnredeemed, Promise!Redeemed,
            Promise!RedeemedOnce, Promise!OnePredecessor
<1>1. Promise!Init => Inv
  BY DEF Promise!Init
<1>2. Inv /\ [Promise!Next]_Promise!vars => Inv'
  <2> SUFFICES ASSUME Inv, [Promise!Next]_Promise!vars PROVE Inv'
    OBVIOUS
  <2>1. ASSUME NEW g \in Requests, Promise!Grant(g) PROVE Inv'
    BY <2>1 DEF Promise!Grant
  <2>2. ASSUME NEW r \in Requests, Promise!Succeed(r) PROVE Inv'
    BY <2>2 DEF Promise!Succeed, Promise!Redeemers
  <2>3. ASSUME NEW g \in Requests, NEW r \in Requests, Promise!Redeem(g, r) PROVE Inv'
    <3>. USE <2>3 DEF Promise!Redeem, Promise!Redeemers
    <3>1. Promise!TypeOK'
      OBVIOUS
    <3>2. RedeemedExist'
      OBVIOUS
    <3>3. Promise!LiveIsUnredeemed'
      OBVIOUS
    <3>4. Promise!RedeemedOnce'
      OBVIOUS
    <3>5. Promise!OnePredecessor'
      OBVIOUS
    <3>. QED BY <3>1, <3>2, <3>3, <3>4, <3>5
  <2>4. CASE Promise!Withdraw
    BY <2>4 DEF Promise!Withdraw
  <2>5. CASE UNCHANGED Promise!vars
    BY <2>5 DEF Promise!vars
  <2>. QED BY <2>1, <2>2, <2>3, <2>4, <2>5 DEF Promise!Next
<1>. QED BY <1>1, <1>2, PTL DEF Promise!Spec

--------------------------------------------------------------------------------
(* Expiry. *)

(* Requests arrived in the past, and the row a request holds after its      *)
(* lookup had not expired when the request arrived.                         *)
ArrivedBefore == \A r \in Requests : startedAt[r] <= now

HeldInTime ==
  \A r \in Requests :
    pc[r] = "checked" \/ Won(r) => startedAt[r] <= grant[presented[r]].expiresAt

(* A request's arrival is recorded once, and time does not run backwards. *)
LEMMA ArrivalStep ==
  ASSUME TypeOK, [Next]_vars, NEW r \in Requests
  PROVE  /\ now' \in Nat /\ now <= now'
         /\ \/ startedAt'[r] = startedAt[r]
            \/ pc'[r] # "checked" /\ pc[r] = "idle" /\ startedAt'[r] = now
<1> USE GrantConstants DEF TypeOK, Goto, Step, world, locals
<1>1. ASSUME NEW s \in Requests,
             \/ \E c \in Clients : Authorize(s, c)
             \/ \E c \in Clients, ok \in BOOLEAN : Authenticate(s, c, ok)
      PROVE  /\ now' = now
             /\ \/ startedAt'[r] = startedAt[r]
                \/ pc'[r] # "checked" /\ pc[r] = "idle" /\ startedAt'[r] = now
  BY <1>1 DEF Authorize, Authenticate, Arrive
<1>2. ASSUME NEW s \in Requests, Handle(s) \/ Crash(s)
      PROVE  now' = now /\ startedAt' = startedAt
  BY <1>2
     DEF Handle, InsertCode, Insert, ReadGrant, FindNothing, LocateRevoked, ConsumeCode,
         RotateToken, CompareAndSet, RevokeFamily, CheckRole, RecordAccess, MintRefresh,
         Respond, DenyJti, MarkRevoked, Crash
<1>3. CASE \/ \E c \in Clients : SetClientStatus(c)
           \/ \E o \in Operators : SetRole(o)
           \/ UNCHANGED vars
  BY <1>3 DEF SetClientStatus, SetRole, vars
<1>4. CASE Tick
  BY <1>4 DEF Tick
<1>. QED BY <1>1, <1>2, <1>3, <1>4 DEF Next

(* A handler passes its checks only on a row that is good at that moment. *)
LEMMA CheckStep ==
  ASSUME TypeOK, [Next]_vars, NEW r \in Requests, pc'[r] = "checked"
  PROVE  \/ pc[r] = "checked" /\ presented'[r] = presented[r]
         \/ /\ pc[r] = "authenticated"
            /\ presented'[r] \in Requests
            /\ Redeemable(presented'[r], caller[r])
            /\ grant' = grant /\ now' = now
<1> USE DEF TypeOK, Goto, Step, locals, Issuing
<1>1. ASSUME NEW s \in Requests,
             \/ \E c \in Clients : Authorize(s, c)
             \/ \E c \in Clients, ok \in BOOLEAN : Authenticate(s, c, ok)
             \/ \E o \in Operators, scope \in SUBSET Scopes : InsertCode(s, o, scope)
             \/ FindNothing(s)
             \/ \E g \in Requests : LocateRevoked(s, g)
      PROVE  pc[r] = "checked" /\ presented'[r] = presented[r]
  BY <1>1 DEF Authorize, Authenticate, Arrive, InsertCode, FindNothing, LocateRevoked
<1>2. ASSUME NEW s \in Requests, NEW g \in Requests, NEW ok \in BOOLEAN,
             ReadGrant(s, g, ok), s # r
      PROVE  pc[r] = "checked" /\ presented'[r] = presented[r]
  BY <1>2 DEF ReadGrant
<1>3. ASSUME NEW g \in Requests, NEW ok \in BOOLEAN, ReadGrant(r, g, ok)
      PROVE  /\ pc[r] = "authenticated"
             /\ presented'[r] = g
             /\ Redeemable(g, caller[r])
             /\ grant' = grant /\ now' = now
  BY <1>3 DEF ReadGrant, world, rows
<1>4. ASSUME NEW s \in Requests,
             ConsumeCode(s) \/ RotateToken(s) \/ RevokeFamily(s) \/ CheckRole(s)
      PROVE  pc[r] = "checked" /\ presented'[r] = presented[r]
  BY <1>4 DEF ConsumeCode, RotateToken, CompareAndSet, RevokeFamily, CheckRole
<1>5. ASSUME NEW s \in Requests,
             \/ RecordAccess(s) \/ MintRefresh(s) \/ Respond(s) \/ DenyJti(s)
             \/ MarkRevoked(s) \/ Crash(s)
      PROVE  pc[r] = "checked" /\ presented'[r] = presented[r]
  BY <1>5 DEF RecordAccess, MintRefresh, Respond, DenyJti, MarkRevoked, Crash
<1>6. CASE \/ \E c \in Clients : SetClientStatus(c)
           \/ \E o \in Operators : SetRole(o)
           \/ Tick \/ UNCHANGED vars
  BY <1>6 DEF SetClientStatus, SetRole, Tick, vars
<1>. QED
  BY <1>1, <1>2, <1>3, <1>4, <1>5, <1>6 DEF Next, Handle

LEMMA HeldInTimeStep ==
  ASSUME IInv, ArrivedBefore, HeldInTime, [Next]_vars
  PROVE  ArrivedBefore' /\ HeldInTime'
<1> USE DEF IInv
<1>1. ArrivedBefore'
  BY ArrivalStep DEF ArrivedBefore, TypeOK
<1>2. ASSUME NEW r \in Requests, pc'[r] = "checked" \/ Won(r)'
      PROVE  startedAt'[r] <= grant'[presented'[r]].expiresAt
  <2>1. CASE pc[r] = "checked" \/ Won(r)
    <3>1. presented'[r] = presented[r]
      <4>1. CASE pc'[r] = "checked"
        BY <2>1, <4>1, CheckStep DEF Won, Issuing
      <4>2. CASE Won(r)'
        BY <4>2, WinStep
      <4>. QED BY <1>2, <4>1, <4>2
    <3>2. presented[r] \in Requests /\ grant[presented[r]] \in GrantRow
      BY <2>1 DEF HoldsRow, Holding
    <3>3. grant'[presented[r]].expiresAt = grant[presented[r]].expiresAt
      BY <3>2, RowStep DEF RowKept
    <3>4. startedAt'[r] = startedAt[r]
      BY <2>1, ArrivalStep DEF Won, Issuing
    <3>. QED BY <2>1, <3>1, <3>3, <3>4 DEF HeldInTime
  <2>2. CASE ~(pc[r] = "checked" \/ Won(r))
    <3>1. /\ pc[r] = "authenticated"
          /\ now <= grant[presented'[r]].expiresAt
          /\ presented'[r] \in Requests /\ grant[presented'[r]] \in GrantRow
          /\ grant' = grant
      BY <1>2, <2>2, WinStep, CheckStep DEF Redeemable, Active, Exists, TypeOK
    <3>2. startedAt'[r] = startedAt[r]
      BY <3>1, ArrivalStep
    <3>3. startedAt[r] \in Nat /\ now \in Nat /\ startedAt[r] <= now
          /\ grant[presented'[r]].expiresAt \in Nat
      BY <3>1 DEF ArrivedBefore, TypeOK, GrantRow
    <3>. QED BY <3>1, <3>2, <3>3
  <2>. QED BY <2>1, <2>2
<1>. QED BY <1>1, <1>2 DEF HeldInTime

(* No request wins a code or refresh token that had expired before the      *)
(* request arrived, although the compare-and-set does not check expiresAt.  *)
THEOREM NoLateRedemption == Spec => []ExpiredNeverRedeemed
<1>1. Init => ArrivedBefore /\ HeldInTime
  BY DEF Init, ArrivedBefore, HeldInTime, Won, Issuing
<1>2. IInv /\ ArrivedBefore /\ HeldInTime /\ [Next]_vars => (ArrivedBefore /\ HeldInTime)'
  BY HeldInTimeStep
<1>3. HeldInTime => ExpiredNeverRedeemed
  BY DEF HeldInTime, ExpiredNeverRedeemed
<1>. QED BY <1>1, <1>2, <1>3, Invariance, PTL DEF Spec

-------------------------------------------------------------------------------
(* What the tokens of a chain may do, and what revocation reaches.           *)

(* Nothing has been looked up yet. *)
Unlooked ==
  \A r \in Requests : pc[r] \in {"idle", "consented", "authenticated"} => presented[r] = None

(* A handler redeems grants of its caller only. *)
HeldByCaller ==
  \A r \in Requests :
    pc[r] = "checked" \/ Won(r) => caller[r] \in Clients /\ grant[presented[r]].client = caller[r]

(* Only a request that won a grant records an access token, and it records  *)
(* and mints no more than the grant and the client allow.                   *)
ChainFits ==
  \A r \in Requests :
    LET g == grant[presented[r]] IN
    /\ access[r] # None => Won(r) /\ access[r] \subseteq g.scope \cap AllowedScopes[g.client]
    /\ Exists(r) /\ ~IsCode(r) =>
         Won(r) /\ grant[r].client = g.client /\ grant[r].operator = g.operator /\ grant[r].scope \subseteq g.scope

(* The history has seen every role a request could meet. *)
SeesAdmins == \A r \in Requests : pc[r] \in Waiting => admins \subseteq adminsSeen[r]

(* Once cleared, a request has met the role its admin scope needs. *)
RoleMet ==
  \A r \in Requests :
    /\ pc[r] = "cleared" /\ AdminScope \in EffectiveScope(r) => grant[presented[r]].operator \in adminsSeen[r]
    /\ access[r] # None /\ AdminScope \in access[r] => grant[presented[r]].operator \in adminsSeen[r]

(* Who revoked a family, or a token, had found one of its rows. *)
FamilyKnown ==
  \A s \in Requests : pc[s] = "familyRevoked" => presented[s] \in Requests /\ grant[presented[s]] \in GrantRow

RevokedIsInactive ==
  \A s \in Requests :
    EndpointOf[s] = "revoke" /\ pc[s] = "done" /\ presented[s] # None =>
      presented[s] \in Requests /\ grant[presented[s]] \in GrantRow /\ ~Active(presented[s])

CInv == Unlooked /\ HeldByCaller /\ ChainFits /\ SeesAdmins /\ RoleMet /\ FamilyKnown /\ RevokedIsInactive
GInv == IInv /\ CInv /\ SurvivorsAreNewer

-------------------------------------------------------------------------------
(* A step is a step of one request, or of none.                              *)

Untouched(r) ==
  /\ pc'[r] = pc[r] /\ caller'[r] = caller[r] /\ presented'[r] = presented[r]
  /\ access'[r] = access[r] /\ revokedBefore'[r] = revokedBefore[r]

Own(r) ==
  \/ \E c \in Clients : Authorize(r, c)
  \/ \E c \in Clients, ok \in BOOLEAN : Authenticate(r, c, ok)
  \/ Handle(r) \/ Crash(r)

LEMMA RequestStep ==
  ASSUME TypeOK, [Next]_vars, NEW r \in Requests
  PROVE  Untouched(r) \/ Own(r)
<1> USE DEF TypeOK, Untouched, Goto, Step, locals, rows, records
<1>1. ASSUME NEW s \in Requests, s # r,
             \/ \E c \in Clients : Authorize(s, c)
             \/ \E c \in Clients, ok \in BOOLEAN : Authenticate(s, c, ok)
             \/ \E o \in Operators, scope \in SUBSET Scopes : InsertCode(s, o, scope)
      PROVE  Untouched(r)
  BY <1>1 DEF Authorize, Authenticate, Arrive, InsertCode, Insert
<1>2. ASSUME NEW s \in Requests, s # r,
             \/ \E g \in Requests, ok \in BOOLEAN : ReadGrant(s, g, ok)
             \/ FindNothing(s)
             \/ \E g \in Requests : LocateRevoked(s, g)
      PROVE  Untouched(r)
  BY <1>2 DEF ReadGrant, FindNothing, LocateRevoked
<1>3. ASSUME NEW s \in Requests, s # r, ConsumeCode(s) \/ RotateToken(s) \/ RevokeFamily(s) \/ CheckRole(s)
      PROVE  Untouched(r)
  BY <1>3 DEF ConsumeCode, RotateToken, CompareAndSet, RevokeFamily, CheckRole
<1>4. ASSUME NEW s \in Requests, s # r, RecordAccess(s) \/ MintRefresh(s) \/ Respond(s)
      PROVE  Untouched(r)
  BY <1>4 DEF RecordAccess, MintRefresh, Insert, Respond
<1>5. ASSUME NEW s \in Requests, s # r, DenyJti(s) \/ MarkRevoked(s) \/ Crash(s)
      PROVE  Untouched(r)
  BY <1>5 DEF DenyJti, MarkRevoked, Crash
<1>6. CASE \/ \E c \in Clients : SetClientStatus(c)
           \/ \E o \in Operators : SetRole(o)
           \/ Tick \/ UNCHANGED vars
  BY <1>6 DEF SetClientStatus, SetRole, Tick, vars
<1>7. ASSUME NEW s \in Requests, s # r, Handle(s) \/ Crash(s) PROVE Untouched(r)
  BY <1>2, <1>3, <1>4, <1>5, <1>7, <1>1 DEF Handle
<1>8. CASE Next
  <2>1. CASE \E s \in Requests : Own(s)
    BY <1>1, <1>7, <2>1 DEF Own
  <2>2. CASE ~\E s \in Requests : Own(s)
    BY <1>6, <1>8, <2>2 DEF Own, Next
  <2>. QED BY <2>1, <2>2
<1>. QED BY <1>6, <1>8

(* What a request redeems, for whom, and what it issued, is settled early.   *)
LEMMA OwnKeeps ==
  ASSUME TypeOK, NEW r \in Requests, Own(r)
  PROVE  /\ caller'[r] = caller[r] \/ pc[r] = "idle"
         /\ presented'[r] = presented[r] \/ pc[r] = "authenticated"
         /\ access'[r] = access[r] \/ RecordAccess(r)
         /\ revokedBefore'[r] = revokedBefore[r] \/ MintRefresh(r) \/ pc[r] = "consented"
<1> USE DEF TypeOK, Goto, Step, locals, rows, records
<1>1. CASE \/ \E c \in Clients : Authorize(r, c)
           \/ \E c \in Clients, ok \in BOOLEAN : Authenticate(r, c, ok)
           \/ \E o \in Operators, scope \in SUBSET Scopes : InsertCode(r, o, scope)
  BY <1>1 DEF Authorize, Authenticate, Arrive, InsertCode, Insert
<1>2. CASE \/ \E g \in Requests, ok \in BOOLEAN : ReadGrant(r, g, ok)
           \/ FindNothing(r)
           \/ \E g \in Requests : LocateRevoked(r, g)
  BY <1>2 DEF ReadGrant, FindNothing, LocateRevoked
<1>3. CASE ConsumeCode(r) \/ RotateToken(r) \/ RevokeFamily(r) \/ CheckRole(r) \/ RecordAccess(r)
  BY <1>3 DEF ConsumeCode, RotateToken, CompareAndSet, RevokeFamily, CheckRole, RecordAccess
<1>4. CASE MintRefresh(r) \/ Respond(r) \/ DenyJti(r) \/ MarkRevoked(r) \/ Crash(r)
  BY <1>4 DEF MintRefresh, Insert, Respond, DenyJti, MarkRevoked, Crash
<1>. QED BY <1>1, <1>2, <1>3, <1>4 DEF Own, Handle

(* A row appears by the insertion of its own request.                        *)
LEMMA RowBorn ==
  ASSUME IInv, [Next]_vars, NEW r \in Requests, grant[r] = None, grant'[r] # None
  PROVE  MintRefresh(r) \/ \E o \in Operators, scope \in SUBSET Scopes : InsertCode(r, o, scope)
<1> USE NoneIsNothing DEF TypeOK, IInv, Goto, Step, rows, records
<1>1. ASSUME NEW s \in Requests, s # r,
             MintRefresh(s) \/ \E o \in Operators, scope \in SUBSET Scopes : InsertCode(s, o, scope)
      PROVE  FALSE
  BY <1>1 DEF MintRefresh, InsertCode, Insert
<1>2. ASSUME NEW s \in Requests, ConsumeCode(s) \/ RotateToken(s) \/ MarkRevoked(s)
      PROVE  FALSE
  <2>1. grant[presented[s]] \in GrantRow
    BY <1>2 DEF ConsumeCode, RotateToken, CompareAndSet, MarkRevoked, HoldsRow, Holding
  <2>2. presented[s] # r
    BY <2>1
  <2>. QED BY <1>2, <2>2 DEF ConsumeCode, RotateToken, CompareAndSet, MarkRevoked
<1>3. ASSUME NEW s \in Requests, RevokeFamily(s) PROVE FALSE
  BY <1>3 DEF RevokeFamily, RevokedFamily, Active, Exists
<1>4. ASSUME grant' = grant PROVE FALSE
  BY <1>4
<1>5. ASSUME NEW s \in Requests,
             \/ \E c \in Clients : Authorize(s, c)
             \/ \E c \in Clients, ok \in BOOLEAN : Authenticate(s, c, ok)
             \/ \E g \in Requests, ok \in BOOLEAN : ReadGrant(s, g, ok)
             \/ FindNothing(s)
             \/ \E g \in Requests : LocateRevoked(s, g)
             \/ CheckRole(s) \/ RecordAccess(s) \/ Respond(s) \/ DenyJti(s) \/ Crash(s)
      PROVE  grant' = grant
  BY <1>5 DEF Authorize, Authenticate, ReadGrant, FindNothing, LocateRevoked, CheckRole, RecordAccess,
              Respond, DenyJti, Crash
<1>6. CASE \/ \E c \in Clients : SetClientStatus(c)
           \/ \E o \in Operators : SetRole(o)
           \/ Tick \/ UNCHANGED vars
  BY <1>4, <1>6 DEF SetClientStatus, SetRole, Tick, vars
<1>. QED BY <1>1, <1>2, <1>3, <1>4, <1>5, <1>6 DEF Next, Handle

-------------------------------------------------------------------------------
(* The parts of the invariant, one after the other.                          *)

LEMMA UnlookedStep ==
  ASSUME IInv, Unlooked, [Next]_vars
  PROVE  Unlooked'
<1> SUFFICES ASSUME NEW r \in Requests, pc'[r] \in {"idle", "consented", "authenticated"}
             PROVE  presented'[r] = None
  BY DEF Unlooked
<1> USE DEF TypeOK, IInv, Unlooked, Goto, Step, locals
<1>1. CASE Untouched(r)
  BY <1>1 DEF Untouched
<1>2. CASE \/ \E c \in Clients : Authorize(r, c)
           \/ \E c \in Clients, ok \in BOOLEAN : Authenticate(r, c, ok)
  BY <1>2 DEF Authorize, Authenticate, Arrive
<1>3. ASSUME Handle(r) \/ Crash(r) PROVE FALSE
  BY <1>3 DEF Handle, InsertCode, ReadGrant, FindNothing, LocateRevoked, ConsumeCode, RotateToken,
              CompareAndSet, RevokeFamily, CheckRole, RecordAccess, MintRefresh, Respond, DenyJti,
              MarkRevoked, Crash
<1>. QED BY <1>1, <1>2, <1>3, RequestStep DEF Own

(* What a request that has won, or is about to, holds stays as it was.       *)
LEMMA HeldKept ==
  ASSUME IInv, [Next]_vars, NEW r \in Requests, pc[r] = "checked" \/ Won(r), pc'[r] = "checked" \/ Won(r)'
  PROVE  /\ presented'[r] = presented[r] /\ caller'[r] = caller[r]
         /\ presented[r] \in Requests /\ RowKept(presented[r])
<1>1. pc[r] \notin {"idle", "authenticated"}
  BY DEF Won, Issuing
<1>2. presented'[r] = presented[r] /\ caller'[r] = caller[r]
  BY <1>1, RequestStep, OwnKeeps DEF IInv, Untouched
<1>3. presented[r] \in Requests /\ grant[presented[r]] \in GrantRow
  BY DEF IInv, HoldsRow, Holding
<1>. QED BY <1>2, <1>3, RowStep DEF IInv

LEMMA HeldStep ==
  ASSUME IInv, HeldByCaller, [Next]_vars
  PROVE  HeldByCaller'
<1> SUFFICES ASSUME NEW r \in Requests, pc'[r] = "checked" \/ Won(r)'
             PROVE  caller'[r] \in Clients /\ grant'[presented'[r]].client = caller'[r]
  BY DEF HeldByCaller
<1>1. CASE pc[r] = "checked" \/ Won(r)
  BY <1>1, HeldKept DEF HeldByCaller, RowKept
<1>2. CASE ~(pc[r] = "checked" \/ Won(r))
  <2>1. pc[r] = "authenticated" /\ Redeemable(presented'[r], caller[r]) /\ grant' = grant
    BY <1>2, WinStep, CheckStep DEF IInv
  <2>2. caller'[r] = caller[r]
    BY <2>1, RequestStep, OwnKeeps DEF IInv, Untouched
  <2>. QED BY <2>1, <2>2 DEF Redeemable, IInv, KnowsCaller
<1>. QED BY <1>1, <1>2

LEMMA AccessStep ==
  ASSUME IInv, HeldByCaller, ChainFits, [Next]_vars, NEW r \in Requests, access'[r] # None
  PROVE  Won(r)' /\ access'[r] \subseteq grant'[presented'[r]].scope \cap AllowedScopes[grant'[presented'[r]].client]
<1>1. CASE access'[r] = access[r]
  <2>1. Won(r) /\ Won(r)'
    BY <1>1, WonForever DEF ChainFits, IInv
  <2>. QED BY <1>1, <2>1, HeldKept DEF ChainFits, RowKept
<1>2. CASE RecordAccess(r)
  <2>1. /\ access'[r] = EffectiveScope(r) /\ grant' = grant /\ presented' = presented
        /\ pc[r] = "cleared" /\ pc'[r] = "recorded"
    BY <1>2 DEF RecordAccess, Step, Goto, locals, IInv, TypeOK
  <2>2. Won(r)
    BY <2>1 DEF IInv, PlaceOfEndpoint, TokenEndpoints, Won, Issuing
  <2>3. Won(r)'
    BY <2>2, WonForever DEF IInv
  <2>. QED BY <2>1, <2>2, <2>3 DEF EffectiveScope, HeldByCaller
<1>. QED BY <1>1, <1>2, RequestStep, OwnKeeps DEF IInv, Untouched

LEMMA MintStep ==
  ASSUME IInv, HeldByCaller, ChainFits, [Next]_vars, NEW r \in Requests, Exists(r)', ~IsCode(r)
  PROVE  /\ Won(r)' /\ grant'[r].client = grant'[presented'[r]].client
         /\ grant'[r].operator = grant'[presented'[r]].operator /\ grant'[r].scope \subseteq grant'[presented'[r]].scope
<1>1. CASE Exists(r)
  <2>1. Won(r) /\ Won(r)'
    BY <1>1, WonForever DEF ChainFits, IInv
  <2>2. RowKept(r)
    BY <1>1, RowStep DEF Exists, IInv, TypeOK
  <2>. QED BY <1>1, <2>1, <2>2, HeldKept DEF ChainFits, RowKept
<1>2. CASE ~Exists(r)
  <2>1. MintRefresh(r)
    BY <1>2, RowBorn DEF Exists, InsertCode, IsCode
  <2>2. /\ grant' = [grant EXCEPT ![r] = NewRow(caller[r], grant[presented[r]].operator, EffectiveScope(r), RefreshTtl)]
        /\ pc[r] = "recorded" /\ presented' = presented
    BY <2>1 DEF MintRefresh, Step, Insert, locals
  <2>3. Won(r)
    BY <2>2 DEF IInv, PlaceOfEndpoint, TokenEndpoints, Won, Issuing
  <2>4. Won(r)'
    BY <2>3, WonForever DEF IInv
  <2>5. presented[r] # r /\ presented[r] \in Requests
    BY <1>2, <2>3, NoneIsNothing DEF IInv, HoldsRow, Exists
  <2>6. grant'[r] = NewRow(caller[r], grant[presented[r]].operator, EffectiveScope(r), RefreshTtl)
        /\ grant'[presented[r]] = grant[presented[r]]
    BY <2>2, <2>5 DEF IInv, TypeOK
  <2>7. grant'[r].client = caller[r] /\ grant'[r].operator = grant[presented[r]].operator /\ grant'[r].scope = EffectiveScope(r)
    BY <2>6 DEF NewRow
  <2>. QED BY <2>2, <2>3, <2>4, <2>6, <2>7 DEF HeldByCaller, EffectiveScope
<1>. QED BY <1>1, <1>2

LEMMA ChainStep ==
  ASSUME IInv, HeldByCaller, ChainFits, [Next]_vars
  PROVE  ChainFits'
BY AccessStep, MintStep DEF ChainFits, IsCode, Exists

(* The history of a request gains whoever becomes an administrator.          *)
LEMMA AdminsStep ==
  ASSUME IInv, [Next]_vars, NEW r \in Requests
  PROVE  \/ admins' = admins /\ adminsSeen'[r] = adminsSeen[r]
         \/ pc[r] = "idle" /\ admins' = admins /\ adminsSeen'[r] = admins
         \/ /\ adminsSeen[r] \subseteq adminsSeen'[r] /\ pc'[r] = pc[r]
            /\ pc[r] \in Waiting => admins' \subseteq adminsSeen'[r]
<1> USE DEF IInv, TypeOK, world, locals
<1>1. ASSUME NEW s \in Requests,
             \/ \E c \in Clients : Authorize(s, c)
             \/ \E c \in Clients, ok \in BOOLEAN : Authenticate(s, c, ok)
      PROVE  admins' = admins /\ (adminsSeen'[r] = adminsSeen[r] \/ (pc[r] = "idle" /\ adminsSeen'[r] = admins))
  BY <1>1 DEF Authorize, Authenticate, Arrive
<1>2. ASSUME NEW s \in Requests, Handle(s) \/ Crash(s)
      PROVE  admins' = admins /\ adminsSeen' = adminsSeen
  BY <1>2
     DEF Handle, InsertCode, Insert, ReadGrant, FindNothing, LocateRevoked, ConsumeCode, RotateToken,
         CompareAndSet, RevokeFamily, CheckRole, RecordAccess, MintRefresh, Respond, DenyJti, MarkRevoked, Crash
<1>3. ASSUME NEW o \in Operators, SetRole(o)
      PROVE  /\ adminsSeen[r] \subseteq adminsSeen'[r] /\ pc'[r] = pc[r]
             /\ pc[r] \in Waiting => admins' \subseteq adminsSeen'[r]
  BY <1>3 DEF SetRole
<1>4. CASE (\E c \in Clients : SetClientStatus(c)) \/ Tick \/ UNCHANGED vars
  BY <1>4 DEF SetClientStatus, Tick, vars
<1>. QED BY <1>1, <1>2, <1>3, <1>4 DEF Next

(* A request that waits has arrived, and arrives once.                       *)
LEMMA WaitsOn ==
  ASSUME IInv, [Next]_vars, NEW r \in Requests, pc'[r] \in Waiting
  PROVE  pc[r] \in Waiting \/ (pc[r] = "idle" /\ Arrive(r))
<1> USE DEF IInv, TypeOK, Goto, Step, Waiting, Issuing, Ended
<1>1. CASE Untouched(r)
  BY <1>1 DEF Untouched
<1>2. CASE \/ \E c \in Clients : Authorize(r, c)
           \/ \E c \in Clients, ok \in BOOLEAN : Authenticate(r, c, ok)
  BY <1>2 DEF Authorize, Authenticate, Arrive
<1>3. CASE Handle(r) \/ Crash(r)
  BY <1>3 DEF Handle, InsertCode, ReadGrant, FindNothing, LocateRevoked, ConsumeCode, RotateToken,
              CompareAndSet, RevokeFamily, CheckRole, RecordAccess, MintRefresh, Respond, DenyJti,
              MarkRevoked, Crash
<1>. QED BY <1>1, <1>2, <1>3, RequestStep DEF Own

LEMMA SeesStep ==
  ASSUME IInv, SeesAdmins, [Next]_vars
  PROVE  SeesAdmins'
<1> SUFFICES ASSUME NEW r \in Requests, pc'[r] \in Waiting PROVE admins' \subseteq adminsSeen'[r]
  BY DEF SeesAdmins
<1>1. CASE pc[r] \in Waiting
  <2>1. pc[r] # "idle"
    BY <1>1 DEF Waiting, Issuing
  <2>. QED BY <1>1, <2>1, AdminsStep DEF SeesAdmins
<1>2. CASE pc[r] = "idle" /\ Arrive(r)
  <2>1. adminsSeen'[r] = admins
    BY <1>2 DEF Arrive, IInv, TypeOK
  <2>2. pc'[r] # pc[r]
    BY <1>2 DEF Waiting, Issuing
  <2>. QED BY <2>1, <2>2, AdminsStep
<1>. QED BY <1>1, <1>2, WaitsOn

(* Whoever was seen stays seen, once the request has arrived.                *)
LEMMA SeenStays ==
  ASSUME IInv, [Next]_vars, NEW r \in Requests, pc[r] # "idle"
  PROVE  adminsSeen[r] \subseteq adminsSeen'[r]
BY AdminsStep

LEMMA RoleStep ==
  ASSUME IInv, HeldByCaller, ChainFits, SeesAdmins, RoleMet, [Next]_vars
  PROVE  RoleMet'
<1>1. ASSUME NEW r \in Requests, pc'[r] = "cleared", AdminScope \in EffectiveScope(r)'
      PROVE  grant'[presented'[r]].operator \in adminsSeen'[r]
  <2>1. CASE pc[r] = "cleared"
    <3>1. Won(r) /\ Won(r)'
      BY <2>1, WonForever DEF IInv, PlaceOfEndpoint, TokenEndpoints, Won, Issuing
    <3>2. presented'[r] = presented[r] /\ caller'[r] = caller[r] /\ RowKept(presented[r])
      BY <3>1, HeldKept
    <3>3. AdminScope \in EffectiveScope(r)
      BY <1>1, <3>2 DEF EffectiveScope, RowKept
    <3>. QED BY <2>1, <3>2, <3>3, SeenStays DEF RoleMet, RowKept
  <2>2. CASE pc[r] # "cleared"
    <3>1. CheckRole(r)
      <4>1. ~Untouched(r)
        BY <1>1, <2>2 DEF Untouched
      <4>. QED
        BY <1>1, <2>2, <4>1, RequestStep
           DEF Own, Handle, Authorize, Authenticate, Arrive, InsertCode, ReadGrant, FindNothing, LocateRevoked,
               ConsumeCode, RotateToken, CompareAndSet, RevokeFamily, RecordAccess, MintRefresh, Respond, DenyJti,
               MarkRevoked, Crash, Goto, Step, IInv, TypeOK
    <3>2. /\ pc[r] = "redeemed" /\ presented' = presented /\ grant' = grant /\ caller' = caller
          /\ adminsSeen' = adminsSeen
          /\ AdminScope \in EffectiveScope(r) => grant[presented[r]].operator \in admins
      BY <1>1, <3>1 DEF CheckRole, Goto, locals, rows, IInv, TypeOK
    <3>3. admins \subseteq adminsSeen[r]
      BY <3>2 DEF SeesAdmins, Waiting, Issuing
    <3>. QED BY <1>1, <3>2, <3>3 DEF EffectiveScope
  <2>. QED BY <2>1, <2>2
<1>2. ASSUME NEW r \in Requests, access'[r] # None, AdminScope \in access'[r]
      PROVE  grant'[presented'[r]].operator \in adminsSeen'[r]
  <2>1. CASE access'[r] = access[r]
    <3>1. Won(r) /\ Won(r)'
      BY <1>2, <2>1, WonForever DEF ChainFits, IInv
    <3>2. presented'[r] = presented[r] /\ RowKept(presented[r])
      BY <3>1, HeldKept
    <3>3. pc[r] # "idle"
      BY <3>1 DEF Won, Issuing
    <3>. QED BY <1>2, <2>1, <3>2, <3>3, SeenStays DEF RoleMet, RowKept
  <2>2. CASE RecordAccess(r)
    <3>1. /\ access'[r] = EffectiveScope(r) /\ grant' = grant /\ presented' = presented
          /\ pc[r] = "cleared" /\ adminsSeen' = adminsSeen
      BY <2>2 DEF RecordAccess, Step, Goto, locals, IInv, TypeOK
    <3>. QED BY <1>2, <3>1 DEF RoleMet
  <2>. QED BY <2>1, <2>2, RequestStep, OwnKeeps DEF IInv, Untouched
<1>. QED BY <1>1, <1>2 DEF RoleMet

(* A handler that ends after the compare-and-set was lost had read a row.    *)
LEMMA FamilyStep ==
  ASSUME IInv, FamilyKnown, [Next]_vars, NEW s \in Requests, pc'[s] = "familyRevoked"
  PROVE  /\ pc[s] = "familyRevoked" \/ RevokeFamily(s)
         /\ presented'[s] = presented[s] /\ presented[s] \in Requests /\ RowKept(presented[s])
<1> USE DEF IInv, TypeOK, Goto, Step, locals
<1>1. CASE Untouched(s)
  BY <1>1, RowStep DEF Untouched, FamilyKnown
<1>2. CASE ~Untouched(s)
  <2>1. RevokeFamily(s)
    BY <1>2, RequestStep
       DEF Own, Handle, Authorize, Authenticate, Arrive, InsertCode, ReadGrant, FindNothing, LocateRevoked,
           ConsumeCode, RotateToken, CompareAndSet, CheckRole, RecordAccess, MintRefresh, Respond, DenyJti,
           MarkRevoked, Crash
  <2>2. presented' = presented /\ presented[s] \in Requests /\ grant[presented[s]] \in GrantRow
    BY <2>1 DEF RevokeFamily, HoldsRow, Holding
  <2>. QED BY <2>1, <2>2, RowStep
<1>. QED BY <1>1, <1>2

LEMMA FamilyKnownStep ==
  ASSUME IInv, FamilyKnown, [Next]_vars
  PROVE  FamilyKnown'
BY FamilyStep DEF FamilyKnown, RowKept

LEMMA RevokedStep ==
  ASSUME IInv, Unlooked, RevokedIsInactive, [Next]_vars
  PROVE  RevokedIsInactive'
<1> SUFFICES ASSUME NEW s \in Requests, EndpointOf[s] = "revoke", pc'[s] = "done", presented'[s] # None
             PROVE  presented'[s] \in Requests /\ grant'[presented'[s]] \in GrantRow /\ ~Active(presented[s])'
  BY DEF RevokedIsInactive
<1>1. CASE Untouched(s)
  <2>1. presented[s] \in Requests /\ grant[presented[s]] \in GrantRow /\ ~Active(presented[s])
    BY <1>1 DEF Untouched, RevokedIsInactive
  <2>2. grant[presented[s]].status # "active"
    BY <2>1, NoneIsNothing DEF Active, Exists
  <2>. QED BY <1>1, <2>1, <2>2, RowStep DEF Untouched, IInv, RowKept, Active
<1>2. CASE MarkRevoked(s)
  <2>1. pc[s] = "listed" /\ presented' = presented /\ grant' = [grant EXCEPT ![presented[s]].status = "revoked"]
    BY <1>2 DEF MarkRevoked, Step, locals
  <2>2. presented[s] \in Requests /\ grant[presented[s]] \in GrantRow
    BY <2>1 DEF IInv, HoldsRow, Holding
  <2>3. grant'[presented[s]].status = "revoked"
    BY <2>1, <2>2 DEF IInv, TypeOK, GrantRow
  <2>4. grant'[presented[s]] \in GrantRow
    BY <2>2, RowStep DEF IInv, RowKept
  <2>. QED BY <2>1, <2>2, <2>3, <2>4 DEF Active
<1>3. CASE FindNothing(s)
  BY <1>3 DEF FindNothing, locals, Unlooked
<1>4. ASSUME ~Untouched(s), ~MarkRevoked(s), ~FindNothing(s) PROVE FALSE
  BY <1>4, RequestStep, GrantConstants
     DEF Own, Handle, Authorize, Authenticate, Arrive, InsertCode, ReadGrant, LocateRevoked, ConsumeCode, RotateToken,
         CompareAndSet, RevokeFamily, CheckRole, RecordAccess, MintRefresh, Respond, DenyJti, Crash, Goto, Step,
         IInv, TypeOK, PlaceOfEndpoint, TokenEndpoints, Issuing
<1>. QED BY <1>1, <1>2, <1>3, <1>4

LEMMA SurvivorStep ==
  ASSUME IInv, FamilyKnown, SurvivorsAreNewer, [Next]_vars
  PROVE  SurvivorsAreNewer'
<1> SUFFICES ASSUME NEW g \in Requests, NEW s \in Requests, Active(g)', ~IsCode(g), pc'[s] = "familyRevoked",
                    grant'[presented'[s]].operator = grant'[g].operator
             PROVE  s \in revokedBefore'[g]
  BY DEF SurvivorsAreNewer, IsCode
<1>1. /\ presented'[s] = presented[s] /\ presented[s] \in Requests
      /\ grant'[presented'[s]].operator = grant[presented[s]].operator
  BY FamilyStep DEF RowKept
<1>2. CASE pc[s] = "familyRevoked" /\ Exists(g)
  <2>1. RowKept(g)
    BY <1>2, RowStep DEF Exists, IInv, TypeOK
  <2>2. Active(g) /\ grant'[g].operator = grant[g].operator
    BY <1>2, <2>1 DEF RowKept, Active
  <2>3. pc[g] \in {"minted", "done", "aborted"}
    BY <1>2 DEF IInv, FreshRow, Exists
  <2>4. revokedBefore'[g] = revokedBefore[g]
    BY <2>3, RequestStep, OwnKeeps DEF IInv, Untouched, MintRefresh, Step
  <2>. QED BY <1>1, <1>2, <2>2, <2>4 DEF SurvivorsAreNewer
<1>3. CASE pc[s] = "familyRevoked" /\ ~Exists(g)
  <2>1. MintRefresh(g)
    BY <1>3, RowBorn DEF Exists, Active, InsertCode, IsCode
  <2>2. revokedBefore'[g] = FamilyRevocations
    BY <2>1 DEF MintRefresh, Insert, IInv, TypeOK
  <2>. QED BY <1>3, <2>2 DEF FamilyRevocations
<1>4. CASE RevokeFamily(s)
  <2>1. grant' = RevokedFamily(grant[presented[s]].operator)
    BY <1>4 DEF RevokeFamily
  <2>2. Active(g) /\ grant'[g].operator = grant[g].operator
    BY <2>1, NoneIsNothing DEF RevokedFamily, Active, Exists, IInv, TypeOK, GrantRow
  <2>3. grant'[g].status = "revoked"
    BY <1>1, <2>1, <2>2 DEF RevokedFamily, IInv, TypeOK, GrantRow
  <2>. QED BY <2>3 DEF Active
<1>. QED BY <1>2, <1>3, <1>4, FamilyStep

-------------------------------------------------------------------------------
LEMMA InitGInv == Init => GInv
<1> SUFFICES ASSUME Init PROVE GInv
  OBVIOUS
<1>. QED
  BY InitIInv
     DEF Init, GInv, CInv, Unlooked, HeldByCaller, ChainFits, SeesAdmins, RoleMet, FamilyKnown, RevokedIsInactive,
         SurvivorsAreNewer, Won, Issuing, Waiting, Exists, Active

(* oidc.service.ts: with IInv of OAuthGrantsProofs, the parts above are kept *)
(* by every statement of every handler, crash and administrator's change.    *)
THEOREM ChainInvariance == Spec => []GInv
<1>1. IInv /\ [Next]_vars => IInv'
  BY TypeStep, HoldsRowStep, CallerStep, PlaceStep, FreshStep, WonStep DEF IInv
<1>2. GInv /\ [Next]_vars => GInv'
  BY <1>1, UnlookedStep, HeldStep, ChainStep, SeesStep, RoleStep, FamilyKnownStep, RevokedStep, SurvivorStep
     DEF GInv, CInv
<1>. QED BY <1>2, InitGInv, PTL DEF Spec

(* issueStandardTokens: however long a chain of refreshes, whatever the      *)
(* client's or the operator's rows become, no token in it belongs to another *)
(* client or operator, or has a scope the grant before it had not.           *)
THEOREM NoWiderToken == Spec => []ChainNeverWidens
<1>1. GInv => ChainNeverWidens
  BY DEF GInv, CInv, ChainFits, ChainNeverWidens
<1>. QED BY <1>1, ChainInvariance, PTL

(* issueStandardTokens: no access token has the admin scope unless its       *)
(* operator held the role during the very request that issued it.            *)
THEOREM RoleForScope == Spec => []AdminScopeNeedsRole
<1>1. GInv => AdminScopeNeedsRole
  BY DEF GInv, CInv, RoleMet, AdminScopeNeedsRole
<1>. QED BY <1>1, ChainInvariance, PTL

(* revokeRefreshTokenFamily: whatever rotations run beside it, a token of    *)
(* the operator that is still active was inserted after the revocation.      *)
THEOREM FamilyReached == Spec => []SurvivorsAreNewer
<1>1. GInv => SurvivorsAreNewer
  BY DEF GInv
<1>. QED BY <1>1, ChainInvariance, PTL

(* revokeToken: once it has answered for a refresh token, no request wins    *)
(* that token, not even one that had read it as active.                      *)
THEOREM RevokedForGood == Spec => RevokedNeverRedeemed
<1> DEFINE Late ==
      \A r, s \in Requests :
        /\ EndpointOf[s] = "revoke" /\ pc[s] = "done" /\ presented[s] \in denylist
        /\ ~Won(r) /\ Won(r)'
        => presented'[r] # presented[s]
<1>1. GInv /\ [Next]_vars => [Late]_vars
  <2> SUFFICES ASSUME GInv, [Next]_vars PROVE Late
    OBVIOUS
  <2> SUFFICES ASSUME NEW r \in Requests, NEW s \in Requests, EndpointOf[s] = "revoke", pc[s] = "done",
                      presented[s] \in denylist, ~Won(r), Won(r)'
               PROVE  presented'[r] # presented[s]
    OBVIOUS
  <2>1. presented'[r] = presented[r] /\ Active(presented[r])
    BY WinStep DEF GInv, IInv
  <2>2. presented[s] # None
    BY NoneIsNothing DEF GInv, IInv, TypeOK
  <2>3. ~Active(presented[s])
    BY <2>2 DEF GInv, CInv, RevokedIsInactive
  <2>. QED BY <2>1, <2>3
<1>. QED BY <1>1, ChainInvariance, PTL DEF Spec, RevokedNeverRedeemed
================================================================================
