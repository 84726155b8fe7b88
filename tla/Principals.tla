------------------------------- MODULE Principals -------------------------------
(***************************************************************************)
(* The principals of AuthAny, applications and agents, and the secrets and  *)
(* caller credentials they authenticate with                                *)
(* (server/src/modules/admin/applications, agents, caller-credentials and   *)
(* runtimes), against the endpoints that compare them.                      *)
(*                                                                         *)
(* Every administrator's call and every request is a process.  A call reads *)
(* the principal first and writes without looking again, so calls on one    *)
(* principal interleave between the two.                                    *)
(***************************************************************************)
EXTENDS FiniteSets

CONSTANTS
  Applications, Agents,
  AdminApp,     \* the protected application of the console, authany-admin-web
  Runtimes,
  RuntimeOf,    \* the agent a runtime is registered for
  Credentials,  \* secrets of applications and caller credentials of agents
  OwnerOf,      \* the principal a credential is created for
  BoundTo,      \* the runtime it is created for, None without one
  Calls,        \* calls of administrators
  Requests,     \* requests that authenticate with a credential
  None          \* no principal, credential or runtime

Principals == Applications \cup Agents

ASSUME PrincipalConstants ==
  /\ Applications \cap Agents = {}
  /\ Calls \cap Requests = {}
  /\ RuntimeOf \in [Runtimes -> Agents]
  /\ OwnerOf \in [Credentials -> Principals]
  /\ BoundTo \in [Credentials -> Runtimes \cup {None}]
  /\ \A c \in Credentials :
       BoundTo[c] # None => OwnerOf[c] \in Agents /\ RuntimeOf[BoundTo[c]] = OwnerOf[c]
  /\ None \notin Principals \cup Credentials \cup Runtimes

VARIABLES
  status,      \* of a principal, "absent" before it is created
  deleted,     \* the principals with a deletedAt
  runtime,     \* status of a runtime
  credential,  \* status of a credential
  at,          \* where each call and request stands
  subject,     \* the principal it is about
  op,          \* what a call does
  held,        \* the credential it creates or revokes, or a request presents
  former,      \* history: the secrets there were when a reset began
  alone,       \* history: the resets that no other write of the secrets overlapped or followed
  deadBefore,  \* history: the credentials answered as dead when a request arrived
  goneBefore   \* history: the principals answered as deleted when it arrived

rows == <<status, deleted, runtime, credential>>
locals == <<subject, op, held>>
arrivals == <<deadBefore, goneBefore>>
vars == <<rows, at, locals, former, alone, arrivals>>

(* No code tells "suspended" from "inactive". *)
Statuses == {"active", "inactive", "deleted"}
Operations == {"update", "delete", "reset", "issue", "revoke"}
CallStages == {"update", "delete", "reset", "newSecret", "runtime", "issue", "revoke", "audit"}
RequestStages == {"client", "application", "agent", "runtimeOf", "credentials"}
Ended == {"answered", "authenticated", "denied", "failed"}
Stages == {"idle"} \cup CallStages \cup RequestStages \cup Ended

ActiveOf(p) == {c \in Credentials : OwnerOf[c] = p /\ credential[c] = "active"}
FreshOf(p) == {c \in Credentials : OwnerOf[c] = p /\ credential[c] = "absent"}
IssuedTo(p) == {c \in Credentials : OwnerOf[c] = p /\ credential[c] # "absent"}

--------------------------------------------------------------------------------
(* Plausible bugs, one for each property; no action uses them. *)

(* The status alone decides whether a principal may authenticate. *)
UsableByStatus(p) == status[p] = "active"

(* A reset revokes the secret that is in use and forgets older ones. *)
FirstOf(p) == IF ActiveOf(p) = {} THEN {} ELSE {CHOOSE c \in ActiveOf(p) : TRUE}

(* A revoked credential loses its row. *)
ErasedBy(C) == [c \in Credentials |-> IF c \in C THEN None ELSE credential[c]]

--------------------------------------------------------------------------------
(* Rows and calls *)

(* findActiveRecord: "active" says no more than that there is no deletedAt. *)
Findable(p) == status[p] # "absent" /\ p \notin deleted

(* requireActiveAgent, and what the endpoints ask of a principal *)
Usable(p) == Findable(p) /\ status[p] = "active"

Protected(p) == p = AdminApp

RevokedBy(C) == [c \in Credentials |-> IF c \in C THEN "revoked" ELSE credential[c]]

(* updateMany of the active secrets of an application, in its reset *)
ResetOf(p) == ActiveOf(p)

Go(x, stage) == at' = [at EXCEPT ![x] = stage]
Busy(a) == at[a] \in CallStages

(* The resets of p are no longer alone with its secrets. *)
Disturbed(p) == {a \in alone : subject[a] = p}
Undisturbed(p) ==
  \A a \in Calls : ~ (Busy(a) /\ subject[a] = p /\ op[a] \in {"reset", "delete"})

(* What the answers that have been given promise. *)
Gone == {p \in Principals :
           \E a \in Calls : at[a] = "answered" /\ op[a] = "delete" /\ subject[a] = p}
Dead == {c \in Credentials :
           \E a \in Calls : /\ at[a] = "answered"
                            /\ \/ op[a] = "reset" /\ c \in former[a]
                               \/ op[a] = "revoke" /\ held[a] = c}

--------------------------------------------------------------------------------
(* Creation: one statement each, an application together with its secret. *)

CreateApplication(p, c) ==
  /\ status[p] = "absent" /\ c \in FreshOf(p)
  /\ status' = [status EXCEPT ![p] = "active"]
  /\ credential' = [credential EXCEPT ![c] = "active"]
  /\ UNCHANGED <<deleted, runtime, at, locals, former, alone, arrivals>>

CreateAgent(p) ==
  /\ status[p] = "absent"
  /\ status' = [status EXCEPT ![p] = "active"]
  /\ UNCHANGED <<deleted, runtime, credential, at, locals, former, alone, arrivals>>

(* RuntimesService.create asks only that the agent's row exists. *)
CreateRuntime(t) ==
  /\ runtime[t] = "absent" /\ status[RuntimeOf[t]] # "absent"
  /\ runtime' = [runtime EXCEPT ![t] = "active"]
  /\ UNCHANGED <<status, deleted, credential, at, locals, former, alone, arrivals>>

UpdateRuntime(t) ==
  /\ runtime[t] # "absent"
  /\ \E s \in {"active", "inactive"} : runtime' = [runtime EXCEPT ![t] = s]
  /\ UNCHANGED <<status, deleted, credential, at, locals, former, alone, arrivals>>

--------------------------------------------------------------------------------
(* An administrator's call *)

Start(a, p, operation, stage) ==
  /\ at[a] = "idle"
  /\ subject' = [subject EXCEPT ![a] = p]
  /\ op' = [op EXCEPT ![a] = operation]
  /\ Go(a, stage)
  /\ UNCHANGED <<rows, arrivals>>

BeginUpdate(a, p) ==
  /\ Findable(p)
  /\ Start(a, p, "update", "update")
  /\ UNCHANGED <<held, former, alone>>

(* The form may give any status, "deleted" too, or leave it as it is; the   *)
(* admin application stays active.                                          *)
Update(a) ==
  /\ at[a] = "update"
  /\ \/ UNCHANGED status
     \/ \E s \in Statuses :
          /\ Protected(subject[a]) => s = "active"
          /\ status' = [status EXCEPT ![subject[a]] = s]
  /\ Go(a, "audit")
  /\ UNCHANGED <<deleted, runtime, credential, locals, former, alone, arrivals>>

BeginDelete(a, p) ==
  /\ Findable(p) /\ ~ Protected(p)
  /\ Start(a, p, "delete", "delete")
  /\ alone' = alone \ Disturbed(p)
  /\ UNCHANGED <<held, former>>

(* One nested update. *)
Delete(a) ==
  /\ at[a] = "delete"
  /\ status' = [status EXCEPT ![subject[a]] = "deleted"]
  /\ deleted' = deleted \cup {subject[a]}
  /\ credential' = RevokedBy(ActiveOf(subject[a]))
  /\ Go(a, "audit")
  /\ UNCHANGED <<runtime, locals, former, alone, arrivals>>

(* rotateSecret: two statements, and no transaction around them. *)
BeginReset(a, p) ==
  /\ p \in Applications /\ Findable(p) /\ ~ Protected(p)
  /\ Start(a, p, "reset", "reset")
  /\ former' = [former EXCEPT ![a] = IssuedTo(p)]
  /\ alone' = (alone \ Disturbed(p)) \cup (IF Undisturbed(p) THEN {a} ELSE {})
  /\ UNCHANGED held

Reset(a) ==
  /\ at[a] = "reset"
  /\ credential' = RevokedBy(ResetOf(subject[a]))
  /\ Go(a, "newSecret")
  /\ UNCHANGED <<status, deleted, runtime, locals, former, alone, arrivals>>

Store(a, c) ==
  /\ credential' = [credential EXCEPT ![c] = "active"]
  /\ held' = [held EXCEPT ![a] = c]
  /\ Go(a, "audit")
  /\ UNCHANGED <<status, deleted, runtime, subject, op, former, alone, arrivals>>

NewSecret(a) ==
  /\ at[a] = "newSecret"
  /\ \E c \in FreshOf(subject[a]) : Store(a, c)

(* createForAgent *)
BeginIssue(a, p) ==
  /\ p \in Agents /\ Usable(p)
  /\ Start(a, p, "issue", "issue") \/ Start(a, p, "issue", "runtime")
  /\ UNCHANGED <<held, former, alone>>

(* The runtime of the credential is read, and fixed, before it is stored. *)
CheckRuntime(a) ==
  /\ at[a] = "runtime"
  /\ \E c \in FreshOf(subject[a]) :
       /\ BoundTo[c] # None /\ runtime[BoundTo[c]] = "active"
       /\ held' = [held EXCEPT ![a] = c]
  /\ Go(a, "issue")
  /\ UNCHANGED <<rows, subject, op, former, alone, arrivals>>

Issue(a) ==
  /\ at[a] = "issue"
  /\ \E c \in FreshOf(subject[a]) :
       /\ BoundTo[c] = IF held[a] = None THEN None ELSE BoundTo[held[a]]
       /\ Store(a, c)

(* CallerCredentialsService.revoke, of any row, revoked or not *)
BeginRevoke(a, c) ==
  /\ OwnerOf[c] \in Agents /\ credential[c] # "absent"
  /\ Start(a, OwnerOf[c], "revoke", "revoke")
  /\ held' = [held EXCEPT ![a] = c]
  /\ UNCHANGED <<former, alone>>

Revoke(a) ==
  /\ at[a] = "revoke"
  /\ credential' = RevokedBy({held[a]})
  /\ Go(a, "audit")
  /\ UNCHANGED <<status, deleted, runtime, locals, former, alone, arrivals>>

(* the audit event, then the answer *)
Answer(a) ==
  /\ at[a] = "audit"
  /\ Go(a, "answered")
  /\ UNCHANGED <<rows, locals, former, alone, arrivals>>

(* The database fails, the server dies, or a check that is left out here,   *)
(* such as the confirmation of the name, rejects the call.                  *)
Fail(a) ==
  /\ Busy(a)
  /\ Go(a, "failed")
  /\ UNCHANGED <<rows, locals, former, alone, arrivals>>

--------------------------------------------------------------------------------
(* A request; one that fails is one that takes no further step. *)

Present(u, c) ==
  /\ at[u] = "idle" /\ credential[c] # "absent"
  /\ subject' = [subject EXCEPT ![u] = OwnerOf[c]]
  /\ held' = [held EXCEPT ![u] = c]
  /\ deadBefore' = [deadBefore EXCEPT ![u] = Dead]
  /\ goneBefore' = [goneBefore EXCEPT ![u] = Gone]
  /\ IF OwnerOf[c] \in Applications THEN Go(u, "client") \/ Go(u, "application")
     ELSE Go(u, "agent")
  /\ UNCHANGED <<rows, op, former, alone>>

Decide(u, accepted) ==
  /\ Go(u, IF accepted THEN "authenticated" ELSE "denied")
  /\ UNCHANGED <<rows, locals, former, alone, arrivals>>

(* validateClientSecret compares the first active secret only, and nothing  *)
(* orders them.                                                             *)
AuthenticateClient(u) ==
  /\ at[u] = "client"
  /\ IF Usable(subject[u]) /\ ActiveOf(subject[u]) # {}
       THEN \E first \in ActiveOf(subject[u]) : Decide(u, first = held[u])
       ELSE Decide(u, FALSE)

(* issueApplication compares all of them. *)
AuthenticateApplication(u) ==
  /\ at[u] = "application"
  /\ Decide(u, Usable(subject[u]) /\ held[u] \in ActiveOf(subject[u]))

(* authenticateAgentSecret *)
FindAgent(u) ==
  /\ at[u] = "agent"
  /\ Go(u, IF ~ Usable(subject[u]) THEN "denied"
           ELSE IF BoundTo[held[u]] = None THEN "credentials" ELSE "runtimeOf")
  /\ UNCHANGED <<rows, locals, former, alone, arrivals>>

FindRuntime(u) ==
  /\ at[u] = "runtimeOf"
  /\ Go(u, IF runtime[BoundTo[held[u]]] = "active" THEN "credentials" ELSE "denied")
  /\ UNCHANGED <<rows, locals, former, alone, arrivals>>

CompareCredentials(u) ==
  /\ at[u] = "credentials"
  /\ Decide(u, held[u] \in ActiveOf(subject[u]))

--------------------------------------------------------------------------------
(* The seed script has created the application of the console. *)
Init ==
  /\ status = [p \in Principals |-> IF Protected(p) THEN "active" ELSE "absent"]
  /\ deleted = {}
  /\ runtime = [t \in Runtimes |-> "absent"]
  /\ credential = [c \in Credentials |->
                     IF Protected(OwnerOf[c]) THEN "active" ELSE "absent"]
  /\ at = [x \in Calls \cup Requests |-> "idle"]
  /\ subject = [x \in Calls \cup Requests |-> None]
  /\ op = [a \in Calls |-> None]
  /\ held = [x \in Calls \cup Requests |-> None]
  /\ former = [a \in Calls |-> {}]
  /\ alone = {}
  /\ deadBefore = [u \in Requests |-> {}]
  /\ goneBefore = [u \in Requests |-> {}]

Create ==
  \/ \E p \in Applications, c \in Credentials : CreateApplication(p, c)
  \/ \E p \in Agents : CreateAgent(p)
  \/ \E t \in Runtimes : CreateRuntime(t) \/ UpdateRuntime(t)

Call(a) ==
  \/ \E p \in Principals : \/ BeginUpdate(a, p) \/ BeginDelete(a, p)
                           \/ BeginReset(a, p) \/ BeginIssue(a, p)
  \/ \E c \in Credentials : BeginRevoke(a, c)
  \/ Update(a) \/ Delete(a)
  \/ Reset(a) \/ NewSecret(a)
  \/ CheckRuntime(a) \/ Issue(a)
  \/ Revoke(a)
  \/ Answer(a) \/ Fail(a)

Request(u) ==
  \/ \E c \in Credentials : Present(u, c)
  \/ AuthenticateClient(u) \/ AuthenticateApplication(u)
  \/ FindAgent(u) \/ FindRuntime(u) \/ CompareCredentials(u)

Next ==
  \/ Create
  \/ \E a \in Calls : Call(a)
  \/ \E u \in Requests : Request(u)

Spec == Init /\ [][Next]_vars

--------------------------------------------------------------------------------
TypeOK ==
  /\ status \in [Principals -> Statuses \cup {"absent"}]
  /\ deleted \in SUBSET Principals
  /\ runtime \in [Runtimes -> {"absent", "active", "inactive"}]
  /\ credential \in [Credentials -> {"absent", "active", "revoked"}]
  /\ at \in [Calls \cup Requests -> Stages]
  /\ subject \in [Calls \cup Requests -> Principals \cup {None}]
  /\ op \in [Calls -> Operations \cup {None}]
  /\ held \in [Calls \cup Requests -> Credentials \cup {None}]
  /\ former \in [Calls -> SUBSET Credentials]
  /\ alone \in SUBSET Calls
  /\ deadBefore \in [Requests -> SUBSET Credentials]
  /\ goneBefore \in [Requests -> SUBSET Principals]

(* applications.service.ts and agents.service.ts, delete: no request that   *)
(* arrives after a principal's deletion was answered authenticates as it,   *)
(* although an update that had read the row before may set its status back  *)
(* to active and a call that had read it may still give it a credential.    *)
DeletedStaysOut ==
  \A u \in Requests : at[u] = "authenticated" => subject[u] \notin goneBefore[u]

(* specs/18 APP-09 and callerCredentials.revoke: no request that arrives    *)
(* after a reset was answered authenticates with a secret that was there    *)
(* when the reset began, and none with a credential answered as revoked.    *)
OldSecretsDie ==
  \A u \in Requests : at[u] = "authenticated" => held[u] \notin deadBefore[u]

(* specs/18 8.4: a reset that no other reset or deletion overlaps or        *)
(* follows leaves the secret it answered as the only one, whatever earlier  *)
(* resets, overlapping or broken off half-way, have left behind.            *)
NewSecretAlone ==
  \A a \in alone : at[a] = "answered" => ActiveOf(subject[a]) = {held[a]}
================================================================================
