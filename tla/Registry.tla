------------------------------- MODULE Registry -------------------------------
(***************************************************************************)
(* What decides who may exchange a token for which target: the target      *)
(* resources, connections, grants and runtimes that administrators write   *)
(* (modules/admin of the server), with the two scripts that write the same *)
(* rows: seed.ts, which sets the demonstration up again on every run, and  *)
(* security-tighten-data.ts, which repairs rows of older releases.         *)
(*                                                                         *)
(* A call is its reads, each a step of its own, and one write; the scripts *)
(* are a statement a step and may die anywhere.  Names, codes and token    *)
(* lifetimes are left out, and so is the audit event after a write.        *)
(***************************************************************************)
EXTENDS Integers, FiniteSets

CONSTANTS
  Targets, Conns, Grants, Runtimes,  \* ids of rows, existing or yet to be made
  Agents, Clients,                   \* agents and OAuth clients
  AgentOf,                           \* the agent of each runtime
  Audiences, Providers,              \* audiences and context providers
  Words,                             \* statuses of rows and modes of runtimes
  Calls,                             \* the calls of administrators
  Pools,                             \* bound: requests the calls are drawn from, and runs of each script
  Legacy,                            \* rows an older release may have left
  SeedApp, SeedAgent,                \* the principals of the demonstration
  SeedTarget, SeedAudience,
  AppConn, AgentConn, AppGrant, AgentGrant,
  Day,                               \* the lifetime the scripts give a grant
  MaxTime,                           \* bound: the clock
  None

NoRow == [status |-> "none"]
Exists(r) == r.status # "none"
IsActive(r) == r.status = "active"
Weak(k) == k.mode # "forbidden" /\ k.providers = {}

\* Rows.  Only the modes of connections are enumerated here.
Modes == {"optional", "required", "forbidden"}
Times == Nat \cup {None}
TargetRows == [status : Words, audience : Audiences, born : Nat]
ConnRows ==
  [status : Words, of : Agents \cup Clients \cup Runtimes, runtime : Runtimes \cup {None}, target : Targets,
   mode : Modes, providers : SUBSET Providers, expires : Times]
GrantRows == [status : Words, conn : Conns, expires : Times]
RuntimeRows == [status : Words, mode : Words, refresh : BOOLEAN]

\* Bodies of requests: what a create must name and an update may.
NewConnections ==
  [of : Agents \cup Clients \cup Runtimes, runtime : Runtimes \cup {None}, target : Targets, mode : Modes,
   providers : SUBSET Providers]
NewGrants == [conn : Conns, expires : Nat]
NewRuntimes == [mode : Words, refresh : BOOLEAN]
TargetFields(set) ==
  /\ "status" \in DOMAIN set => set.status \in Words
  /\ "audience" \in DOMAIN set => set.audience \in Audiences
  /\ "born" \notin DOMAIN set
ConnFields(set) ==
  /\ "status" \in DOMAIN set => set.status \in Words
  /\ "mode" \in DOMAIN set => set.mode \in Modes
  /\ "providers" \in DOMAIN set => set.providers \subseteq Providers
  /\ "expires" \in DOMAIN set => set.expires \in Times
  /\ {"of", "runtime", "target"} \cap DOMAIN set = {}
GrantFields(set) ==
  /\ "status" \in DOMAIN set => set.status \in Words
  /\ "expires" \in DOMAIN set => set.expires \in Nat
  /\ "conn" \notin DOMAIN set
RuntimeFields(set) ==
  /\ "status" \in DOMAIN set => set.status \in Words
  /\ "mode" \in DOMAIN set => set.mode \in Words
  /\ "refresh" \in DOMAIN set => set.refresh \in BOOLEAN

Legal(q) ==
  /\ q.table \in {"target", "connection", "grant", "runtime", "principal"}
  /\ IF q.table = "principal" THEN q.op \in {"delete", "uris"} /\ q.id \in Agents \cup Clients
     ELSE q.op \in {"create", "update"}
  /\ q.table = "target" =>
       q.id \in Targets /\ TargetFields(q.set) /\ (q.op = "create" => "audience" \in DOMAIN q.set)
  /\ q.table = "connection" =>
       q.id \in Conns /\ IF q.op = "create" THEN q.set \in NewConnections ELSE ConnFields(q.set)
  /\ q.table = "grant" => q.id \in Grants /\ IF q.op = "create" THEN q.set \in NewGrants ELSE GrantFields(q.set)
  /\ q.table = "runtime" =>
       q.id \in Runtimes /\ IF q.op = "create" THEN q.set \in NewRuntimes ELSE RuntimeFields(q.set)

\* What the rows of a database are: references lead to rows.
RowsFit(ts, ks, gs, rs) ==
  /\ ts \in [Targets -> TargetRows \cup {NoRow}] /\ ks \in [Conns -> ConnRows \cup {NoRow}]
  /\ gs \in [Grants -> GrantRows \cup {NoRow}] /\ rs \in [Runtimes -> RuntimeRows \cup {NoRow}]
  /\ \A k \in Conns : Exists(ks[k]) => Exists(ts[ks[k].target])
  /\ \A g \in Grants : Exists(gs[g]) => Exists(ks[gs[g].conn])

\* Targets are numbered in the order of their creation.
Numbered(ts) ==
  \A t \in Targets : Exists(ts[t]) =>
    /\ ts[t].born < Cardinality({u \in Targets : Exists(ts[u])})
    /\ \A u \in Targets \ {t} : Exists(ts[u]) => ts[u].born # ts[t].born

ASSUME DayAssumption == Day \in Nat \ {0} /\ MaxTime \in Nat
ASSUME AgentOfAssumption == AgentOf \in [Runtimes -> Agents]
ASSUME WordsAssumption == {"active", "inactive", "stateless"} \subseteq Words /\ "none" \notin Words
ASSUME NamesAssumption ==
  /\ IsFiniteSet(Targets) /\ SeedTarget \in Targets /\ SeedAudience \in Audiences
  /\ {AppConn, AgentConn} \subseteq Conns /\ AppConn # AgentConn
  /\ {AppGrant, AgentGrant} \subseteq Grants /\ AppGrant # AgentGrant
  /\ SeedAgent \in Agents /\ \E c \in Clients : c # SeedApp /\ Clients = {SeedApp, c}
  /\ None \notin Nat \cup Runtimes \cup Calls
ASSUME RequestsAssumption == \A p \in Pools : \A q \in p.requests : Legal(q)
ASSUME LegacyAssumption ==
  \A old \in Legacy : RowsFit(old[1], old[2], old[3], old[4]) /\ Numbered(old[1])

VARIABLES
  targets,    \* target_resource_registrations
  conns,      \* target_connections
  grants,     \* access_grants
  runtimes,   \* runtime_registrations
  principals, \* agents and clients: status and deletedAt
  secrets,    \* active secrets of each client, a number
  credential, \* the demonstration agent has an active credential
  uris,       \* clients that have their redirect URIs
  pool,       \* the requests and runs of this behaviour
  calls,      \* the calls: request, stage and what was read
  seed,       \* seed.ts: the next statement, and the runtime it found
  tighten,    \* security-tighten-data.ts: phase and the lists it has read
  now,        \* the clock
  runs,       \* history: runs of the scripts
  sole,       \* history: targets written by a call that asked, unraced
  touched,    \* history: rows written by others since the tightening began
  before,     \* history: the targets when the tightening began
  quiet       \* history: nobody else wrote since the seeding began

rows == <<targets, conns, grants, runtimes>>
accounts == <<principals, secrets, credential, uris>>
scripts == <<seed, tighten, runs>>
vars == <<rows, accounts, pool, calls, scripts, now, sole, touched, before, quiet>>

Update(set, row) == [f \in DOMAIN row |-> IF f \in DOMAIN set THEN set[f] ELSE row[f]]

Idle == [op |-> "", stage |-> "idle"]
NoScript == [pc |-> "off"]

\* The type invariant: whatever calls and scripts write between each other's
\* reads, rows refer to rows.
TypeOK ==
  /\ RowsFit(targets, conns, grants, runtimes)
  /\ secrets \in [Clients -> Nat] /\ now \in 0 .. MaxTime

Init ==
  /\ \E old \in Legacy : targets = old[1] /\ conns = old[2] /\ grants = old[3] /\ runtimes = old[4]
  /\ principals \in [Agents \cup Clients -> {[status |-> "active", gone |-> FALSE]}]
  /\ secrets = [c \in Clients |-> 1] /\ credential = FALSE /\ uris = Clients
  /\ pool \in Pools /\ calls = [c \in Calls |-> Idle]
  /\ seed = NoScript /\ tighten = NoScript /\ runs = [s \in {"seed", "tighten"} |-> 0]
  /\ now = 0 /\ sole = {}
  /\ touched = {} /\ before = targets /\ quiet = FALSE

------------------------------------------------------------------------------
(* The calls of administrators.                                             *)

\* Everything that is refused before the first await: a body that does not fit
\* the request, a stateless runtime asked to refresh.
RefreshPolicy(q) ==
  ~("mode" \in DOMAIN q.set /\ q.set.mode = "stateless" /\ "refresh" \in DOMAIN q.set /\ q.set.refresh)

Accepted(q) == q.table = "runtime" => RefreshPolicy(q)

Begin(c, q) ==
  /\ calls[c].stage = "idle" /\ q \in pool.requests /\ Accepted(q)
  /\ calls' = [calls EXCEPT ![c] = [op |-> q.op, table |-> q.table, id |-> q.id, set |-> q.set,
                                    stage |-> "begun", alone |-> FALSE]]
  /\ UNCHANGED <<rows, accounts, pool, scripts, now, sole, touched, before, quiet>>

At(c, op, table, stage) == calls[c].stage = stage /\ calls[c].op = op /\ calls[c].table = table
Read(c, stage) ==
  /\ calls' = [calls EXCEPT ![c].stage = stage]
  /\ UNCHANGED <<rows, accounts, pool, scripts, now, sole, touched, before, quiet>>

\* The row a request names.
Table(q) == CASE q.table = "target" -> targets[q.id]
              [] q.table = "connection" -> conns[q.id]
              [] q.table = "grant" -> grants[q.id]
              [] q.table = "runtime" -> runtimes[q.id]

\* get: rows are found whatever their status.
Get(c) ==
  /\ calls[c].stage = "begun" /\ calls[c].op = "update"
  /\ Exists(Table(calls[c]))
  /\ Read(c, IF /\ calls[c].table = "target" /\ "audience" \in DOMAIN calls[c].set
                /\ calls[c].set.audience # targets[calls[c].id].audience
             THEN "ask" ELSE "write")

\* Mutant: inactive targets are asked about, the others are not.
AudienceTakenByStatus(a, except) ==
  \E t \in Targets \ except : targets[t].status = "inactive" /\ targets[t].audience = a

\* ensureAudienceUnique's query.
AudienceTaken(a, except) ==
  \E t \in Targets \ except : IsActive(targets[t]) /\ targets[t].audience = a

AskAudience(c) ==
  /\ At(c, "create", "target", "begun") \/ At(c, "update", "target", "ask")
  /\ ~AudienceTaken(calls[c].set.audience, IF calls[c].op = "create" THEN {} ELSE {calls[c].id})
  /\ calls' = [calls EXCEPT ![c].stage = "write", ![c].alone = TRUE]
  /\ UNCHANGED <<rows, accounts, pool, scripts, now, sole, touched, before, quiet>>

\* assertPrincipalExists: an agent or client that is not deleted, or an active
\* runtime.
AssertPrincipal(c) ==
  /\ At(c, "create", "connection", "begun")
  /\ LET p == calls[c].set.of IN IF p \in Runtimes THEN IsActive(runtimes[p]) ELSE ~principals[p].gone
  /\ Read(c, "principal")

\* Mutant: the target is not looked up.
RequireNoTarget(c) == At(c, "create", "connection", "principal") /\ Read(c, "target")

RequireTarget(c) ==
  /\ At(c, "create", "connection", "principal")
  /\ IsActive(targets[calls[c].set.target])
  /\ Read(c, "target")

\* resolveRuntime: the principal itself, or an active runtime of the agent.
RuntimeFor(q) ==
  IF q.of \in Runtimes THEN q.of ELSE q.runtime

ResolveRuntime(c) ==
  /\ At(c, "create", "connection", "target")
  /\ LET q == calls[c].set r == RuntimeFor(q) IN
       r # None => IsActive(runtimes[r]) /\ (q.of \in Runtimes \/ AgentOf[r] = q.of)
  /\ Read(c, "write")

RequireConnection(c) ==
  /\ At(c, "create", "grant", "begun")
  /\ IsActive(conns[calls[c].set.conn])
  /\ Read(c, "write")

\* findActiveRecord of a client or agent.
FindPrincipal(c) ==
  /\ calls[c].stage = "begun" /\ calls[c].table = "principal"
  /\ ~principals[calls[c].id].gone
  /\ Read(c, "write")

\* The agent of a new runtime: its row is there for good, deleted or not.
FindAgent(c) == At(c, "create", "runtime", "begun") /\ Read(c, "write")

\* A write of target t: calls that have asked are not alone any more.
Raced(cs, t) == [c \in DOMAIN cs |-> IF cs[c].stage = "write" /\ cs[c].table = "target" THEN [cs[c] EXCEPT !.alone = FALSE] ELSE cs[c]]
Done(c) == [calls EXCEPT ![c] = [@ EXCEPT !.stage = "done"]]
Newborn == Cardinality({t \in Targets : Exists(targets[t])})

Written(c) ==
  /\ touched' = touched \cup {calls[c].id} /\ quiet' = FALSE
  /\ UNCHANGED <<accounts, pool, scripts, now, before>>

\* The write gives target t an audience or an activity it had not.
Exposes(t) ==
  \/ Exists(targets[t]) /\ targets'[t].audience # targets[t].audience
  \/ IsActive(targets'[t]) /\ ~IsActive(targets[t])

WriteTarget(c) ==
  LET q == calls[c] IN
  /\ q.stage = "write" /\ q.table = "target"
  /\ q.op = "create" => ~Exists(targets[q.id])
  /\ targets' = [targets EXCEPT ![q.id] =
       IF q.op = "create" THEN [status |-> "active", audience |-> q.set.audience, born |-> Newborn] ELSE Update(q.set, @)]
  /\ calls' = Raced(Done(c), q.id)
  /\ sole' = IF q.alone THEN sole \cup {q.id} ELSE IF Exposes(q.id) THEN sole \ {q.id} ELSE sole
  /\ Written(c)
  /\ UNCHANGED <<conns, grants, runtimes>>

\* normalizeAllowedContextProviders: a create that lets context in names where from.
ProvidersFit(q) == q.mode = "forbidden" \/ q.providers # {}

WriteConnection(c) ==
  LET q == calls[c] IN
  /\ q.stage = "write" /\ q.table = "connection"
  /\ q.op = "create" => ~Exists(conns[q.id]) /\ ProvidersFit(q.set)
  /\ conns' = [conns EXCEPT ![q.id] =
       IF q.op = "create"
       THEN [status |-> "active", of |-> q.set.of, runtime |-> RuntimeFor(q.set), target |-> q.set.target,
             mode |-> q.set.mode, providers |-> q.set.providers, expires |-> None]
       ELSE Update(q.set, @)]
  /\ calls' = Done(c)
  /\ Written(c)
  /\ UNCHANGED <<targets, grants, runtimes, sole>>

\* parseFutureDate, at the write.
Future(q) == "expires" \in DOMAIN q => q.expires > now

WriteGrant(c) ==
  LET q == calls[c] IN
  /\ q.stage = "write" /\ q.table = "grant" /\ Future(q.set)
  /\ q.op = "create" => ~Exists(grants[q.id])
  /\ grants' = [grants EXCEPT ![q.id] =
       IF q.op = "create" THEN [status |-> "active", conn |-> q.set.conn, expires |-> q.set.expires] ELSE Update(q.set, @)]
  /\ calls' = Done(c)
  /\ Written(c)
  /\ UNCHANGED <<targets, conns, runtimes, sole>>

WriteRuntime(c) ==
  LET q == calls[c] IN
  /\ q.stage = "write" /\ q.table = "runtime"
  /\ q.op = "create" => ~Exists(runtimes[q.id])
  /\ runtimes' = [runtimes EXCEPT ![q.id] =
       IF q.op = "create" THEN [status |-> "active", mode |-> q.set.mode, refresh |-> q.set.refresh] ELSE Update(q.set, @)]
  /\ calls' = Done(c)
  /\ Written(c)
  /\ UNCHANGED <<targets, conns, grants, sole>>

\* A client or agent is deleted (module Principals): its secrets are revoked.
DeletePrincipal(c) ==
  LET p == calls[c].id IN
  /\ At(c, "delete", "principal", "write")
  /\ principals' = [principals EXCEPT ![p] = [status |-> "deleted", gone |-> TRUE]]
  /\ secrets' = [x \in Clients |-> IF x = p THEN 0 ELSE secrets[x]]
  /\ credential' = (credential /\ p # SeedAgent)
  /\ calls' = Done(c) /\ quiet' = FALSE
  /\ UNCHANGED <<rows, uris, pool, scripts, now, sole, touched, before>>

\* A client gets other redirect URIs: the ones it had are deleted.
ReplaceUris(c) ==
  /\ At(c, "uris", "principal", "write")
  /\ uris' = uris \ {calls[c].id}
  /\ calls' = Done(c) /\ quiet' = FALSE
  /\ UNCHANGED <<rows, principals, secrets, credential, pool, scripts, now, sole, touched, before>>

Call(c) ==
  \/ \E q \in pool.requests : Begin(c, q)
  \/ Get(c) \/ AskAudience(c) \/ AssertPrincipal(c) \/ RequireTarget(c) \/ ResolveRuntime(c)
  \/ RequireConnection(c) \/ FindPrincipal(c) \/ FindAgent(c)
  \/ WriteTarget(c) \/ WriteConnection(c) \/ WriteGrant(c) \/ WriteRuntime(c)
  \/ DeletePrincipal(c) \/ ReplaceUris(c)

------------------------------------------------------------------------------
(* security-tighten-data.ts: one list after the other, and each of its rows *)
(* written by its id, whatever became of it since the list was read.        *)

Sharers(a) == {t \in Targets : IsActive(targets[t]) /\ targets[t].audience = a}
Oldest(ts) == CHOOSE t \in ts : \A u \in ts : targets[t].born <= targets[u].born

Tightening(pc) == tighten.pc = pc
\* groupBy: the audiences more than one active target has.
Shared == {a \in Audiences : Cardinality(Sharers(a)) > 1}

TightenBegins ==
  /\ tighten.pc \in {"off", "done"} /\ runs["tighten"] < pool.tightenings
  /\ tighten' = [pc |-> "targets", groups |-> Shared, todo |-> {}, at |-> now]
  /\ runs' = [runs EXCEPT !["tighten"] = @ + 1]
  /\ touched' = {} /\ before' = targets
  /\ UNCHANGED <<rows, accounts, pool, calls, seed, now, sole, quiet>>

Listed(pc, todo) ==
  /\ tighten' = [tighten EXCEPT !.pc = pc, !.todo = todo]
  /\ UNCHANGED <<rows, accounts, pool, calls, seed, runs, now, sole, touched, before, quiet>>

\* Mutant: the newest stays.
SpareNewest(a) == LET ts == Sharers(a) IN ts \ {CHOOSE t \in ts : \A u \in ts : targets[t].born >= targets[u].born}
\* All but the first by creation.
Spare(a) == LET ts == Sharers(a) IN IF ts = {} THEN {} ELSE ts \ {Oldest(ts)}

ListDuplicates(a) ==
  /\ Tightening("targets") /\ tighten.todo = {} /\ a \in tighten.groups
  /\ tighten' = [tighten EXCEPT !.groups = @ \ {a}, !.todo = Spare(a)]
  /\ UNCHANGED <<rows, accounts, pool, calls, seed, runs, now, sole, touched, before, quiet>>

ListIndefiniteGrants ==
  /\ Tightening("targets") /\ tighten.todo = {} /\ tighten.groups = {}
  /\ Listed("grants", {g \in Grants : IsActive(grants[g]) /\ grants[g].expires = None})

ListWeakConnections ==
  /\ Tightening("grants") /\ tighten.todo = {}
  /\ Listed("weak", {k \in Conns : IsActive(conns[k]) /\ Weak(conns[k])})

TightenEnds == Tightening("weak") /\ tighten.todo = {} /\ Listed("done", {})

\* One update of a listed row.
TightenRow(x) ==
  /\ tighten.pc \in {"targets", "grants", "weak"} /\ x \in tighten.todo
  /\ tighten' = [tighten EXCEPT !.todo = @ \ {x}]
  /\ targets' = IF Tightening("targets") THEN [targets EXCEPT ![x].status = "inactive"] ELSE targets
  /\ grants' = IF Tightening("grants") THEN [grants EXCEPT ![x].expires = tighten.at + Day] ELSE grants
  /\ conns' = IF Tightening("weak") THEN [conns EXCEPT ![x] = [@ EXCEPT !.mode = "forbidden", !.providers = {}]] ELSE conns
  /\ quiet' = FALSE
  /\ UNCHANGED <<runtimes, accounts, pool, calls, seed, runs, now, sole, touched, before>>

TightenDies ==
  /\ tighten.pc \in {"targets", "grants", "weak"}
  /\ tighten' = NoScript
  /\ UNCHANGED <<rows, accounts, pool, calls, seed, runs, now, sole, touched, before, quiet>>

Tighten ==
  \/ TightenBegins \/ ListIndefiniteGrants \/ ListWeakConnections \/ TightenEnds \/ TightenDies
  \/ \E a \in Audiences : ListDuplicates(a)
  \/ \E x \in Targets \cup Grants \cup Conns : TightenRow(x)

------------------------------------------------------------------------------
(* seed.ts: upserts in a fixed order.  The second client is the console.    *)

Console == CHOOSE c \in Clients : c # SeedApp

Seeding(pc) == seed.pc = pc
Goes(pc) == seed' = [seed EXCEPT !.pc = pc]

SeedBegins ==
  /\ seed.pc \in {"off", "done"} /\ runs["seed"] < pool.seeds
  /\ seed' = [pc |-> "client", client |-> SeedApp, runtime |-> None, at |-> now]
  /\ runs' = [runs EXCEPT !["seed"] = @ + 1]
  /\ quiet' = TRUE
  /\ UNCHANGED <<rows, accounts, pool, calls, tighten, now, sole, touched, before>>

Restored == [status |-> "active", gone |-> FALSE]

SeedClient ==
  /\ Seeding("client") /\ Goes("uris")
  /\ principals' = [principals EXCEPT ![seed.client] = Restored]
  /\ UNCHANGED <<rows, secrets, credential, uris, pool, calls, tighten, runs, now, sole, touched, before, quiet>>

SeedUris ==
  /\ Seeding("uris") /\ Goes("revoke")
  /\ uris' = uris \cup {seed.client}
  /\ UNCHANGED <<rows, principals, secrets, credential, pool, calls, tighten, runs, now, sole, touched, before, quiet>>

\* Mutant: what was active stays active.
SeedRevokesNothing ==
  /\ Seeding("revoke") /\ Goes("secret")
  /\ UNCHANGED <<rows, accounts, pool, calls, tighten, runs, now, sole, touched, before, quiet>>

\* resetClientSecret, first half.
SeedRevokes ==
  /\ Seeding("revoke") /\ Goes("secret")
  /\ secrets' = [secrets EXCEPT ![seed.client] = 0]
  /\ UNCHANGED <<rows, principals, credential, uris, pool, calls, tighten, runs, now, sole, touched, before, quiet>>

\* resetClientSecret, second half; then the other client, then the agent.
SeedSecret ==
  /\ Seeding("secret")
  /\ seed' = IF seed.client = SeedApp THEN [seed EXCEPT !.pc = "client", !.client = Console] ELSE [seed EXCEPT !.pc = "agent"]
  /\ secrets' = [secrets EXCEPT ![seed.client] = @ + 1]
  /\ UNCHANGED <<rows, principals, credential, uris, pool, calls, tighten, runs, now, sole, touched, before, quiet>>

SeedsAgent ==
  /\ Seeding("agent") /\ Goes("runtime")
  /\ principals' = [principals EXCEPT ![SeedAgent] = Restored]
  /\ UNCHANGED <<rows, secrets, credential, uris, pool, calls, tighten, runs, now, sole, touched, before, quiet>>

\* A stateless runtime of the agent, whatever its status; all are of one type here.
Reusable == {r \in Runtimes : AgentOf[r] = SeedAgent /\ Exists(runtimes[r]) /\ runtimes[r].mode = "stateless"}

SeedFindsRuntime ==
  /\ Seeding("runtime") /\ \E r \in Reusable : seed' = [seed EXCEPT !.pc = "credential", !.runtime = r]
  /\ UNCHANGED <<rows, accounts, pool, calls, tighten, runs, now, sole, touched, before, quiet>>

SeedMissesRuntime ==
  /\ Seeding("runtime") /\ Reusable = {} /\ Goes("new runtime")
  /\ UNCHANGED <<rows, accounts, pool, calls, tighten, runs, now, sole, touched, before, quiet>>

SeedCreatesRuntime ==
  /\ Seeding("new runtime")
  /\ \E r \in Runtimes :
       /\ AgentOf[r] = SeedAgent /\ ~Exists(runtimes[r])
       /\ runtimes' = [runtimes EXCEPT ![r] = [status |-> "active", mode |-> "stateless", refresh |-> FALSE]]
       /\ seed' = [seed EXCEPT !.pc = "credential", !.runtime = r]
       /\ touched' = touched \cup {r}
  /\ UNCHANGED <<targets, conns, grants, accounts, pool, calls, tighten, runs, now, sole, before, quiet>>

SeedCredential ==
  /\ Seeding("credential") /\ Goes("target")
  /\ credential' = TRUE
  /\ UNCHANGED <<rows, principals, secrets, uris, pool, calls, tighten, runs, now, sole, touched, before, quiet>>

\* Nobody is asked about the audience.
SeedsTarget ==
  /\ Seeding("target") /\ Goes("app connection")
  /\ targets' = [targets EXCEPT ![SeedTarget] =
       [status |-> "active", audience |-> SeedAudience, born |-> IF Exists(@) THEN @.born ELSE Newborn]]
  /\ calls' = Raced(calls, SeedTarget)
  /\ sole' = IF Exposes(SeedTarget) THEN sole \ {SeedTarget} ELSE sole
  /\ touched' = touched \cup {SeedTarget}
  /\ UNCHANGED <<conns, grants, runtimes, accounts, pool, tighten, runs, now, before, quiet>>

\* What an upsert makes of a connection: an existing one keeps its principal,
\* and its runtime unless the upsert names one.
Connected(k, principal, bound, providers) ==
  [status |-> "active", of |-> IF Exists(conns[k]) THEN conns[k].of ELSE principal,
   runtime |-> IF Exists(conns[k]) /\ bound = None THEN conns[k].runtime ELSE bound,
   target |-> SeedTarget, mode |-> "required", providers |-> providers, expires |-> None]

SeedConnection(k, pc, next, principal, bound) ==
  /\ Seeding(pc) /\ Goes(next)
  /\ \E ps \in (SUBSET Providers) \ {{}} : conns' = [conns EXCEPT ![k] = Connected(k, principal, bound, ps)]
  /\ touched' = touched \cup {k}
  /\ UNCHANGED <<targets, grants, runtimes, accounts, pool, calls, tighten, runs, now, sole, before, quiet>>

SeedGrant(g, k, pc, next) ==
  /\ Seeding(pc) /\ Goes(next)
  /\ grants' = [grants EXCEPT ![g] = [status |-> "active", conn |-> k, expires |-> now + Day]]
  /\ touched' = touched \cup {g}
  /\ UNCHANGED <<targets, conns, runtimes, accounts, pool, calls, tighten, runs, now, sole, before, quiet>>

SeedDies ==
  /\ seed.pc \notin {"off", "done"} /\ seed' = NoScript
  /\ UNCHANGED <<rows, accounts, pool, calls, tighten, runs, now, sole, touched, before, quiet>>

Seed ==
  \/ SeedBegins \/ SeedClient \/ SeedUris \/ SeedRevokes \/ SeedSecret \/ SeedsAgent
  \/ SeedFindsRuntime \/ SeedMissesRuntime \/ SeedCreatesRuntime \/ SeedCredential \/ SeedsTarget
  \/ SeedConnection(AppConn, "app connection", "app grant", SeedApp, None)
  \/ SeedGrant(AppGrant, AppConn, "app grant", "agent connection")
  \/ SeedConnection(AgentConn, "agent connection", "agent grant", SeedAgent, seed.runtime)
  \/ SeedGrant(AgentGrant, AgentConn, "agent grant", "done")
  \/ SeedDies

------------------------------------------------------------------------------
Tick ==
  /\ now < MaxTime /\ now' = now + 1
  /\ UNCHANGED <<rows, accounts, pool, calls, scripts, sole, touched, before, quiet>>

Next == (\E c \in Calls : Call(c)) \/ Tighten \/ Seed \/ Tick

Spec == Init /\ [][Next]_vars

------------------------------------------------------------------------------
(* Properties.                                                              *)

\* ensureAudienceUnique: two targets that both got their audience and their
\* activity from a write that had asked, with no write of another target between
\* its question and itself, never share an audience while both are active.  That
\* is all the query gives: a write that raced another's question, a status
\* update and the seed do leave two active targets with one audience.
AskedAudiencesDiffer ==
  \A t, u \in sole : t # u /\ IsActive(targets[t]) /\ IsActive(targets[u]) => targets[t].audience # targets[u].audience

\* When the tightening has ended, whatever it repairs is gone from every row
\* nobody else wrote since it began, whether or not an earlier run had died.
TightenedMeansTight ==
  Tightening("done") =>
    /\ \A t, u \in Targets \ touched :
         t # u /\ IsActive(targets[t]) /\ IsActive(targets[u]) => targets[t].audience # targets[u].audience
    /\ \A g \in Grants \ touched : IsActive(grants[g]) => grants[g].expires # None
    /\ \A k \in Conns \ touched : IsActive(conns[k]) => ~Weak(conns[k])

\* Of targets that shared an audience the tightening leaves the oldest, and never
\* takes the last one away while nobody else writes targets.
TightenedKeepsOldest ==
  Tightening("done") /\ touched \cap Targets = {} =>
    \A t \in Targets :
      IsActive(before[t]) => (IsActive(targets[t]) <=> \A u \in Targets :
        IsActive(before[u]) /\ before[u].audience = before[t].audience => before[t].born <= before[u].born)

\* The rows an exchange over connection k reads let its principal through.
LetsThrough(k, g) ==
  /\ IsActive(conns[k]) /\ conns[k].expires = None /\ conns[k].target = SeedTarget /\ ~Weak(conns[k])
  /\ IsActive(targets[SeedTarget])
  /\ IsActive(grants[g]) /\ grants[g].conn = k /\ grants[g].expires > now
  /\ principals[conns[k].of] = Restored

\* A run of the seed that ends, with nobody else writing meanwhile, leaves a
\* demonstration that works for a day, whatever administrators and runs that
\* died had made of it: one secret for each client, and an exchange for both
\* principals.  A runtime it found suspended stays so, and a connection an
\* administrator made under its id for another principal stays that one's.
SeededWorks ==
  Seeding("done") /\ quiet /\ now < seed.at + Day =>
    /\ \A c \in Clients : principals[c] = Restored /\ secrets[c] = 1 /\ c \in uris
    /\ conns[AppConn].of = SeedApp => LetsThrough(AppConn, AppGrant)
    /\ conns[AgentConn].of = SeedAgent =>
         LetsThrough(AgentConn, AgentGrant) /\ credential /\ AgentOf[conns[AgentConn].runtime] = SeedAgent

\* A tightening that ends has repaired what nobody else touched, and taken away no
\* more than it had to.
Tightened == TightenedMeansTight /\ TightenedKeepsOldest
===============================================================================
