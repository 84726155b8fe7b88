---------------------------- MODULE RegistryProofs ----------------------------
(***************************************************************************)
(* Proofs about Registry, for any number of rows, administrators, agents,  *)
(* requests and runs of the scripts, and from any rows of older releases.  *)
(***************************************************************************)
EXTENDS Registry, FiniteSetTheorems, TLAPS

(* The records of calls and scripts.                                         *)
Bodies == {q.set : q \in UNION {p.requests : p \in Pools}}
Ids == Targets \cup Conns \cup Grants \cup Runtimes \cup Agents \cup Clients
Stages == {"begun", "ask", "principal", "target", "write", "done"}
CallRecords ==
  [op : {"create", "update", "delete", "uris"}, table : {"target", "connection", "grant", "runtime", "principal"},
   id : Ids, set : Bodies, stage : Stages, alone : BOOLEAN]

AfterAgentConn == {"agent grant", "done"}
AfterAppGrant == {"agent connection"} \cup AfterAgentConn
AfterAppConn == {"app grant"} \cup AfterAppGrant
AfterTarget == {"app connection"} \cup AfterAppConn
AfterCredential == {"target"} \cup AfterTarget
AfterRuntime == {"credential"} \cup AfterCredential
AfterAgent == {"runtime", "new runtime"} \cup AfterRuntime
Phases == {"client", "uris", "revoke", "secret", "agent"} \cup AfterAgent

SeedRecords == [pc : Phases, client : Clients, runtime : Runtimes \cup {None}, at : Nat]
TightenRecords ==
  [pc : {"targets", "grants", "weak", "done"}, groups : SUBSET Audiences,
   todo : SUBSET (Targets \cup Grants \cup Conns), at : Nat]

Rows ==
  /\ targets \in [Targets -> TargetRows \cup {NoRow}] /\ conns \in [Conns -> ConnRows \cup {NoRow}]
  /\ grants \in [Grants -> GrantRows \cup {NoRow}] /\ runtimes \in [Runtimes -> RuntimeRows \cup {NoRow}]

Begun(c) == calls[c].stage # "idle"
Processes ==
  /\ calls \in [Calls -> CallRecords \cup {Idle}] /\ pool \in Pools
  /\ \A c \in Calls : Begun(c) => calls[c] \in CallRecords /\ Legal(calls[c])
  /\ seed \in SeedRecords \cup {NoScript} /\ tighten \in TightenRecords \cup {NoScript}
  /\ tighten.pc # "off" => tighten \in TightenRecords
  /\ seed.pc # "off" => seed \in SeedRecords
  /\ now \in 0 .. MaxTime /\ secrets \in [Clients -> Nat] /\ uris \subseteq Clients
  /\ principals \in [Agents \cup Clients -> {Restored, [status |-> "deleted", gone |-> TRUE]}]

(* What a call or a script relies on is still there when it writes.          *)
Fits(c, stage) ==
  LET q == calls[c] IN
  /\ stage \in {"target", "write"} /\ q.table = "connection" /\ q.op = "create" => Exists(targets[q.set.target])
  /\ stage = "write" /\ q.table = "grant" /\ q.op = "create" => Exists(conns[q.set.conn])
  /\ stage \in {"ask", "write"} /\ q.op = "update" => Exists(Table(q))
  /\ stage = "ask" => q.table = "target" /\ "audience" \in DOMAIN q.set

CallFits(c) == Fits(c, calls[c].stage)

ListFits(pc, todo) ==
  /\ pc = "targets" => \A t \in todo : t \in Targets /\ Exists(targets[t])
  /\ pc = "grants" => \A g \in todo : g \in Grants /\ Exists(grants[g])
  /\ pc = "weak" => \A k \in todo : k \in Conns /\ Exists(conns[k])

TodoFits == ListFits(tighten.pc, tighten.todo)

SeedNeeds(ts, ks, pc, runtime) ==
  /\ pc = "agent grant" => Exists(ks[AgentConn])
  /\ pc = "app grant" => Exists(ks[AppConn])
  /\ pc \in AfterTarget \ {"done"} => Exists(ts[SeedTarget])
  /\ pc \in AfterRuntime => runtime \in Runtimes /\ AgentOf[runtime] = SeedAgent

SeedFits == SeedNeeds(targets, conns, seed.pc, seed.runtime)

Refs ==
  /\ \A k \in Conns : Exists(conns[k]) => Exists(targets[conns[k].target])
  /\ \A g \in Grants : Exists(grants[g]) => Exists(conns[grants[g].conn])

Whole == Rows /\ Processes /\ Refs /\ (\A c \in Calls : CallFits(c)) /\ TodoFits /\ SeedFits

-------------------------------------------------------------------------------
(* Audiences: a call that is alone still knows that its audience is free.    *)
Alone(c) ==
  calls[c].stage = "write" /\ calls[c].table = "target" /\ calls[c].alone =>
    /\ "audience" \in DOMAIN calls[c].set
    /\ ~AudienceTaken(calls[c].set.audience, {calls[c].id})

Early(c) == calls[c].stage \notin {"idle", "write", "done"} => ~calls[c].alone

Audited == sole \subseteq Targets /\ AskedAudiencesDiffer /\ \A c \in Calls : Alone(c) /\ Early(c)

(* The tightening.                                                           *)
Clash(t, u) == IsActive(targets[t]) /\ IsActive(targets[u]) /\ targets[t].audience = targets[u].audience
Oldish(t) == \A u \in Targets :
  IsActive(before[u]) /\ before[u].audience = before[t].audience => before[t].born <= before[u].born

Repaired ==
  /\ Tightening("targets") => \A t, u \in Targets \ touched : t # u /\ Clash(t, u) =>
       targets[t].audience \in tighten.groups \/ t \in tighten.todo \/ u \in tighten.todo
  /\ tighten.pc \in {"grants", "weak", "done"} => \A t, u \in Targets \ touched : t # u => ~Clash(t, u)
  /\ Tightening("grants") => \A g \in Grants \ touched :
       IsActive(grants[g]) /\ grants[g].expires = None => g \in tighten.todo
  /\ tighten.pc \in {"weak", "done"} => \A g \in Grants \ touched : IsActive(grants[g]) => grants[g].expires # None
  /\ Tightening("weak") => \A k \in Conns \ touched : IsActive(conns[k]) /\ Weak(conns[k]) => k \in tighten.todo
  /\ Tightening("done") => \A k \in Conns \ touched : IsActive(conns[k]) => ~Weak(conns[k])

(* What the tightening has before it is what it found, less what it took.    *)
AsBefore(t) ==
  /\ Exists(targets[t]) <=> Exists(before[t])
  /\ Exists(before[t]) => targets[t].audience = before[t].audience /\ targets[t].born = before[t].born
  /\ IsActive(targets[t]) => IsActive(before[t])
  /\ IsActive(before[t]) /\ Oldish(t) => IsActive(targets[t])

Spared ==
  /\ before \in [Targets -> TargetRows \cup {NoRow}] /\ Numbered(before)
  /\ tighten.pc # "off" /\ touched \cap Targets = {} =>
       /\ \A t \in Targets : AsBefore(t)
       /\ Tightening("targets") => \A t \in tighten.todo : IsActive(before[t]) /\ ~Oldish(t)

Tight == Numbered(targets) /\ Repaired /\ Spared

(* The seed, as long as nobody else writes.                                  *)
ClientSet(c) == principals[c] = Restored /\ secrets[c] = 1 /\ c \in uris
ClientPhases == {"client", "uris", "revoke", "secret"}

PlantedClients ==
  /\ seed.pc \in Phases \ ClientPhases => \A c \in Clients : ClientSet(c)
  /\ seed.pc \in ClientPhases \ {"client"} => principals[seed.client] = Restored
  /\ seed.pc \in {"revoke", "secret"} => seed.client \in uris
  /\ Seeding("secret") => secrets[seed.client] = 0
  /\ seed.pc \in ClientPhases /\ seed.client = Console => ClientSet(SeedApp)

PlantedAgent ==
  /\ seed.pc \in AfterAgent => principals[SeedAgent] = Restored
  /\ seed.pc \in AfterCredential => credential

ConnSet(k) ==
  /\ IsActive(conns[k]) /\ conns[k].expires = None /\ conns[k].target = SeedTarget
  /\ ~Weak(conns[k])
GrantSet(g, k) ==
  /\ IsActive(grants[g]) /\ grants[g].conn = k
  /\ grants[g].expires \in Nat /\ grants[g].expires >= seed.at + Day

PlantedRows ==
  /\ seed.pc \in AfterTarget => IsActive(targets[SeedTarget])
  /\ seed.pc \in AfterAppConn => ConnSet(AppConn)
  /\ seed.pc \in AfterAppGrant => GrantSet(AppGrant, AppConn)
  /\ seed.pc \in AfterAgentConn => ConnSet(AgentConn) /\ conns[AgentConn].runtime = seed.runtime
  /\ Seeding("done") => GrantSet(AgentGrant, AgentConn)

Worked == (quiet => PlantedClients /\ PlantedAgent /\ PlantedRows) /\ (seed.pc # "off" => seed.at <= now)

-------------------------------------------------------------------------------
(* Records.                                                                  *)

LEMMA NoRowDiffers ==
  /\ ~Exists(NoRow) /\ ~IsActive(NoRow)
  /\ \A r \in TargetRows \cup ConnRows \cup GrantRows \cup RuntimeRows : Exists(r)
<1>1. ~Exists(NoRow) /\ ~IsActive(NoRow)
  BY DEF Exists, IsActive, NoRow
<1>2. \A r \in TargetRows \cup ConnRows \cup GrantRows \cup RuntimeRows : Exists(r)
  BY WordsAssumption DEF Exists, TargetRows, ConnRows, GrantRows, RuntimeRows
<1>. QED BY <1>1, <1>2

LEMMA TargetFacts ==
  ASSUME NEW r \in TargetRows \cup {NoRow}
  PROVE  /\ r \in TargetRows <=> Exists(r)
         /\ IsActive(r) => Exists(r)
         /\ Exists(r) => r.audience \in Audiences /\ r.born \in Nat
<1>1. r \in TargetRows => r.audience \in Audiences /\ r.born \in Nat
  BY DEF TargetRows
<1>. QED BY <1>1, NoRowDiffers DEF Exists, IsActive

LEMMA ConnFacts ==
  ASSUME NEW r \in ConnRows \cup {NoRow}
  PROVE  /\ r \in ConnRows <=> Exists(r)
         /\ IsActive(r) => Exists(r)
         /\ Exists(r) => r.target \in Targets /\ r.runtime \in Runtimes \cup {None} /\ r.of \in Agents \cup Clients \cup Runtimes
<1>1. r \in ConnRows => r.target \in Targets /\ r.runtime \in Runtimes \cup {None} /\ r.of \in Agents \cup Clients \cup Runtimes
  BY DEF ConnRows
<1>. QED BY <1>1, NoRowDiffers DEF Exists, IsActive

LEMMA GrantFacts ==
  ASSUME NEW r \in GrantRows \cup {NoRow}
  PROVE  /\ r \in GrantRows <=> Exists(r)
         /\ IsActive(r) => Exists(r)
         /\ Exists(r) => r.conn \in Conns /\ r.expires \in Times
<1>1. r \in GrantRows => r.conn \in Conns /\ r.expires \in Times
  BY DEF GrantRows
<1>. QED BY <1>1, NoRowDiffers DEF Exists, IsActive

LEMMA UpdatedTarget ==
  ASSUME NEW r \in TargetRows, NEW set, TargetFields(set)
  PROVE  /\ Update(set, r) \in TargetRows /\ Update(set, r).born = r.born
         /\ Update(set, r).audience = IF "audience" \in DOMAIN set THEN set.audience ELSE r.audience
<1>1. DOMAIN r = {"status", "audience", "born"}
  BY DEF TargetRows
<1>2. Update(set, r) \in TargetRows
  BY <1>1 DEF Update, TargetRows, TargetFields
<1>3. Update(set, r).born = r.born
  BY <1>1 DEF Update, TargetFields
<1>4. Update(set, r).audience = IF "audience" \in DOMAIN set THEN set.audience ELSE r.audience
  BY <1>1 DEF Update
<1>. QED BY <1>2, <1>3, <1>4

LEMMA UpdatedConn ==
  ASSUME NEW r \in ConnRows, NEW set, ConnFields(set)
  PROVE  Update(set, r) \in ConnRows /\ Update(set, r).target = r.target
<1>1. DOMAIN r = {"status", "of", "runtime", "target", "mode", "providers", "expires"}
  BY DEF ConnRows
<1>2. Update(set, r) \in ConnRows
  BY <1>1 DEF Update, ConnRows, ConnFields
<1>3. Update(set, r).target = r.target
  BY <1>1 DEF Update, ConnFields
<1>. QED BY <1>2, <1>3

LEMMA UpdatedGrant ==
  ASSUME NEW r \in GrantRows, NEW set, GrantFields(set)
  PROVE  Update(set, r) \in GrantRows /\ Update(set, r).conn = r.conn
<1>1. DOMAIN r = {"status", "conn", "expires"}
  BY DEF GrantRows
<1>2. Update(set, r) \in GrantRows
  BY <1>1 DEF Update, GrantRows, GrantFields, Times
<1>3. Update(set, r).conn = r.conn
  BY <1>1 DEF Update, GrantFields
<1>. QED BY <1>2, <1>3

LEMMA UpdatedRuntime ==
  ASSUME NEW r \in RuntimeRows, NEW set, RuntimeFields(set)
  PROVE  /\ Update(set, r) \in RuntimeRows
         /\ Update(set, r).mode = IF "mode" \in DOMAIN set THEN set.mode ELSE r.mode
         /\ Update(set, r).refresh = IF "refresh" \in DOMAIN set THEN set.refresh ELSE r.refresh
<1>1. DOMAIN r = {"status", "mode", "refresh"}
  BY DEF RuntimeRows
<1>2. Update(set, r) \in RuntimeRows
  BY <1>1 DEF Update, RuntimeRows, RuntimeFields
<1>3. Update(set, r).mode = IF "mode" \in DOMAIN set THEN set.mode ELSE r.mode
  BY <1>1 DEF Update
<1>4. Update(set, r).refresh = IF "refresh" \in DOMAIN set THEN set.refresh ELSE r.refresh
  BY <1>1 DEF Update
<1>. QED BY <1>2, <1>3, <1>4

LEMMA CallFacts ==
  ASSUME NEW r \in CallRecords, NEW stage \in Stages
  PROVE  /\ [r EXCEPT !.stage = stage] \in CallRecords
         /\ [r EXCEPT !.stage = stage].stage = stage /\ [r EXCEPT !.stage = stage].alone = r.alone
         /\ [r EXCEPT !.stage = stage].op = r.op /\ [r EXCEPT !.stage = stage].table = r.table
         /\ [r EXCEPT !.stage = stage].id = r.id /\ [r EXCEPT !.stage = stage].set = r.set
BY DEF CallRecords, Stages

LEMMA LoneFacts ==
  ASSUME NEW r \in CallRecords, NEW b \in {TRUE, FALSE}
  PROVE  /\ [r EXCEPT !.alone = b] \in CallRecords
         /\ [r EXCEPT !.alone = b].stage = r.stage /\ [r EXCEPT !.alone = b].alone = b
         /\ [r EXCEPT !.alone = b].op = r.op /\ [r EXCEPT !.alone = b].table = r.table
         /\ [r EXCEPT !.alone = b].id = r.id /\ [r EXCEPT !.alone = b].set = r.set
BY DEF CallRecords, Stages

-------------------------------------------------------------------------------
(* Who writes which rows.                                                    *)

SeedsAppConn == SeedConnection(AppConn, "app connection", "app grant", SeedApp, None)
SeedsAgentConn == SeedConnection(AgentConn, "agent connection", "agent grant", SeedAgent, seed.runtime)
SeedsAppGrant == SeedGrant(AppGrant, AppConn, "app grant", "agent connection")
SeedsAgentGrant == SeedGrant(AgentGrant, AgentConn, "agent grant", "done")

LEMMA TargetWriters ==
  ASSUME Next
  PROVE  \/ targets' = targets /\ sole' = sole
         \/ \E c \in Calls : WriteTarget(c)
         \/ SeedsTarget
         \/ Tightening("targets") /\ \E x \in Targets \cup Grants \cup Conns : TightenRow(x)
<1>1. ASSUME NEW c \in Calls, Call(c) PROVE (targets' = targets /\ sole' = sole) \/ WriteTarget(c)
  BY <1>1 DEF Call, Begin, Get, AskAudience, AssertPrincipal, RequireTarget, ResolveRuntime, RequireConnection,
              FindPrincipal, FindAgent, Read, WriteConnection, WriteGrant, WriteRuntime, DeletePrincipal,
              ReplaceUris, Written, rows
<1>2. CASE Tighten
  BY <1>2 DEF Tighten, TightenBegins, ListIndefiniteGrants, ListWeakConnections, TightenEnds, TightenDies,
              ListDuplicates, Listed, TightenRow, rows
<1>3. CASE Seed
  BY <1>3 DEF Seed, SeedBegins, SeedClient, SeedUris, SeedRevokes, SeedSecret, SeedsAgent, SeedFindsRuntime,
              SeedMissesRuntime, SeedCreatesRuntime, SeedCredential, SeedConnection, SeedGrant, SeedDies, rows
<1>4. CASE Tick
  BY <1>4 DEF Tick, rows
<1>. QED BY <1>1, <1>2, <1>3, <1>4 DEF Next

LEMMA ConnWriters ==
  ASSUME Next
  PROVE  \/ conns' = conns
         \/ \E c \in Calls : WriteConnection(c)
         \/ SeedsAppConn \/ SeedsAgentConn
         \/ Tightening("weak") /\ \E x \in Targets \cup Grants \cup Conns : TightenRow(x)
<1>1. ASSUME NEW c \in Calls, Call(c) PROVE conns' = conns \/ WriteConnection(c)
  BY <1>1 DEF Call, Begin, Get, AskAudience, AssertPrincipal, RequireTarget, ResolveRuntime, RequireConnection,
              FindPrincipal, FindAgent, Read, WriteTarget, WriteGrant, WriteRuntime, DeletePrincipal,
              ReplaceUris, rows
<1>2. CASE Tighten
  BY <1>2 DEF Tighten, TightenBegins, ListIndefiniteGrants, ListWeakConnections, TightenEnds, TightenDies,
              ListDuplicates, Listed, TightenRow, rows
<1>3. CASE Seed
  BY <1>3 DEF Seed, SeedBegins, SeedClient, SeedUris, SeedRevokes, SeedSecret, SeedsAgent, SeedFindsRuntime,
              SeedMissesRuntime, SeedCreatesRuntime, SeedCredential, SeedsTarget, SeedGrant, SeedDies, rows,
              SeedsAppConn, SeedsAgentConn
<1>4. CASE Tick
  BY <1>4 DEF Tick, rows
<1>. QED BY <1>1, <1>2, <1>3, <1>4 DEF Next

LEMMA GrantWriters ==
  ASSUME Next
  PROVE  \/ grants' = grants
         \/ \E c \in Calls : WriteGrant(c)
         \/ SeedsAppGrant \/ SeedsAgentGrant
         \/ Tightening("grants") /\ \E x \in Targets \cup Grants \cup Conns : TightenRow(x)
<1>1. ASSUME NEW c \in Calls, Call(c) PROVE grants' = grants \/ WriteGrant(c)
  BY <1>1 DEF Call, Begin, Get, AskAudience, AssertPrincipal, RequireTarget, ResolveRuntime, RequireConnection,
              FindPrincipal, FindAgent, Read, WriteTarget, WriteConnection, WriteRuntime, DeletePrincipal,
              ReplaceUris, rows
<1>2. CASE Tighten
  BY <1>2 DEF Tighten, TightenBegins, ListIndefiniteGrants, ListWeakConnections, TightenEnds, TightenDies,
              ListDuplicates, Listed, TightenRow, rows
<1>3. CASE Seed
  BY <1>3 DEF Seed, SeedBegins, SeedClient, SeedUris, SeedRevokes, SeedSecret, SeedsAgent, SeedFindsRuntime,
              SeedMissesRuntime, SeedCreatesRuntime, SeedCredential, SeedsTarget, SeedConnection, SeedDies, rows,
              SeedsAppGrant, SeedsAgentGrant
<1>4. CASE Tick
  BY <1>4 DEF Tick, rows
<1>. QED BY <1>1, <1>2, <1>3, <1>4 DEF Next

LEMMA RuntimeWriters ==
  ASSUME Next
  PROVE  \/ runtimes' = runtimes
         \/ \E c \in Calls : WriteRuntime(c)
         \/ SeedCreatesRuntime
<1>1. ASSUME NEW c \in Calls, Call(c) PROVE runtimes' = runtimes \/ WriteRuntime(c)
  BY <1>1 DEF Call, Begin, Get, AskAudience, AssertPrincipal, RequireTarget, ResolveRuntime, RequireConnection,
              FindPrincipal, FindAgent, Read, WriteTarget, WriteConnection, WriteGrant, DeletePrincipal,
              ReplaceUris, rows
<1>2. CASE Tighten
  BY <1>2 DEF Tighten, TightenBegins, ListIndefiniteGrants, ListWeakConnections, TightenEnds, TightenDies,
              ListDuplicates, Listed, TightenRow, rows
<1>3. CASE Seed
  BY <1>3 DEF Seed, SeedBegins, SeedClient, SeedUris, SeedRevokes, SeedSecret, SeedsAgent, SeedFindsRuntime,
              SeedMissesRuntime, SeedCredential, SeedsTarget, SeedConnection, SeedGrant, SeedDies, rows
<1>4. CASE Tick
  BY <1>4 DEF Tick, rows
<1>. QED BY <1>1, <1>2, <1>3, <1>4 DEF Next

-------------------------------------------------------------------------------
(* What a write makes of a row.                                              *)

LEMMA NewbornType == Newborn \in Nat
<1>1. IsFiniteSet({t \in Targets : Exists(targets[t])})
  BY NamesAssumption, FS_Subset
<1>. QED BY <1>1, FS_CardinalityType DEF Newborn

LEMMA LegalCall ==
  ASSUME Processes, NEW c \in Calls, Begun(c)
  PROVE  calls[c] \in CallRecords /\ Legal(calls[c])
BY DEF Processes

TargetWrite(c, r) ==
  LET q == calls[c] IN
  /\ q.id \in Targets /\ r \in TargetRows /\ targets' = [targets EXCEPT ![q.id] = r]
  /\ \/ /\ q.op = "create" /\ ~Exists(targets[q.id])
        /\ r.status = "active" /\ r.audience = q.set.audience /\ r.born = Newborn
     \/ /\ q.op = "update" /\ Exists(targets[q.id]) /\ r.born = targets[q.id].born
        /\ r.audience = IF "audience" \in DOMAIN q.set THEN q.set.audience ELSE targets[q.id].audience

LEMMA TargetWritten ==
  ASSUME Rows, Processes, NEW c \in Calls, CallFits(c), WriteTarget(c)
  PROVE  \E r : TargetWrite(c, r)
<1>1. /\ calls[c] \in CallRecords /\ Legal(calls[c]) /\ calls[c].table = "target" /\ calls[c].stage = "write"
  BY LegalCall DEF WriteTarget, Begun
<1>2. /\ calls[c].id \in Targets /\ TargetFields(calls[c].set) /\ calls[c].op \in {"create", "update"}
      /\ calls[c].op = "create" => calls[c].set.audience \in Audiences
  BY <1>1 DEF Legal, TargetFields
<1>3. CASE calls[c].op = "create"
  <2> DEFINE r == [status |-> "active", audience |-> calls[c].set.audience, born |-> Newborn]
  <2>1. targets' = [targets EXCEPT ![calls[c].id] = r] /\ ~Exists(targets[calls[c].id])
    BY <1>3 DEF WriteTarget
  <2>2. r \in TargetRows
    BY <1>2, <1>3, NewbornType, WordsAssumption DEF TargetRows
  <2>3. TargetWrite(c, r)
    BY <1>2, <1>3, <2>1, <2>2 DEF TargetWrite
  <2>. QED BY <2>3
<1>4. CASE calls[c].op = "update"
  <2> DEFINE r == Update(calls[c].set, targets[calls[c].id])
  <2>1. targets[calls[c].id] \in TargetRows
    <3>1. Exists(targets[calls[c].id])
      BY <1>1, <1>4 DEF CallFits, Fits, Table
    <3>. QED BY <1>2, <3>1, TargetFacts DEF Rows
  <2>2. targets' = [targets EXCEPT ![calls[c].id] = r]
    BY <1>4 DEF WriteTarget
  <2>3. /\ r \in TargetRows /\ r.born = targets[calls[c].id].born
        /\ r.audience = IF "audience" \in DOMAIN calls[c].set THEN calls[c].set.audience ELSE targets[calls[c].id].audience
    BY <1>2, <2>1, UpdatedTarget
  <2>4. Exists(targets[calls[c].id])
    BY <2>1, TargetFacts
  <2> HIDE DEF r
  <2>5. TargetWrite(c, r)
    BY <1>2, <1>4, <2>2, <2>3, <2>4 DEF TargetWrite
  <2>. QED BY <2>5
<1>. QED BY <1>2, <1>3, <1>4

(* The seed's target, and the one the tightening takes.                      *)
LEMMA TargetSeeded ==
  ASSUME Rows, SeedsTarget
  PROVE  \E r \in TargetRows :
           /\ targets' = [targets EXCEPT ![SeedTarget] = r] /\ SeedTarget \in Targets
           /\ r.status = "active" /\ r.audience = SeedAudience
           /\ r.born = IF Exists(targets[SeedTarget]) THEN targets[SeedTarget].born ELSE Newborn
<1> DEFINE r == [status |-> "active", audience |-> SeedAudience,
                 born |-> IF Exists(targets[SeedTarget]) THEN targets[SeedTarget].born ELSE Newborn]
<1>1. SeedTarget \in Targets /\ SeedAudience \in Audiences
  BY NamesAssumption
<1>2. r.born \in Nat
  BY <1>1, NewbornType, TargetFacts DEF Rows
<1>3. r \in TargetRows
  BY <1>1, <1>2, WordsAssumption DEF TargetRows
<1>4. targets' = [targets EXCEPT ![SeedTarget] = r]
  BY DEF SeedsTarget
<1>. QED BY <1>1, <1>3, <1>4

LEMMA TargetTaken ==
  ASSUME Rows, TodoFits, Tightening("targets"), NEW x, TightenRow(x)
  PROVE  /\ x \in Targets /\ x \in tighten.todo /\ targets[x] \in TargetRows
         /\ \E r \in TargetRows :
              /\ targets' = [targets EXCEPT ![x] = r] /\ r.status = "inactive"
              /\ r.audience = targets[x].audience /\ r.born = targets[x].born
<1>1. x \in Targets /\ targets[x] \in TargetRows /\ x \in tighten.todo
  BY TargetFacts DEF TodoFits, ListFits, Tightening, TightenRow, Rows
<1> DEFINE r == [targets[x] EXCEPT !.status = "inactive"]
<1>2. r \in TargetRows /\ r.status = "inactive" /\ r.audience = targets[x].audience /\ r.born = targets[x].born
  BY <1>1, WordsAssumption DEF TargetRows
<1>3. targets' = [targets EXCEPT ![x] = r]
  BY DEF TightenRow
<1> HIDE DEF r
<1>. QED BY <1>1, <1>2, <1>3

(* In every step targets are rows, and stay.                                 *)
LEMMA TargetsStay ==
  ASSUME Whole, Next
  PROVE  /\ targets' \in [Targets -> TargetRows \cup {NoRow}]
         /\ \A t \in Targets : Exists(targets[t]) => Exists(targets'[t])
<1>1. ASSUME NEW t \in Targets, NEW r \in TargetRows, targets' = [targets EXCEPT ![t] = r]
      PROVE  /\ targets' \in [Targets -> TargetRows \cup {NoRow}]
             /\ \A u \in Targets : Exists(targets[u]) => Exists(targets'[u])
  BY <1>1, NoRowDiffers DEF Whole, Rows
<1>2. CASE targets' = targets
  BY <1>2 DEF Whole, Rows
<1>3. ASSUME NEW c \in Calls, WriteTarget(c) PROVE \E t \in Targets, r \in TargetRows : targets' = [targets EXCEPT ![t] = r]
  BY <1>3, TargetWritten DEF TargetWrite, Whole
<1>4. CASE SeedsTarget
  BY <1>1, <1>4, TargetSeeded DEF Whole
<1>5. ASSUME NEW x, TightenRow(x), Tightening("targets")
      PROVE  \E t \in Targets, r \in TargetRows : targets' = [targets EXCEPT ![t] = r]
  BY <1>5, TargetTaken DEF Whole
<1>. QED BY <1>1, <1>2, <1>3, <1>4, <1>5, TargetWriters

ConnWrite(c, r) ==
  LET q == calls[c] IN
  /\ q.id \in Conns /\ r \in ConnRows /\ conns' = [conns EXCEPT ![q.id] = r]
  /\ \/ q.op = "create" /\ ~Exists(conns[q.id]) /\ r.target = q.set.target
     \/ q.op = "update" /\ Exists(conns[q.id]) /\ r.target = conns[q.id].target

LEMMA ConnWritten ==
  ASSUME Rows, Processes, NEW c \in Calls, CallFits(c), WriteConnection(c)
  PROVE  \E r : ConnWrite(c, r)
<1>1. /\ calls[c] \in CallRecords /\ Legal(calls[c]) /\ calls[c].table = "connection" /\ calls[c].stage = "write"
  BY LegalCall DEF WriteConnection, Begun
<1>2. calls[c].id \in Conns /\ calls[c].op \in {"create", "update"}
  BY <1>1 DEF Legal
<1>3. CASE calls[c].op = "create"
  <2> DEFINE r == [status |-> "active", of |-> calls[c].set.of, runtime |-> RuntimeFor(calls[c].set),
                   target |-> calls[c].set.target, mode |-> calls[c].set.mode, providers |-> calls[c].set.providers,
                   expires |-> None]
  <2>1. conns' = [conns EXCEPT ![calls[c].id] = r] /\ ~Exists(conns[calls[c].id])
    BY <1>3 DEF WriteConnection
  <2>2. calls[c].set \in NewConnections
    BY <1>1, <1>3 DEF Legal
  <2>3. RuntimeFor(calls[c].set) \in Runtimes \cup {None}
    BY <2>2 DEF RuntimeFor, NewConnections
  <2>4. None \in Times
    BY DEF Times
  <2>5. r \in ConnRows
    BY <2>2, <2>3, <2>4, WordsAssumption DEF ConnRows, NewConnections
  <2>6. ConnWrite(c, r)
    BY <1>2, <1>3, <2>1, <2>5 DEF ConnWrite
  <2>. QED BY <2>6
<1>4. CASE calls[c].op = "update"
  <2> DEFINE r == Update(calls[c].set, conns[calls[c].id])
  <2>1. conns[calls[c].id] \in ConnRows /\ Exists(conns[calls[c].id])
    <3>1. Exists(conns[calls[c].id])
      BY <1>1, <1>4 DEF CallFits, Fits, Table
    <3>. QED BY <1>2, <3>1, ConnFacts DEF Rows
  <2>2. conns' = [conns EXCEPT ![calls[c].id] = r]
    BY <1>4 DEF WriteConnection
  <2>3. ConnFields(calls[c].set)
    BY <1>1, <1>4 DEF Legal
  <2>4. r \in ConnRows /\ r.target = conns[calls[c].id].target
    BY <2>1, <2>3, UpdatedConn
  <2> HIDE DEF r
  <2>5. ConnWrite(c, r)
    BY <1>2, <1>4, <2>1, <2>2, <2>4 DEF ConnWrite
  <2>. QED BY <2>5
<1>. QED BY <1>2, <1>3, <1>4

(* A connection of the seed, and one the tightening closes.                  *)
ConnSeed(k, bound, r) ==
  /\ r \in ConnRows /\ conns' = [conns EXCEPT ![k] = r]
  /\ r.status = "active" /\ r.target = SeedTarget /\ r.expires = None /\ r.mode = "required" /\ r.providers # {}
  /\ bound # None => r.runtime = bound

LEMMA ConnSeeded ==
  ASSUME Rows, NEW k \in Conns, NEW pc, NEW next, NEW principal \in Agents \cup Clients,
         NEW bound \in Runtimes \cup {None}, SeedConnection(k, pc, next, principal, bound)
  PROVE  \E r : ConnSeed(k, bound, r)
<1>1. PICK ps \in (SUBSET Providers) \ {{}} : conns' = [conns EXCEPT ![k] = Connected(k, principal, bound, ps)]
  BY DEF SeedConnection
<1> DEFINE r == Connected(k, principal, bound, ps)
<1>2. SeedTarget \in Targets /\ None \in Times /\ "required" \in Modes
  BY NamesAssumption DEF Times, Modes
<1>3. Exists(conns[k]) => conns[k].of \in Agents \cup Clients \cup Runtimes /\ conns[k].runtime \in Runtimes \cup {None}
  BY ConnFacts DEF Rows
<1>4. r \in ConnRows
  BY <1>2, <1>3, WordsAssumption DEF Connected, ConnRows
<1>5. /\ r.status = "active" /\ r.target = SeedTarget /\ r.expires = None /\ r.mode = "required" /\ r.providers = ps
      /\ bound # None => r.runtime = bound
  BY DEF Connected
<1>6. conns' = [conns EXCEPT ![k] = r]
  BY <1>1
<1>7. ps # {}
  OBVIOUS
<1> HIDE DEF r
<1>8. ConnSeed(k, bound, r)
  BY <1>4, <1>5, <1>6, <1>7 DEF ConnSeed
<1>. QED BY <1>8

LEMMA ConnTaken ==
  ASSUME Rows, TodoFits, Tightening("weak"), NEW x, TightenRow(x)
  PROVE  /\ x \in Conns /\ x \in tighten.todo /\ conns[x] \in ConnRows
         /\ \E r \in ConnRows :
              /\ conns' = [conns EXCEPT ![x] = r] /\ r.mode = "forbidden"
              /\ r.status = conns[x].status /\ r.target = conns[x].target
<1>1. x \in Conns /\ conns[x] \in ConnRows /\ x \in tighten.todo
  BY ConnFacts DEF TodoFits, ListFits, Tightening, TightenRow, Rows
<1> DEFINE r == [conns[x] EXCEPT !.mode = "forbidden", !.providers = {}]
<1>2. "forbidden" \in Modes
  BY DEF Modes
<1>3. r \in ConnRows /\ r.mode = "forbidden" /\ r.status = conns[x].status /\ r.target = conns[x].target
  BY <1>1, <1>2 DEF ConnRows
<1>4. conns' = [conns EXCEPT ![x] = r]
  BY DEF TightenRow
<1> HIDE DEF r
<1>. QED BY <1>1, <1>3, <1>4

GrantWrite(c, r) ==
  LET q == calls[c] IN
  /\ q.id \in Grants /\ r \in GrantRows /\ grants' = [grants EXCEPT ![q.id] = r]
  /\ \/ q.op = "create" /\ ~Exists(grants[q.id]) /\ r.conn = q.set.conn
     \/ q.op = "update" /\ Exists(grants[q.id]) /\ r.conn = grants[q.id].conn

LEMMA GrantWritten ==
  ASSUME Rows, Processes, NEW c \in Calls, CallFits(c), WriteGrant(c)
  PROVE  \E r : GrantWrite(c, r)
<1>1. /\ calls[c] \in CallRecords /\ Legal(calls[c]) /\ calls[c].table = "grant" /\ calls[c].stage = "write"
  BY LegalCall DEF WriteGrant, Begun
<1>2. calls[c].id \in Grants /\ calls[c].op \in {"create", "update"}
  BY <1>1 DEF Legal
<1>3. CASE calls[c].op = "create"
  <2> DEFINE r == [status |-> "active", conn |-> calls[c].set.conn, expires |-> calls[c].set.expires]
  <2>1. grants' = [grants EXCEPT ![calls[c].id] = r] /\ ~Exists(grants[calls[c].id])
    BY <1>3 DEF WriteGrant
  <2>2. calls[c].set \in NewGrants
    BY <1>1, <1>3 DEF Legal
  <2>3. r \in GrantRows
    BY <2>2, WordsAssumption DEF GrantRows, NewGrants, Times
  <2>4. GrantWrite(c, r)
    BY <1>2, <1>3, <2>1, <2>3 DEF GrantWrite
  <2>. QED BY <2>4
<1>4. CASE calls[c].op = "update"
  <2> DEFINE r == Update(calls[c].set, grants[calls[c].id])
  <2>1. grants[calls[c].id] \in GrantRows /\ Exists(grants[calls[c].id])
    <3>1. Exists(grants[calls[c].id])
      BY <1>1, <1>4 DEF CallFits, Fits, Table
    <3>. QED BY <1>2, <3>1, GrantFacts DEF Rows
  <2>2. grants' = [grants EXCEPT ![calls[c].id] = r]
    BY <1>4 DEF WriteGrant
  <2>3. GrantFields(calls[c].set)
    BY <1>1, <1>4 DEF Legal
  <2>4. r \in GrantRows /\ r.conn = grants[calls[c].id].conn
    BY <2>1, <2>3, UpdatedGrant
  <2> HIDE DEF r
  <2>5. GrantWrite(c, r)
    BY <1>2, <1>4, <2>1, <2>2, <2>4 DEF GrantWrite
  <2>. QED BY <2>5
<1>. QED BY <1>2, <1>3, <1>4

LEMMA GrantSeeded ==
  ASSUME Processes, NEW g \in Grants, NEW k \in Conns, NEW pc, NEW next, SeedGrant(g, k, pc, next)
  PROVE  \E r \in GrantRows :
           /\ grants' = [grants EXCEPT ![g] = r]
           /\ r.status = "active" /\ r.conn = k /\ r.expires = now + Day
<1> DEFINE r == [status |-> "active", conn |-> k, expires |-> now + Day]
<1>1. now + Day \in Times
  BY DayAssumption DEF Processes, Times
<1>2. r \in GrantRows
  BY <1>1, WordsAssumption DEF GrantRows
<1>3. grants' = [grants EXCEPT ![g] = r]
  BY DEF SeedGrant
<1>. QED BY <1>2, <1>3

LEMMA GrantTaken ==
  ASSUME Rows, Processes, TodoFits, Tightening("grants"), NEW x, TightenRow(x)
  PROVE  /\ x \in Grants /\ x \in tighten.todo /\ grants[x] \in GrantRows
         /\ \E r \in GrantRows :
              /\ grants' = [grants EXCEPT ![x] = r] /\ r.expires \in Nat
              /\ r.status = grants[x].status /\ r.conn = grants[x].conn
<1>1. x \in Grants /\ grants[x] \in GrantRows /\ x \in tighten.todo
  BY GrantFacts DEF TodoFits, ListFits, Tightening, TightenRow, Rows
<1>2. tighten.at + Day \in Nat
  BY DayAssumption DEF Processes, TightenRow, TightenRecords
<1> DEFINE r == [grants[x] EXCEPT !.expires = tighten.at + Day]
<1>3. r \in GrantRows /\ r.expires \in Nat /\ r.status = grants[x].status /\ r.conn = grants[x].conn
  BY <1>1, <1>2 DEF GrantRows, Times
<1>4. grants' = [grants EXCEPT ![x] = r]
  BY DEF TightenRow
<1> HIDE DEF r
<1>. QED BY <1>1, <1>3, <1>4

(* In every step connections are rows, stay, and lead to targets.            *)
LEMMA SeedNames ==
  /\ SeedTarget \in Targets /\ SeedAudience \in Audiences /\ AppConn \in Conns /\ AgentConn \in Conns
  /\ AppGrant \in Grants /\ AgentGrant \in Grants /\ SeedAgent \in Agents /\ SeedApp \in Clients
BY NamesAssumption

LEMMA SeedConns ==
  ASSUME Whole
  PROVE  /\ SeedsAppConn => Exists(targets[SeedTarget]) /\ \E r : ConnSeed(AppConn, None, r)
         /\ SeedsAgentConn => /\ Exists(targets[SeedTarget]) /\ seed.runtime \in Runtimes
                              /\ \E r : ConnSeed(AgentConn, seed.runtime, r)
<1>1. CASE SeedsAppConn
  <2>1. Exists(targets[SeedTarget])
    BY <1>1 DEF SeedsAppConn, SeedConnection, Seeding, Whole, SeedFits, SeedNeeds, AfterTarget
  <2>2. \E r : ConnSeed(AppConn, None, r)
    BY <1>1, SeedNames, ConnSeeded DEF SeedsAppConn, Whole
  <2>3. ~SeedsAgentConn
    BY <1>1 DEF SeedsAppConn, SeedsAgentConn, SeedConnection, Seeding
  <2>. QED BY <2>1, <2>2, <2>3
<1>2. CASE SeedsAgentConn
  <2>1. Exists(targets[SeedTarget])
    BY <1>2 DEF SeedsAgentConn, SeedConnection, Seeding, Whole, SeedFits, SeedNeeds, AfterTarget, AfterAppConn, AfterAppGrant
  <2>2. seed.runtime \in Runtimes
    BY <1>2 DEF SeedsAgentConn, SeedConnection, Seeding, Whole, SeedFits, SeedNeeds, AfterRuntime, AfterCredential, AfterTarget,
                AfterAppConn, AfterAppGrant
  <2>3. \E r : ConnSeed(AgentConn, seed.runtime, r)
    BY <1>2, <2>2, SeedNames, ConnSeeded DEF SeedsAgentConn, Whole
  <2>4. ~SeedsAppConn
    BY <1>2 DEF SeedsAppConn, SeedsAgentConn, SeedConnection, Seeding
  <2>. QED BY <2>1, <2>2, <2>3, <2>4
<1>. QED BY <1>1, <1>2

LEMMA ConnsStay ==
  ASSUME Whole, Next
  PROVE  /\ conns' \in [Conns -> ConnRows \cup {NoRow}]
         /\ \A k \in Conns : Exists(conns[k]) => Exists(conns'[k])
         /\ \A k \in Conns : Exists(conns'[k]) => Exists(targets'[conns'[k].target])
<1> DEFINE Set(k, r) == r \in ConnRows /\ conns' = [conns EXCEPT ![k] = r] /\ Exists(targets[r.target])
<1>1. \A t \in Targets : Exists(targets[t]) => Exists(targets'[t])
  BY TargetsStay
<1>2. \A k \in Conns : Exists(conns[k]) => conns[k].target \in Targets /\ Exists(targets[conns[k].target])
  BY ConnFacts DEF Whole, Rows, Refs
<1>3. ASSUME NEW k \in Conns, NEW r, Set(k, r)
      PROVE  /\ conns' \in [Conns -> ConnRows \cup {NoRow}]
             /\ \A j \in Conns : Exists(conns[j]) => Exists(conns'[j])
             /\ \A j \in Conns : Exists(conns'[j]) => Exists(targets'[conns'[j].target])
  <2>1. r \in ConnRows /\ r.target \in Targets /\ Exists(r) /\ Exists(targets[r.target])
    BY <1>3, NoRowDiffers, ConnFacts
  <2>2. DOMAIN conns = Conns /\ \A j \in Conns : conns'[j] = IF j = k THEN r ELSE conns[j]
    BY <1>3 DEF Whole, Rows
  <2>3. conns' \in [Conns -> ConnRows \cup {NoRow}]
    BY <1>3 DEF Whole, Rows
  <2>. QED BY <1>1, <1>2, <2>1, <2>2, <2>3
<1>4. CASE conns' = conns
  BY <1>1, <1>2, <1>4 DEF Whole, Rows
<1>5. ASSUME NEW c \in Calls, WriteConnection(c) PROVE \E k \in Conns, r \in ConnRows : Set(k, r)
  <2>1. PICK r : ConnWrite(c, r)
    BY <1>5, ConnWritten DEF Whole
  <2>2. calls[c].op = "create" => Exists(targets[calls[c].set.target])
    BY <1>5 DEF Whole, CallFits, Fits, WriteConnection
  <2>3. Set(calls[c].id, r) /\ calls[c].id \in Conns /\ r \in ConnRows
    BY <1>2, <1>5, <2>1, <2>2 DEF ConnWrite
  <2>. QED BY <2>3
<1>6. CASE SeedsAppConn \/ SeedsAgentConn
  <2>1. PICK k \in Conns, r \in ConnRows : Exists(targets[SeedTarget]) /\ conns' = [conns EXCEPT ![k] = r] /\ r.target = SeedTarget
    BY <1>6, SeedConns, SeedNames DEF ConnSeed
  <2>. QED BY <1>3, <2>1
<1>7. ASSUME NEW x, TightenRow(x), Tightening("weak")
      PROVE  \E k \in Conns, r \in ConnRows : Set(k, r)
  <2>1. /\ x \in Conns /\ conns[x] \in ConnRows
        /\ \E r \in ConnRows : conns' = [conns EXCEPT ![x] = r] /\ r.target = conns[x].target
    BY <1>7, ConnTaken DEF Whole
  <2>2. Exists(targets[conns[x].target])
    BY <1>2, <2>1, NoRowDiffers
  <2>. QED BY <2>1, <2>2
<1> HIDE DEF Set
<1>. QED BY <1>3, <1>4, <1>5, <1>6, <1>7, ConnWriters

(* In every step grants are rows, stay, and lead to connections.             *)
LEMMA SeedGrants ==
  ASSUME Whole
  PROVE  /\ SeedsAppGrant =>
              /\ Exists(conns[AppConn])
              /\ \E r \in GrantRows : /\ grants' = [grants EXCEPT ![AppGrant] = r]
                                      /\ r.status = "active" /\ r.conn = AppConn /\ r.expires = now + Day
         /\ SeedsAgentGrant =>
              /\ Exists(conns[AgentConn])
              /\ \E r \in GrantRows : /\ grants' = [grants EXCEPT ![AgentGrant] = r]
                                      /\ r.status = "active" /\ r.conn = AgentConn /\ r.expires = now + Day
<1>1. ASSUME SeedsAppGrant
      PROVE  \E r \in GrantRows : /\ grants' = [grants EXCEPT ![AppGrant] = r]
                                  /\ r.status = "active" /\ r.conn = AppConn /\ r.expires = now + Day
  BY <1>1, SeedNames, GrantSeeded DEF SeedsAppGrant, Whole
<1>2. ASSUME SeedsAgentGrant
      PROVE  \E r \in GrantRows : /\ grants' = [grants EXCEPT ![AgentGrant] = r]
                                  /\ r.status = "active" /\ r.conn = AgentConn /\ r.expires = now + Day
  BY <1>2, SeedNames, GrantSeeded DEF SeedsAgentGrant, Whole
<1>3. SeedsAppGrant => Exists(conns[AppConn])
  BY DEF SeedsAppGrant, SeedGrant, Seeding, Whole, SeedFits, SeedNeeds
<1>4. SeedsAgentGrant => Exists(conns[AgentConn])
  BY DEF SeedsAgentGrant, SeedGrant, Seeding, Whole, SeedFits, SeedNeeds
<1>. QED BY <1>1, <1>2, <1>3, <1>4

LEMMA GrantsStay ==
  ASSUME Whole, Next
  PROVE  /\ grants' \in [Grants -> GrantRows \cup {NoRow}]
         /\ \A g \in Grants : Exists(grants[g]) => Exists(grants'[g])
         /\ \A g \in Grants : Exists(grants'[g]) => Exists(conns'[grants'[g].conn])
<1> DEFINE Set(g, r) == r \in GrantRows /\ grants' = [grants EXCEPT ![g] = r] /\ Exists(conns[r.conn])
<1>1. \A k \in Conns : Exists(conns[k]) => Exists(conns'[k])
  BY ConnsStay
<1>2. \A g \in Grants : Exists(grants[g]) => grants[g].conn \in Conns /\ Exists(conns[grants[g].conn])
  BY GrantFacts DEF Whole, Rows, Refs
<1>3. ASSUME NEW g \in Grants, NEW r, Set(g, r)
      PROVE  /\ grants' \in [Grants -> GrantRows \cup {NoRow}]
             /\ \A h \in Grants : Exists(grants[h]) => Exists(grants'[h])
             /\ \A h \in Grants : Exists(grants'[h]) => Exists(conns'[grants'[h].conn])
  <2>1. r \in GrantRows /\ r.conn \in Conns /\ Exists(r) /\ Exists(conns[r.conn])
    BY <1>3, NoRowDiffers, GrantFacts
  <2>2. DOMAIN grants = Grants /\ \A h \in Grants : grants'[h] = IF h = g THEN r ELSE grants[h]
    BY <1>3 DEF Whole, Rows
  <2>3. grants' \in [Grants -> GrantRows \cup {NoRow}]
    BY <1>3 DEF Whole, Rows
  <2>. QED BY <1>1, <1>2, <2>1, <2>2, <2>3
<1>4. CASE grants' = grants
  BY <1>1, <1>2, <1>4 DEF Whole, Rows
<1>5. ASSUME NEW c \in Calls, WriteGrant(c) PROVE \E g \in Grants, r \in GrantRows : Set(g, r)
  <2>1. PICK r : GrantWrite(c, r)
    BY <1>5, GrantWritten DEF Whole
  <2>2. calls[c].op = "create" => Exists(conns[calls[c].set.conn])
    BY <1>5 DEF Whole, CallFits, Fits, WriteGrant
  <2>3. Set(calls[c].id, r) /\ calls[c].id \in Grants /\ r \in GrantRows
    BY <1>2, <1>5, <2>1, <2>2 DEF GrantWrite
  <2>. QED BY <2>3
<1>6. CASE SeedsAppGrant \/ SeedsAgentGrant
  BY <1>3, <1>6, SeedGrants, SeedNames
<1>7. ASSUME NEW x, TightenRow(x), Tightening("grants")
      PROVE  \E g \in Grants, r \in GrantRows : Set(g, r)
  <2>1. /\ x \in Grants /\ grants[x] \in GrantRows
        /\ \E r \in GrantRows : grants' = [grants EXCEPT ![x] = r] /\ r.conn = grants[x].conn
    BY <1>7, GrantTaken DEF Whole
  <2>2. Exists(conns[grants[x].conn])
    BY <1>2, <2>1, NoRowDiffers
  <2>. QED BY <2>1, <2>2
<1> HIDE DEF Set
<1>. QED BY <1>3, <1>4, <1>5, <1>6, <1>7, GrantWriters

(* Runtimes are rows and stay; a write keeps what its body leaves out.       *)
RuntimeWrite(c, r) ==
  LET q == calls[c] IN
  /\ q.id \in Runtimes /\ r \in RuntimeRows /\ runtimes' = [runtimes EXCEPT ![q.id] = r]
  /\ r.mode = IF "mode" \in DOMAIN q.set THEN q.set.mode ELSE runtimes[q.id].mode
  /\ r.refresh = IF "refresh" \in DOMAIN q.set THEN q.set.refresh ELSE runtimes[q.id].refresh
  /\ {"mode", "refresh"} \subseteq DOMAIN q.set \/ Exists(runtimes[q.id])

LEMMA RuntimeWritten ==
  ASSUME Rows, Processes, NEW c \in Calls, CallFits(c), WriteRuntime(c)
  PROVE  \E r : RuntimeWrite(c, r)
<1>1. /\ calls[c] \in CallRecords /\ Legal(calls[c]) /\ calls[c].table = "runtime" /\ calls[c].stage = "write"
  BY LegalCall DEF WriteRuntime, Begun
<1>2. calls[c].id \in Runtimes /\ calls[c].op \in {"create", "update"}
  BY <1>1 DEF Legal
<1>3. CASE calls[c].op = "create"
  <2> DEFINE r == [status |-> "active", mode |-> calls[c].set.mode, refresh |-> calls[c].set.refresh]
  <2>1. runtimes' = [runtimes EXCEPT ![calls[c].id] = r] /\ ~Exists(runtimes[calls[c].id])
    BY <1>3 DEF WriteRuntime
  <2>2. calls[c].set \in NewRuntimes
    BY <1>1, <1>3 DEF Legal
  <2>3. DOMAIN calls[c].set = {"mode", "refresh"}
    BY <2>2 DEF NewRuntimes
  <2>4. r \in RuntimeRows
    BY <2>2, WordsAssumption DEF RuntimeRows, NewRuntimes
  <2>5. RuntimeWrite(c, r)
    BY <1>2, <2>1, <2>3, <2>4 DEF RuntimeWrite
  <2>. QED BY <2>5
<1>4. CASE calls[c].op = "update"
  <2> DEFINE r == Update(calls[c].set, runtimes[calls[c].id])
  <2>1. runtimes[calls[c].id] \in RuntimeRows /\ Exists(runtimes[calls[c].id])
    <3>1. Exists(runtimes[calls[c].id])
      BY <1>1, <1>4 DEF CallFits, Fits, Table
    <3>. QED BY <1>2, <3>1, NoRowDiffers DEF Rows
  <2>2. runtimes' = [runtimes EXCEPT ![calls[c].id] = r]
    BY <1>4 DEF WriteRuntime
  <2>3. RuntimeFields(calls[c].set)
    BY <1>1, <1>4 DEF Legal
  <2>4. /\ r \in RuntimeRows
        /\ r.mode = IF "mode" \in DOMAIN calls[c].set THEN calls[c].set.mode ELSE runtimes[calls[c].id].mode
        /\ r.refresh = IF "refresh" \in DOMAIN calls[c].set THEN calls[c].set.refresh ELSE runtimes[calls[c].id].refresh
    BY <2>1, <2>3, UpdatedRuntime
  <2> HIDE DEF r
  <2>5. RuntimeWrite(c, r)
    BY <1>2, <2>1, <2>2, <2>4 DEF RuntimeWrite
  <2>. QED BY <2>5
<1>. QED BY <1>2, <1>3, <1>4

LEMMA RuntimeSeeded ==
  ASSUME SeedCreatesRuntime
  PROVE  \E x \in Runtimes, r \in RuntimeRows :
           /\ AgentOf[x] = SeedAgent /\ seed' = [seed EXCEPT !.pc = "credential", !.runtime = x]
           /\ runtimes' = [runtimes EXCEPT ![x] = r] /\ r.refresh = FALSE
<1>1. PICK x \in Runtimes :
        /\ AgentOf[x] = SeedAgent /\ seed' = [seed EXCEPT !.pc = "credential", !.runtime = x]
        /\ runtimes' = [runtimes EXCEPT ![x] = [status |-> "active", mode |-> "stateless", refresh |-> FALSE]]
  BY DEF SeedCreatesRuntime
<1> DEFINE r == [status |-> "active", mode |-> "stateless", refresh |-> FALSE]
<1>2. r \in RuntimeRows
  BY WordsAssumption DEF RuntimeRows
<1>. QED BY <1>1, <1>2

LEMMA RuntimesStay ==
  ASSUME Whole, Next
  PROVE  /\ runtimes' \in [Runtimes -> RuntimeRows \cup {NoRow}]
         /\ \A x \in Runtimes : Exists(runtimes[x]) => Exists(runtimes'[x])
<1>1. ASSUME NEW x \in Runtimes, NEW r \in RuntimeRows, runtimes' = [runtimes EXCEPT ![x] = r]
      PROVE  /\ runtimes' \in [Runtimes -> RuntimeRows \cup {NoRow}]
             /\ \A y \in Runtimes : Exists(runtimes[y]) => Exists(runtimes'[y])
  BY <1>1, NoRowDiffers DEF Whole, Rows
<1>2. CASE runtimes' = runtimes
  BY <1>2 DEF Whole, Rows
<1>3. ASSUME NEW c \in Calls, WriteRuntime(c)
      PROVE  \E x \in Runtimes, r \in RuntimeRows : runtimes' = [runtimes EXCEPT ![x] = r]
  BY <1>3, RuntimeWritten DEF RuntimeWrite, Whole
<1>4. ASSUME SeedCreatesRuntime
      PROVE  \E x \in Runtimes, r \in RuntimeRows : runtimes' = [runtimes EXCEPT ![x] = r]
  BY <1>4, RuntimeSeeded
<1>. QED BY <1>1, <1>2, <1>3, <1>4, RuntimeWriters

LEMMA RowsStay ==
  ASSUME Whole, Next
  PROVE  /\ Rows' /\ Refs'
         /\ \A t \in Targets : Exists(targets[t]) => Exists(targets'[t])
         /\ \A k \in Conns : Exists(conns[k]) => Exists(conns'[k])
         /\ \A g \in Grants : Exists(grants[g]) => Exists(grants'[g])
         /\ \A x \in Runtimes : Exists(runtimes[x]) => Exists(runtimes'[x])
<1>1. Rows'
  BY TargetsStay, ConnsStay, GrantsStay, RuntimesStay DEF Rows
<1>2. Refs'
  BY ConnsStay, GrantsStay DEF Refs
<1>. QED BY <1>1, <1>2, TargetsStay, ConnsStay, GrantsStay, RuntimesStay

-------------------------------------------------------------------------------
(* How a step moves the calls.                                               *)
Same(c) ==
  /\ calls'[c] \in CallRecords
  /\ calls'[c].op = calls[c].op /\ calls'[c].table = calls[c].table
  /\ calls'[c].id = calls[c].id /\ calls'[c].set = calls[c].set

Still(c) ==
  \/ calls'[c] = calls[c]
  \/ Begun(c) /\ Same(c) /\ calls'[c].stage = calls[c].stage /\ (calls'[c].alone => calls[c].alone)

Forgets(cs) == \A c \in cs : calls[c].stage = "write" /\ calls[c].table = "target" => ~calls'[c].alone

LEMMA ReadMoves ==
  ASSUME Processes, NEW c \in Calls, NEW stage \in Stages, Begun(c),
         calls' = [calls EXCEPT ![c] = [@ EXCEPT !.stage = stage]]
  PROVE  /\ calls' \in [Calls -> CallRecords \cup {Idle}]
         /\ Same(c) /\ calls'[c].stage = stage /\ calls'[c].alone = calls[c].alone
         /\ \A d \in Calls \ {c} : calls'[d] = calls[d]
<1> DEFINE r == [calls[c] EXCEPT !.stage = stage]
<1>1. calls[c] \in CallRecords
  BY LegalCall
<1>2. /\ r \in CallRecords /\ r.stage = stage /\ r.alone = calls[c].alone
      /\ r.op = calls[c].op /\ r.table = calls[c].table /\ r.id = calls[c].id /\ r.set = calls[c].set
  BY <1>1, CallFacts
<1>3. calls \in [Calls -> CallRecords \cup {Idle}] /\ calls' = [calls EXCEPT ![c] = r]
  BY DEF Processes
<1> HIDE DEF r
<1>4. calls'[c] = r /\ calls' \in [Calls -> CallRecords \cup {Idle}] /\ \A d \in Calls \ {c} : calls'[d] = calls[d]
  BY <1>2, <1>3
<1>. QED BY <1>2, <1>4 DEF Same

LEMMA RacedMoves ==
  ASSUME NEW cs \in [Calls -> CallRecords \cup {Idle}], NEW t, NEW c \in Calls
  PROVE  /\ Raced(cs, t) \in [Calls -> CallRecords \cup {Idle}]
         /\ cs[c].stage # "write" => Raced(cs, t)[c] = cs[c]
         /\ cs[c].stage = "write" =>
              /\ cs[c] \in CallRecords /\ Raced(cs, t)[c] \in CallRecords
              /\ Raced(cs, t)[c].stage = "write"
              /\ Raced(cs, t)[c].op = cs[c].op /\ Raced(cs, t)[c].table = cs[c].table
              /\ Raced(cs, t)[c].id = cs[c].id /\ Raced(cs, t)[c].set = cs[c].set
              /\ Raced(cs, t)[c].alone => cs[c].alone
              /\ cs[c].table = "target" => ~Raced(cs, t)[c].alone
<1> DEFINE Hit(d) == cs[d].stage = "write" /\ cs[d].table = "target"
           Row(d) == IF Hit(d) THEN [cs[d] EXCEPT !.alone = FALSE] ELSE cs[d]
<1>1. ASSUME NEW d \in Calls, cs[d].stage = "write" PROVE cs[d] \in CallRecords
  <2>1. Idle.stage # "write"
    BY DEF Idle
  <2>. QED BY <1>1, <2>1
<1>2. ASSUME NEW d \in Calls PROVE
        /\ Row(d) \in CallRecords \cup {Idle}
        /\ cs[d].stage # "write" => Row(d) = cs[d]
        /\ cs[d].stage = "write" =>
             /\ Row(d) \in CallRecords /\ Row(d).stage = "write"
             /\ Row(d).op = cs[d].op /\ Row(d).table = cs[d].table /\ Row(d).id = cs[d].id /\ Row(d).set = cs[d].set
             /\ Row(d).alone => cs[d].alone
             /\ cs[d].table = "target" => ~Row(d).alone
  <2>1. CASE Hit(d)
    <3>1. cs[d] \in CallRecords
      BY <1>1, <2>1
    <3>2. /\ [cs[d] EXCEPT !.alone = FALSE] \in CallRecords
          /\ [cs[d] EXCEPT !.alone = FALSE].stage = cs[d].stage /\ [cs[d] EXCEPT !.alone = FALSE].alone = FALSE
          /\ [cs[d] EXCEPT !.alone = FALSE].op = cs[d].op /\ [cs[d] EXCEPT !.alone = FALSE].table = cs[d].table
          /\ [cs[d] EXCEPT !.alone = FALSE].id = cs[d].id /\ [cs[d] EXCEPT !.alone = FALSE].set = cs[d].set
      BY <3>1, LoneFacts
    <3>3. Row(d) = [cs[d] EXCEPT !.alone = FALSE]
      BY <2>1
    <3> HIDE DEF Row
    <3>. QED BY <2>1, <3>2, <3>3
  <2>2. CASE ~Hit(d)
    BY <1>1, <2>2
  <2>. QED BY <2>1, <2>2
<1>3. Raced(cs, t) = [d \in Calls |-> Row(d)]
  BY DEF Raced
<1> HIDE DEF Row, Hit
<1>4. Raced(cs, t)[c] = Row(c) /\ Raced(cs, t) \in [Calls -> CallRecords \cup {Idle}]
  BY <1>2, <1>3
<1>. QED BY <1>1, <1>2, <1>4

(* A write of a target forgets what other calls knew of its audience.        *)
Moves(c, stage) ==
  /\ calls' \in [Calls -> CallRecords \cup {Idle}]
  /\ Begun(c) /\ Same(c) /\ calls'[c].stage = stage
  /\ \A d \in Calls \ {c} : Still(d)

LEMMA DoneMoves ==
  ASSUME Processes, NEW c \in Calls, Begun(c), calls' = Done(c)
  PROVE  Moves(c, "done")
BY ReadMoves DEF Done, Moves, Still, Stages

LEMMA RacedStill ==
  ASSUME Processes, NEW t, calls' = Raced(calls, t)
  PROVE  /\ calls' \in [Calls -> CallRecords \cup {Idle}]
         /\ \A d \in Calls : Still(d)
         /\ Forgets(Calls)
<1>1. calls \in [Calls -> CallRecords \cup {Idle}]
  BY DEF Processes
<1>2. ASSUME NEW d \in Calls PROVE Still(d) /\ (calls[d].stage = "write" /\ calls[d].table = "target" => ~calls'[d].alone)
  BY <1>1, RacedMoves DEF Still, Same, Begun
<1>3. calls' \in [Calls -> CallRecords \cup {Idle}]
  <2>1. CASE Calls = {}
    BY <1>1, <2>1 DEF Raced
  <2>2. CASE Calls # {}
    BY <1>1, <2>2, RacedMoves
  <2>. QED BY <2>1, <2>2
<1>. QED BY <1>2, <1>3 DEF Forgets

LEMMA WriteMoves ==
  ASSUME Processes, NEW c \in Calls, NEW t, Begun(c), calls' = Raced(Done(c), t)
  PROVE  Moves(c, "done") /\ Forgets(Calls \ {c})
<1> DEFINE r == [calls[c] EXCEPT !.stage = "done"]
<1>1. calls[c] \in CallRecords /\ "done" \in Stages
  BY LegalCall DEF Stages
<1>2. /\ r \in CallRecords /\ r.stage = "done"
      /\ r.op = calls[c].op /\ r.table = calls[c].table /\ r.id = calls[c].id /\ r.set = calls[c].set
  BY <1>1, CallFacts
<1>3. calls \in [Calls -> CallRecords \cup {Idle}] /\ Done(c) = [calls EXCEPT ![c] = r]
  BY DEF Processes, Done
<1> HIDE DEF r
<1>4. Done(c)[c] = r /\ Done(c) \in [Calls -> CallRecords \cup {Idle}] /\ \A d \in Calls \ {c} : Done(c)[d] = calls[d]
  BY <1>2, <1>3
<1>5. calls' \in [Calls -> CallRecords \cup {Idle}] /\ calls'[c] = r
  BY <1>2, <1>4, RacedMoves
<1>6. ASSUME NEW d \in Calls \ {c}
      PROVE  Still(d) /\ (calls[d].stage = "write" /\ calls[d].table = "target" => ~calls'[d].alone)
  BY <1>4, RacedMoves DEF Still, Same, Begun
<1>. QED BY <1>2, <1>5, <1>6 DEF Moves, Same, Forgets

LEMMA OtherMoves ==
  ASSUME Processes, Tighten \/ Seed \/ Tick
  PROVE  calls' \in [Calls -> CallRecords \cup {Idle}] /\ \A d \in Calls : Still(d)
<1>1. CASE calls' = calls
  BY <1>1 DEF Processes, Still
<1>2. CASE Tighten
  BY <1>1, <1>2 DEF Tighten, TightenBegins, ListIndefiniteGrants, ListWeakConnections, TightenEnds, TightenDies,
              ListDuplicates, Listed, TightenRow
<1>3. CASE SeedsTarget
  <2>1. calls' = Raced(calls, SeedTarget)
    BY <1>3 DEF SeedsTarget
  <2>. QED BY <2>1, RacedStill
<1>4. CASE Seed /\ ~SeedsTarget
  BY <1>1, <1>4 DEF Seed, SeedBegins, SeedClient, SeedUris, SeedRevokes, SeedSecret, SeedsAgent, SeedFindsRuntime,
              SeedMissesRuntime, SeedCreatesRuntime, SeedCredential, SeedConnection, SeedGrant, SeedDies
<1>5. CASE Tick
  BY <1>1, <1>5 DEF Tick
<1>. QED BY <1>2, <1>3, <1>4, <1>5

Begins(c) ==
  /\ calls[c].stage = "idle" /\ calls' \in [Calls -> CallRecords \cup {Idle}]
  /\ calls'[c] \in CallRecords /\ calls'[c].stage = "begun" /\ ~calls'[c].alone
  /\ Legal(calls'[c]) /\ Accepted(calls'[c])
  /\ \A d \in Calls \ {c} : calls'[d] = calls[d]

LEMMA BeginMoves ==
  ASSUME Processes, NEW c \in Calls, NEW q \in pool.requests, Begin(c, q)
  PROVE  Begins(c)
<1> DEFINE r == [op |-> q.op, table |-> q.table, id |-> q.id, set |-> q.set, stage |-> "begun", alone |-> FALSE]
<1>1. pool \in Pools /\ Legal(q) /\ q.set \in Bodies
  BY RequestsAssumption DEF Processes, Bodies
<1>2. q.op \in {"create", "update", "delete", "uris"}
  BY <1>1 DEF Legal
<1>3. q.table \in {"target", "connection", "grant", "runtime", "principal"}
  BY <1>1 DEF Legal
<1>4. q.id \in Ids
  BY <1>1 DEF Legal, Ids
<1>5. r \in CallRecords
  BY <1>1, <1>2, <1>3, <1>4 DEF CallRecords, Stages
<1>6. r.op = q.op /\ r.table = q.table /\ r.id = q.id /\ r.set = q.set /\ r.stage = "begun" /\ ~r.alone
  OBVIOUS
<1>7. calls' = [calls EXCEPT ![c] = r] /\ calls[c].stage = "idle" /\ calls \in [Calls -> CallRecords \cup {Idle}]
  BY DEF Begin, Processes
<1> HIDE DEF r
<1>8. Legal(r)
  BY <1>1, <1>6 DEF Legal
<1>9. Accepted(r)
  BY <1>6 DEF Begin, Accepted, RefreshPolicy
<1>10. calls'[c] = r /\ calls' \in [Calls -> CallRecords \cup {Idle}] /\ \A d \in Calls \ {c} : calls'[d] = calls[d]
  BY <1>5, <1>7
<1>. QED BY <1>5, <1>6, <1>7, <1>8, <1>9, <1>10 DEF Begins

LEMMA ReadStep ==
  ASSUME Processes, NEW c \in Calls, NEW stage \in Stages, Begun(c), Read(c, stage)
  PROVE  Moves(c, stage) /\ calls'[c].alone = calls[c].alone
<1>1. calls' = [calls EXCEPT ![c] = [@ EXCEPT !.stage = stage]]
  BY DEF Read
<1>. QED BY <1>1, ReadMoves DEF Moves, Still

LEMMA AskMoves ==
  ASSUME Processes, NEW c \in Calls, AskAudience(c)
  PROVE  Moves(c, "write") /\ calls'[c].alone
<1>1. Begun(c) /\ calls[c] \in CallRecords /\ "write" \in Stages
  BY LegalCall DEF AskAudience, At, Begun, Stages
<1> DEFINE s == [calls[c] EXCEPT !.stage = "write"]
           r == [s EXCEPT !.alone = TRUE]
<1>2. /\ s \in CallRecords /\ s.stage = "write"
      /\ s.op = calls[c].op /\ s.table = calls[c].table /\ s.id = calls[c].id /\ s.set = calls[c].set
  BY <1>1, CallFacts
<1>3. calls' = [calls EXCEPT ![c] = r] /\ calls \in [Calls -> CallRecords \cup {Idle}]
  BY DEF AskAudience, Processes
<1> HIDE DEF s
<1>4. /\ r \in CallRecords /\ r.stage = s.stage /\ r.alone = TRUE
      /\ r.op = s.op /\ r.table = s.table /\ r.id = s.id /\ r.set = s.set
  BY <1>2, LoneFacts
<1> HIDE DEF r
<1>5. calls'[c] = r /\ calls' \in [Calls -> CallRecords \cup {Idle}] /\ \A d \in Calls \ {c} : calls'[d] = calls[d]
  BY <1>3, <1>4
<1>. QED BY <1>1, <1>2, <1>4, <1>5 DEF Moves, Same, Still

(* What a call has read is still there at its next stage.                    *)
LEMMA LegalNames ==
  ASSUME Processes, NEW c \in Calls, Begun(c)
  PROVE  /\ calls[c].table = "target" => calls[c].id \in Targets
         /\ calls[c].table = "connection" => calls[c].id \in Conns
         /\ calls[c].table = "grant" => calls[c].id \in Grants
         /\ calls[c].table = "runtime" => calls[c].id \in Runtimes
         /\ calls[c].table = "connection" /\ calls[c].op = "create" => calls[c].set.target \in Targets
         /\ calls[c].table = "grant" /\ calls[c].op = "create" => calls[c].set.conn \in Conns
         /\ calls[c].op = "update" => calls[c].table \in {"target", "connection", "grant", "runtime"}
         /\ calls[c].table = "principal" <=> calls[c].op \in {"delete", "uris"}
<1>1. Legal(calls[c])
  BY LegalCall
<1>2. calls[c].table = "connection" /\ calls[c].op = "create" => calls[c].set \in NewConnections
  BY <1>1 DEF Legal
<1>3. calls[c].table = "grant" /\ calls[c].op = "create" => calls[c].set \in NewGrants
  BY <1>1 DEF Legal
<1>4. \A s \in NewConnections : s.target \in Targets
  BY DEF NewConnections
<1>5. \A s \in NewGrants : s.conn \in Conns
  BY DEF NewGrants
<1>. QED BY <1>1, <1>2, <1>3, <1>4, <1>5 DEF Legal

LEMMA FitStays ==
  ASSUME Whole, Next, NEW c \in Calls, Begun(c), Same(c), Fits(c, calls'[c].stage)
  PROVE  CallFits(c)'
<1> DEFINE q == calls[c]
           stage == calls'[c].stage
<1>1. /\ q.table = "target" => q.id \in Targets
      /\ q.table = "connection" => q.id \in Conns
      /\ q.table = "grant" => q.id \in Grants
      /\ q.table = "runtime" => q.id \in Runtimes
      /\ q.table = "connection" /\ q.op = "create" => q.set.target \in Targets
      /\ q.table = "grant" /\ q.op = "create" => q.set.conn \in Conns
      /\ q.op = "update" => q.table \in {"target", "connection", "grant", "runtime"}
  BY LegalNames DEF Whole
<1>2. q.table = "connection" /\ q.op = "create" /\ stage \in {"target", "write"} => Exists(targets'[q.set.target])
  BY <1>1, RowsStay DEF Fits
<1>3. q.table = "grant" /\ q.op = "create" /\ stage = "write" => Exists(conns'[q.set.conn])
  BY <1>1, RowsStay DEF Fits
<1>4. ASSUME q.op = "update", stage \in {"ask", "write"} PROVE Exists(Table(calls[c])')
  <2>1. Exists(Table(q))
    BY <1>4 DEF Fits
  <2>2. calls'[c].table = q.table /\ calls'[c].id = q.id
    BY DEF Same
  <2>3. CASE q.table = "target"
    BY <1>1, <2>1, <2>2, <2>3, RowsStay DEF Table
  <2>4. CASE q.table = "connection"
    BY <1>1, <2>1, <2>2, <2>4, RowsStay DEF Table
  <2>5. CASE q.table = "grant"
    BY <1>1, <2>1, <2>2, <2>5, RowsStay DEF Table
  <2>6. CASE q.table = "runtime"
    BY <1>1, <2>1, <2>2, <2>6, RowsStay DEF Table
  <2>. QED BY <1>1, <1>4, <2>3, <2>4, <2>5, <2>6
<1>5. stage = "ask" => q.table = "target" /\ "audience" \in DOMAIN q.set
  BY DEF Fits
<1>6. calls'[c].op = q.op /\ calls'[c].table = q.table /\ calls'[c].set = q.set
  BY DEF Same
<1>. QED BY <1>2, <1>3, <1>4, <1>5, <1>6 DEF CallFits, Fits

LEMMA CallMoves ==
  ASSUME Whole, NEW c \in Calls, Call(c)
  PROVE  Begins(c) \/ \E stage \in Stages : Moves(c, stage) /\ Fits(c, stage)
<1>1. CASE \E q \in pool.requests : Begin(c, q)
  BY <1>1, BeginMoves DEF Whole
<1>2. ASSUME NEW stage \in Stages, Begun(c), Read(c, stage), Fits(c, stage)
      PROVE  \E s \in Stages : Moves(c, s) /\ Fits(c, s)
  BY <1>2, ReadStep DEF Whole
<1>3. ASSUME Begun(c), calls' = Done(c) \/ calls' = Raced(Done(c), calls[c].id)
      PROVE  \E s \in Stages : Moves(c, s) /\ Fits(c, s)
  <2>1. Moves(c, "done")
    BY <1>3, DoneMoves, WriteMoves DEF Whole
  <2>2. Fits(c, "done") /\ "done" \in Stages
    BY DEF Fits, Stages
  <2>. QED BY <2>1, <2>2
<1>4. "ask" \in Stages /\ "principal" \in Stages /\ "target" \in Stages /\ "write" \in Stages
  BY DEF Stages
<1>5. /\ Begun(c) => (calls[c].table = "connection" /\ calls[c].op = "create" => calls[c].set.target \in Targets)
      /\ Begun(c) => (calls[c].table = "grant" /\ calls[c].op = "create" => calls[c].set.conn \in Conns)
      /\ Begun(c) => (calls[c].op \in {"delete", "uris"} <=> calls[c].table = "principal")
  BY LegalNames DEF Whole
<1>6. ASSUME Get(c) PROVE \E s \in Stages : Moves(c, s) /\ Fits(c, s)
  <2>1. Begun(c) /\ calls[c].op = "update" /\ Exists(Table(calls[c]))
    BY <1>6 DEF Get, Begun
  <2>2. CASE Read(c, "ask") /\ calls[c].table = "target" /\ "audience" \in DOMAIN calls[c].set
    BY <1>2, <1>4, <2>1, <2>2 DEF Fits
  <2>3. CASE Read(c, "write")
    BY <1>2, <1>4, <2>1, <2>3 DEF Fits
  <2>. QED BY <1>6, <2>2, <2>3 DEF Get
<1>7. ASSUME AskAudience(c) PROVE \E s \in Stages : Moves(c, s) /\ Fits(c, s)
  <2>1. Moves(c, "write")
    BY <1>7, AskMoves DEF Whole
  <2>2. Fits(c, "write")
    BY <1>7 DEF Whole, CallFits, Fits, AskAudience, At
  <2>. QED BY <1>4, <2>1, <2>2
<1>8. ASSUME AssertPrincipal(c) PROVE \E s \in Stages : Moves(c, s) /\ Fits(c, s)
  BY <1>2, <1>4, <1>8 DEF AssertPrincipal, At, Begun, Fits
<1>9. ASSUME RequireTarget(c) PROVE \E s \in Stages : Moves(c, s) /\ Fits(c, s)
  <2>1. Begun(c) /\ Read(c, "target") /\ calls[c].op = "create" /\ calls[c].table = "connection"
    BY <1>9 DEF RequireTarget, At, Begun
  <2>2. Exists(targets[calls[c].set.target])
    BY <1>5, <1>9, <2>1, TargetFacts DEF RequireTarget, Whole, Rows
  <2>. QED BY <1>2, <1>4, <2>1, <2>2 DEF Fits
<1>10. ASSUME ResolveRuntime(c) PROVE \E s \in Stages : Moves(c, s) /\ Fits(c, s)
  <2>1. Begun(c) /\ Read(c, "write") /\ calls[c].op = "create" /\ calls[c].table = "connection"
    BY <1>10 DEF ResolveRuntime, At, Begun
  <2>2. Exists(targets[calls[c].set.target])
    BY <1>10 DEF Whole, CallFits, Fits, ResolveRuntime, At
  <2>. QED BY <1>2, <1>4, <2>1, <2>2 DEF Fits
<1>11. ASSUME RequireConnection(c) PROVE \E s \in Stages : Moves(c, s) /\ Fits(c, s)
  <2>1. Begun(c) /\ Read(c, "write") /\ calls[c].op = "create" /\ calls[c].table = "grant"
    BY <1>11 DEF RequireConnection, At, Begun
  <2>2. Exists(conns[calls[c].set.conn])
    BY <1>5, <1>11, <2>1, ConnFacts DEF RequireConnection, Whole, Rows
  <2>. QED BY <1>2, <1>4, <2>1, <2>2 DEF Fits
<1>12. ASSUME FindPrincipal(c) PROVE \E s \in Stages : Moves(c, s) /\ Fits(c, s)
  BY <1>2, <1>4, <1>5, <1>12 DEF FindPrincipal, Begun, Fits
<1>13. ASSUME FindAgent(c) PROVE \E s \in Stages : Moves(c, s) /\ Fits(c, s)
  BY <1>2, <1>4, <1>13 DEF FindAgent, At, Begun, Fits
<1>14. WriteTarget(c) => Begun(c) /\ calls' = Raced(Done(c), calls[c].id)
  BY DEF WriteTarget, Begun
<1>15. WriteConnection(c) \/ WriteGrant(c) \/ WriteRuntime(c) \/ DeletePrincipal(c) \/ ReplaceUris(c)
         => Begun(c) /\ calls' = Done(c)
  BY DEF WriteConnection, WriteGrant, WriteRuntime, DeletePrincipal, ReplaceUris, At, Begun
<1>. QED BY <1>1, <1>3, <1>6, <1>7, <1>8, <1>9, <1>10, <1>11, <1>12, <1>13, <1>14, <1>15 DEF Call

LEMMA OneMoves ==
  ASSUME Whole, Next, NEW c \in Calls
  PROVE  /\ calls' \in [Calls -> CallRecords \cup {Idle}]
         /\ Begins(c) \/ Still(c) \/ (Begun(c) /\ Same(c) /\ Fits(c, calls'[c].stage) /\ calls'[c].stage \in Stages)
<1>1. CASE Tighten \/ Seed \/ Tick
  BY <1>1, OtherMoves DEF Whole
<1>2. ASSUME NEW d \in Calls, Call(d)
      PROVE  /\ calls' \in [Calls -> CallRecords \cup {Idle}]
             /\ Begins(c) \/ Still(c) \/ (Begun(c) /\ Same(c) /\ Fits(c, calls'[c].stage) /\ calls'[c].stage \in Stages)
  <2>1. CASE Begins(d)
    <3>1. c # d => Still(c)
      BY <2>1 DEF Begins, Still
    <3>. QED BY <2>1, <3>1 DEF Begins
  <2>2. ASSUME NEW stage \in Stages, Moves(d, stage), Fits(d, stage)
        PROVE  /\ calls' \in [Calls -> CallRecords \cup {Idle}]
               /\ Still(c) \/ (Begun(c) /\ Same(c) /\ Fits(c, calls'[c].stage) /\ calls'[c].stage \in Stages)
    BY <2>2 DEF Moves
  <2>. QED BY <1>2, <2>1, <2>2, CallMoves
<1>. QED BY <1>1, <1>2 DEF Next

LEMMA LegalStays ==
  ASSUME Processes, NEW c \in Calls, Begun(c), Same(c)
  PROVE  Legal(calls'[c])
BY LegalCall DEF Same, Legal

LEMMA CallsWhole ==
  ASSUME Whole, Next
  PROVE  /\ calls' \in [Calls -> CallRecords \cup {Idle}]
         /\ \A c \in Calls : Begun(c)' => calls'[c] \in CallRecords /\ Legal(calls'[c])
         /\ \A c \in Calls : CallFits(c)'
<1>1. ASSUME NEW c \in Calls
      PROVE  /\ calls' \in [Calls -> CallRecords \cup {Idle}]
             /\ Begun(c)' => calls'[c] \in CallRecords /\ Legal(calls'[c])
             /\ CallFits(c)'
  <2>1. CASE Begins(c)
    BY <2>1 DEF Begins, CallFits, Fits
  <2>2. CASE Begun(c) /\ Same(c) /\ Fits(c, calls'[c].stage)
    <3>1. CallFits(c)'
      BY <2>2, FitStays
    <3>2. Legal(calls'[c])
      BY <2>2, LegalStays DEF Whole
    <3>. QED BY <2>2, <3>1, <3>2, OneMoves DEF Same
  <2>3. CASE Begun(c) /\ Still(c)
    <3>1. Same(c) /\ Fits(c, calls'[c].stage)
      BY <2>3, LegalCall DEF Still, Same, Whole, CallFits
    <3>. QED BY <2>2, <2>3, <3>1
  <2>4. CASE ~Begun(c) /\ Still(c)
    <3>2. calls'[c].stage = "idle"
      BY <2>4 DEF Still, Begun
    <3>3. CallFits(c)'
      BY <3>2 DEF CallFits, Fits
    <3>. QED BY <3>2, <3>3, OneMoves DEF Begun
  <2>. QED BY <2>1, <2>2, <2>3, <2>4, OneMoves
<1>2. calls' \in [Calls -> CallRecords \cup {Idle}]
  <2>1. CASE Calls = {}
    <3>1. Tighten \/ Seed \/ Tick
      BY <2>1 DEF Next
    <3>. QED BY <3>1, OtherMoves DEF Whole
  <2>. QED BY <1>1, <2>1
<1>. QED BY <1>1, <1>2

-------------------------------------------------------------------------------
(* How a step moves the tightening.                                          *)
Todos == SUBSET (Targets \cup Grants \cup Conns)

Becomes(pc, todo, groups, at) ==
  tighten' \in TightenRecords /\ tighten'.pc = pc /\ tighten'.todo = todo /\ tighten'.groups = groups /\ tighten'.at = at

LEMMA TightenOn ==
  ASSUME Processes, tighten.pc # "off"
  PROVE  tighten \in TightenRecords /\ tighten.todo \in Todos /\ tighten.groups \in SUBSET Audiences
BY DEF Processes, TightenRecords, Todos

LEMMA TightenBeginMoves ==
  ASSUME Processes, TightenBegins
  PROVE  Becomes("targets", {}, Shared, now)
<1> DEFINE r == [pc |-> "targets", groups |-> Shared, todo |-> {}, at |-> now]
<1>1. now \in Nat /\ Shared \in SUBSET Audiences
  BY DayAssumption DEF Processes, Shared
<1>2. r \in TightenRecords
  BY <1>1 DEF TightenRecords
<1>3. tighten' = r
  BY DEF TightenBegins
<1>. QED BY <1>2, <1>3 DEF Becomes

LEMMA ListedMoves ==
  ASSUME Processes, tighten.pc # "off", NEW pc \in {"targets", "grants", "weak", "done"}, NEW todo \in Todos,
         Listed(pc, todo)
  PROVE  Becomes(pc, todo, tighten.groups, tighten.at)
<1>1. tighten' = [tighten EXCEPT !.pc = pc, !.todo = todo]
  BY DEF Listed
<1>2. /\ tighten'.pc = pc /\ tighten'.todo = todo /\ tighten' \in TightenRecords
      /\ tighten'.groups = tighten.groups /\ tighten'.at = tighten.at
  BY <1>1, TightenOn DEF TightenRecords, Todos
<1>. QED BY <1>2 DEF Becomes

LEMMA DuplicatesMoves ==
  ASSUME Processes, NEW a \in Audiences, ListDuplicates(a)
  PROVE  Becomes("targets", Spare(a), tighten.groups \ {a}, tighten.at)
<1>1. Spare(a) \in Todos
  BY DEF Spare, Sharers, Todos
<1>2. tighten' = [tighten EXCEPT !.groups = tighten.groups \ {a}, !.todo = Spare(a)] /\ tighten.pc = "targets"
  BY DEF ListDuplicates, Tightening
<1>3. tighten.groups \ {a} \in SUBSET Audiences
  BY <1>2, TightenOn
<1>4. tighten \in TightenRecords
  BY <1>2, TightenOn
<1>5. /\ tighten'.groups = tighten.groups \ {a} /\ tighten'.todo = Spare(a) /\ tighten' \in TightenRecords
      /\ tighten'.pc = tighten.pc /\ tighten'.at = tighten.at
  BY <1>1, <1>2, <1>3, <1>4 DEF TightenRecords, Todos
<1>. QED BY <1>2, <1>5 DEF Becomes

LEMMA RowMoves ==
  ASSUME Processes, NEW x, TightenRow(x)
  PROVE  Becomes(tighten.pc, tighten.todo \ {x}, tighten.groups, tighten.at)
<1>1. tighten' = [tighten EXCEPT !.todo = tighten.todo \ {x}] /\ tighten.pc # "off"
  BY DEF TightenRow
<1>2. tighten.todo \ {x} \in Todos
  BY <1>1, TightenOn DEF Todos
<1>3. /\ tighten'.todo = tighten.todo \ {x} /\ tighten' \in TightenRecords
      /\ tighten'.pc = tighten.pc /\ tighten'.groups = tighten.groups /\ tighten'.at = tighten.at
  BY <1>1, <1>2, TightenOn DEF TightenRecords, Todos
<1>. QED BY <1>3 DEF Becomes

LEMMA TightenStill ==
  ASSUME Next
  PROVE  tighten' = tighten \/ Tighten
<1>1. ASSUME NEW c \in Calls, Call(c) PROVE tighten' = tighten
  BY <1>1 DEF Call, Begin, Get, AskAudience, AssertPrincipal, RequireTarget, ResolveRuntime, RequireConnection,
              FindPrincipal, FindAgent, Read, WriteTarget, WriteConnection, WriteGrant, WriteRuntime, Written,
              DeletePrincipal, ReplaceUris, scripts
<1>2. CASE Seed
  BY <1>2 DEF Seed, SeedBegins, SeedClient, SeedUris, SeedRevokes, SeedSecret, SeedsAgent, SeedFindsRuntime,
              SeedMissesRuntime, SeedCreatesRuntime, SeedCredential, SeedsTarget, SeedConnection, SeedGrant, SeedDies
<1>3. CASE Tick
  BY <1>3 DEF Tick, scripts
<1>. QED BY <1>1, <1>2, <1>3 DEF Next

(* What is on a list of the tightening are rows.                             *)
TightenFits ==
  /\ tighten \in TightenRecords \cup {NoScript}
  /\ tighten.pc # "off" => tighten \in TightenRecords
  /\ TodoFits

LEMMA TightenWhole ==
  ASSUME Whole, Next
  PROVE  TightenFits'
<1>1. ASSUME NEW pc, NEW todo, NEW groups, NEW at, Becomes(pc, todo, groups, at), ListFits(pc, todo) PROVE TightenFits'
  BY <1>1, RowsStay DEF Becomes, TodoFits, ListFits, TightenFits
<1>2. ListFits(tighten.pc, tighten.todo)
  BY DEF Whole, TodoFits
<1>3. CASE tighten' = tighten
  BY <1>2, <1>3, RowsStay DEF TodoFits, ListFits, TightenFits, Whole, Processes
<1>4. CASE TightenBegins
  <2>1. ListFits("targets", {})
    BY DEF ListFits
  <2>. QED BY <1>1, <1>4, <2>1, TightenBeginMoves DEF Whole
<1>5. CASE ListIndefiniteGrants
  <2> DEFINE todo == {g \in Grants : IsActive(grants[g]) /\ grants[g].expires = None}
  <2>1. todo \in Todos /\ Listed("grants", todo) /\ tighten.pc # "off"
    BY <1>5 DEF Todos, ListIndefiniteGrants, Tightening
  <2>2. ListFits("grants", todo)
    BY GrantFacts DEF Whole, Rows, ListFits
  <2>3. Becomes("grants", todo, tighten.groups, tighten.at)
    BY <2>1, ListedMoves DEF Whole
  <2>. QED BY <1>1, <2>2, <2>3
<1>6. CASE ListWeakConnections
  <2> DEFINE todo == {k \in Conns : IsActive(conns[k]) /\ Weak(conns[k])}
  <2>1. todo \in Todos /\ Listed("weak", todo) /\ tighten.pc # "off"
    BY <1>6 DEF Todos, ListWeakConnections, Tightening
  <2>2. ListFits("weak", todo)
    BY ConnFacts DEF Whole, Rows, ListFits
  <2>3. Becomes("weak", todo, tighten.groups, tighten.at)
    BY <2>1, ListedMoves DEF Whole
  <2>. QED BY <1>1, <2>2, <2>3
<1>7. CASE TightenEnds
  <2>1. Becomes("done", {}, tighten.groups, tighten.at)
    BY <1>7, ListedMoves DEF Whole, TightenEnds, Tightening, Todos
  <2>2. ListFits("done", {})
    BY DEF ListFits
  <2>. QED BY <1>1, <2>1, <2>2
<1>8. CASE TightenDies
  BY <1>8 DEF TightenDies, NoScript, TodoFits, ListFits, TightenFits
<1>9. ASSUME NEW a \in Audiences, ListDuplicates(a) PROVE TightenFits'
  <2>1. ListFits("targets", Spare(a))
    BY TargetFacts DEF Spare, Sharers, Whole, Rows, ListFits
  <2>. QED BY <1>1, <1>9, <2>1, DuplicatesMoves DEF Whole
<1>10. ASSUME NEW x, TightenRow(x) PROVE TightenFits'
  <2>1. ListFits(tighten.pc, tighten.todo \ {x})
    BY <1>2 DEF ListFits
  <2>. QED BY <1>1, <1>10, <2>1, RowMoves DEF Whole
<1>11. CASE Tighten
  BY <1>4, <1>5, <1>6, <1>7, <1>8, <1>9, <1>10, <1>11 DEF Tighten
<1>. QED BY <1>3, <1>11, TightenStill

-------------------------------------------------------------------------------
(* How a step moves the seed.                                                *)
SeedTo(pc, client, runtime, at) ==
  seed' \in SeedRecords /\ seed'.pc = pc /\ seed'.client = client /\ seed'.runtime = runtime /\ seed'.at = at

LEMMA SeedOn ==
  ASSUME Processes, seed.pc # "off"
  PROVE  seed \in SeedRecords /\ seed.client \in Clients /\ seed.at \in Nat
BY DEF Processes, SeedRecords

LEMMA GoesMoves ==
  ASSUME Processes, seed.pc # "off", NEW pc \in Phases, Goes(pc)
  PROVE  SeedTo(pc, seed.client, seed.runtime, seed.at)
<1>1. seed' = [seed EXCEPT !.pc = pc]
  BY DEF Goes
<1>2. /\ seed' \in SeedRecords /\ seed'.pc = pc
      /\ seed'.client = seed.client /\ seed'.runtime = seed.runtime /\ seed'.at = seed.at
  BY <1>1, SeedOn DEF SeedRecords
<1>. QED BY <1>2 DEF SeedTo

LEMMA SeedBeginMoves ==
  ASSUME Processes, SeedBegins
  PROVE  SeedTo("client", SeedApp, None, now)
<1> DEFINE r == [pc |-> "client", client |-> SeedApp, runtime |-> None, at |-> now]
<1>1. now \in Nat /\ SeedApp \in Clients /\ "client" \in Phases
  BY DayAssumption, NamesAssumption DEF Processes, Phases
<1>2. r \in SeedRecords
  BY <1>1 DEF SeedRecords
<1>3. seed' = r
  BY DEF SeedBegins
<1>. QED BY <1>2, <1>3 DEF SeedTo

LEMMA ConsoleFacts == Console \in Clients /\ Console # SeedApp /\ Clients = {SeedApp, Console}
<1>1. \E c : c \in Clients /\ c # SeedApp
  BY NamesAssumption
<1>2. Console \in Clients /\ Console # SeedApp
  BY <1>1 DEF Console
<1>. QED BY <1>2, NamesAssumption

LEMMA SecretMoves ==
  ASSUME Processes, SeedSecret
  PROVE  IF seed.client = SeedApp THEN SeedTo("client", Console, seed.runtime, seed.at)
         ELSE SeedTo("agent", seed.client, seed.runtime, seed.at)
<1>1. seed \in SeedRecords /\ Console \in Clients /\ "client" \in Phases /\ "agent" \in Phases
  BY SeedOn, ConsoleFacts DEF SeedSecret, Seeding, Phases
<1>2. CASE seed.client = SeedApp
  <2>1. seed' = [seed EXCEPT !.pc = "client", !.client = Console]
    BY <1>2 DEF SeedSecret
  <2>2. /\ seed' \in SeedRecords /\ seed'.pc = "client"
        /\ seed'.client = Console /\ seed'.runtime = seed.runtime /\ seed'.at = seed.at
    BY <1>1, <2>1 DEF SeedRecords
  <2>. QED BY <1>2, <2>2 DEF SeedTo
<1>3. CASE seed.client # SeedApp
  <2>1. seed' = [seed EXCEPT !.pc = "agent"]
    BY <1>3 DEF SeedSecret
  <2>2. /\ seed' \in SeedRecords /\ seed'.pc = "agent"
        /\ seed'.client = seed.client /\ seed'.runtime = seed.runtime /\ seed'.at = seed.at
    BY <1>1, <2>1 DEF SeedRecords
  <2>. QED BY <1>3, <2>2 DEF SeedTo
<1>. QED BY <1>2, <1>3

LEMMA RuntimeMoves ==
  ASSUME Processes, seed.pc # "off", NEW x \in Runtimes, seed' = [seed EXCEPT !.pc = "credential", !.runtime = x]
  PROVE  SeedTo("credential", seed.client, x, seed.at)
<1>1. "credential" \in Phases
  BY DEF Phases, AfterAgent, AfterRuntime
<1>2. /\ seed' \in SeedRecords /\ seed'.pc = "credential"
      /\ seed'.client = seed.client /\ seed'.runtime = x /\ seed'.at = seed.at
  BY <1>1, SeedOn DEF SeedRecords
<1>. QED BY <1>2 DEF SeedTo

LEMMA SeedStill ==
  ASSUME Next
  PROVE  seed' = seed \/ Seed
<1>1. ASSUME NEW c \in Calls, Call(c) PROVE seed' = seed
  BY <1>1 DEF Call, Begin, Get, AskAudience, AssertPrincipal, RequireTarget, ResolveRuntime, RequireConnection,
              FindPrincipal, FindAgent, Read, WriteTarget, WriteConnection, WriteGrant, WriteRuntime, Written,
              DeletePrincipal, ReplaceUris, scripts
<1>2. CASE Tighten
  BY <1>2 DEF Tighten, TightenBegins, ListIndefiniteGrants, ListWeakConnections, TightenEnds, TightenDies,
              ListDuplicates, Listed, TightenRow
<1>3. CASE Tick
  BY <1>3 DEF Tick, scripts
<1>. QED BY <1>1, <1>2, <1>3 DEF Next

(* What the seed relies on is there.                                         *)
LEMMA PhaseOrder ==
  /\ {"uris", "revoke", "secret", "agent", "runtime", "new runtime", "credential", "target", "app connection",
      "app grant", "agent connection", "agent grant", "done", "client"} = Phases
  /\ AfterTarget = {"app connection", "app grant", "agent connection", "agent grant", "done"}
  /\ AfterRuntime = {"credential", "target"} \cup AfterTarget
BY DEF Phases, AfterAgent, AfterRuntime, AfterCredential, AfterTarget, AfterAppConn, AfterAppGrant, AfterAgentConn

SeedRuns ==
  /\ seed \in SeedRecords \cup {NoScript}
  /\ seed.pc # "off" => seed \in SeedRecords
  /\ SeedFits

LEMMA SeedWhole ==
  ASSUME Whole, Next
  PROVE  SeedRuns'
<1>1. ASSUME NEW pc, NEW client, NEW runtime, NEW at, SeedTo(pc, client, runtime, at), SeedNeeds(targets', conns', pc, runtime)
      PROVE  SeedRuns'
  BY <1>1 DEF SeedTo, SeedRuns, SeedFits
<1>2. ASSUME NEW pc, NEW runtime, SeedNeeds(targets, conns, pc, runtime) PROVE SeedNeeds(targets', conns', pc, runtime)
  BY <1>2, RowsStay, SeedNames DEF SeedNeeds
<1>3. SeedNeeds(targets, conns, seed.pc, seed.runtime)
  BY DEF Whole, SeedFits
<1>4. ASSUME seed.pc # "off", NEW pc \in Phases \ (AfterTarget \ {"done"}), Goes(pc),
             pc \in AfterRuntime => seed.pc \in AfterRuntime
      PROVE  SeedRuns'
  <2>1. SeedNeeds(targets, conns, pc, seed.runtime)
    BY <1>3, <1>4, PhaseOrder DEF SeedNeeds
  <2>2. SeedTo(pc, seed.client, seed.runtime, seed.at)
    BY <1>4, GoesMoves DEF Whole
  <2>. QED BY <1>1, <1>2, <2>1, <2>2
<1>5. ASSUME seed.pc \in {"target"} \cup AfterTarget, NEW pc \in AfterTarget, Goes(pc),
             Exists(targets'[SeedTarget]), pc = "app grant" => Exists(conns'[AppConn]),
             pc = "agent grant" => Exists(conns'[AgentConn])
      PROVE  SeedRuns'
  <2>1. seed.pc # "off" /\ pc \in Phases /\ seed.pc \in AfterRuntime
    BY <1>5, PhaseOrder
  <2>2. SeedNeeds(targets', conns', pc, seed.runtime)
    BY <1>3, <1>5, <2>1 DEF SeedNeeds
  <2>3. SeedTo(pc, seed.client, seed.runtime, seed.at)
    BY <1>5, <2>1, GoesMoves DEF Whole
  <2>. QED BY <1>1, <2>2, <2>3
<1>6. CASE seed' = seed
  BY <1>2, <1>3, <1>6 DEF SeedRuns, SeedFits, Whole, Processes
<1>7. CASE SeedBegins
  <2>1. SeedNeeds(targets', conns', "client", None)
    BY PhaseOrder DEF SeedNeeds
  <2>. QED BY <1>1, <1>7, <2>1, SeedBeginMoves DEF Whole
<1>8. CASE SeedClient \/ SeedUris \/ SeedRevokes
  BY <1>4, <1>8, PhaseOrder DEF SeedClient, SeedUris, SeedRevokes, Seeding
<1>9. CASE SeedSecret
  <2>1. \A x : SeedNeeds(targets', conns', "client", x) /\ SeedNeeds(targets', conns', "agent", x)
    BY PhaseOrder DEF SeedNeeds
  <2>. QED BY <1>1, <1>9, <2>1, SecretMoves DEF Whole
<1>10. CASE SeedsAgent \/ SeedMissesRuntime \/ SeedCredential
  BY <1>4, <1>10, PhaseOrder DEF SeedsAgent, SeedMissesRuntime, SeedCredential, Seeding
<1>11. ASSUME SeedFindsRuntime \/ SeedCreatesRuntime PROVE SeedRuns'
  <2>1. PICK x \in Runtimes : AgentOf[x] = SeedAgent /\ seed' = [seed EXCEPT !.pc = "credential", !.runtime = x]
    BY <1>11, RuntimeSeeded DEF SeedFindsRuntime, Reusable
  <2>2. SeedTo("credential", seed.client, x, seed.at)
    BY <1>11, <2>1, RuntimeMoves DEF Whole, SeedFindsRuntime, SeedCreatesRuntime, Seeding
  <2>3. SeedNeeds(targets', conns', "credential", x)
    BY <2>1, PhaseOrder DEF SeedNeeds
  <2>. QED BY <1>1, <2>2, <2>3
<1>12. CASE SeedsTarget
  <2>1. Exists(targets'[SeedTarget])
    BY <1>12, TargetSeeded, NoRowDiffers DEF Whole, Rows
  <2>. QED BY <1>5, <1>12, <2>1, PhaseOrder DEF SeedsTarget, Seeding
<1>13. Seeding("app connection") \/ Seeding("app grant") \/ Seeding("agent connection") \/ Seeding("agent grant")
         => Exists(targets'[SeedTarget])
  BY <1>3, RowsStay, SeedNames, PhaseOrder DEF SeedNeeds, Seeding
<1>14. CASE SeedsAppConn \/ SeedsAgentConn
  <2>1. SeedsAppConn => Exists(conns'[AppConn])
    BY SeedConns, SeedNames, NoRowDiffers DEF Whole, Rows, ConnSeed
  <2>2. SeedsAgentConn => Exists(conns'[AgentConn])
    BY SeedConns, SeedNames, NoRowDiffers DEF Whole, Rows, ConnSeed
  <2>. QED BY <1>5, <1>13, <1>14, <2>1, <2>2, PhaseOrder DEF SeedsAppConn, SeedsAgentConn, SeedConnection, Seeding
<1>15. CASE SeedsAppGrant \/ SeedsAgentGrant
  BY <1>5, <1>13, <1>15, PhaseOrder DEF SeedsAppGrant, SeedsAgentGrant, SeedGrant, Seeding
<1>16. CASE SeedDies
  BY <1>16, PhaseOrder DEF SeedDies, NoScript, SeedRuns, SeedFits, SeedNeeds
<1>17. CASE Seed
  BY <1>7, <1>8, <1>9, <1>10, <1>11, <1>12, <1>14, <1>15, <1>16, <1>17
     DEF Seed, SeedsAppConn, SeedsAgentConn, SeedsAppGrant, SeedsAgentGrant
<1>. QED BY <1>6, <1>17, SeedStill

-------------------------------------------------------------------------------
(* Accounts, the clock and the requests.                                     *)
Accounts ==
  /\ pool \in Pools /\ now \in 0 .. MaxTime /\ secrets \in [Clients -> Nat] /\ uris \subseteq Clients
  /\ principals \in [Agents \cup Clients -> {Restored, [status |-> "deleted", gone |-> TRUE]}]

LEMMA AccountsWhole ==
  ASSUME Whole, Next
  PROVE  Accounts'
<1>0. Accounts
  BY DEF Whole, Processes, Accounts
<1>1. CASE UNCHANGED <<accounts, pool, now>>
  BY <1>0, <1>1 DEF Accounts, accounts
<1>2. ASSUME UNCHANGED <<pool, now>>, principals' \in [Agents \cup Clients -> {Restored, [status |-> "deleted", gone |-> TRUE]}],
             secrets' \in [Clients -> Nat], uris' \subseteq Clients
      PROVE  Accounts'
  BY <1>0, <1>2 DEF Accounts
<1>3. ASSUME NEW c \in Calls, Call(c) PROVE Accounts'
  <2>1. CASE DeletePrincipal(c)
    <3>1. principals' \in [Agents \cup Clients -> {Restored, [status |-> "deleted", gone |-> TRUE]}]
      BY <1>0, <2>1 DEF Accounts, DeletePrincipal
    <3>2. secrets' \in [Clients -> Nat] /\ UNCHANGED <<pool, now, uris>>
      BY <1>0, <2>1 DEF Accounts, DeletePrincipal
    <3>. QED BY <1>0, <1>2, <3>1, <3>2 DEF Accounts
  <2>2. CASE ReplaceUris(c)
    BY <1>0, <1>2, <2>2 DEF Accounts, ReplaceUris
  <2>. QED BY <1>1, <1>3, <2>1, <2>2
           DEF Call, Begin, Get, AskAudience, AssertPrincipal, RequireTarget, ResolveRuntime, RequireConnection,
               FindPrincipal, FindAgent, Read, WriteTarget, WriteConnection, WriteGrant, WriteRuntime, Written
<1>4. CASE Tighten
  BY <1>1, <1>4 DEF Tighten, TightenBegins, ListIndefiniteGrants, ListWeakConnections, TightenEnds, TightenDies,
              ListDuplicates, Listed, TightenRow
<1>5. CASE Tick
  <2>1. now' \in 0 .. MaxTime
    BY <1>0, <1>5, DayAssumption DEF Accounts, Tick
  <2>. QED BY <1>0, <1>5, <2>1 DEF Accounts, Tick, accounts
<1>6. CASE Seed
  <2>1. seed.pc # "off" => seed.client \in Clients
    BY SeedOn DEF Whole
  <2>2. CASE SeedClient
    BY <1>0, <1>2, <2>1, <2>2 DEF Accounts, SeedClient, Seeding
  <2>3. CASE SeedsAgent
    BY <1>0, <1>2, <2>3, SeedNames DEF Accounts, SeedsAgent
  <2>4. CASE SeedUris
    BY <1>0, <1>2, <2>1, <2>4 DEF Accounts, SeedUris, Seeding
  <2>5. CASE SeedRevokes
    BY <1>0, <1>2, <2>5 DEF Accounts, SeedRevokes
  <2>6. CASE SeedSecret
    BY <1>0, <1>2, <2>1, <2>6 DEF Accounts, SeedSecret, Seeding
  <2>7. CASE SeedCredential
    BY <1>0, <1>2, <2>7 DEF Accounts, SeedCredential
  <2>8. CASE SeedBegins \/ SeedFindsRuntime \/ SeedMissesRuntime \/ SeedCreatesRuntime \/ SeedsTarget \/ SeedDies
    BY <1>1, <2>8 DEF SeedBegins, SeedFindsRuntime, SeedMissesRuntime, SeedCreatesRuntime, SeedsTarget, SeedDies
  <2>9. CASE SeedsAppConn \/ SeedsAgentConn \/ SeedsAppGrant \/ SeedsAgentGrant
    BY <1>1, <2>9 DEF SeedsAppConn, SeedsAgentConn, SeedsAppGrant, SeedsAgentGrant, SeedConnection, SeedGrant
  <2>. QED BY <1>6, <2>2, <2>3, <2>4, <2>5, <2>6, <2>7, <2>8, <2>9
           DEF Seed, SeedsAppConn, SeedsAgentConn, SeedsAppGrant, SeedsAgentGrant
<1>. QED BY <1>3, <1>4, <1>5, <1>6 DEF Next

LEMMA WholeStays ==
  ASSUME Whole, Next
  PROVE  Whole'
<1>1. Processes'
  BY CallsWhole, TightenWhole, SeedWhole, AccountsWhole DEF Processes, TightenFits, SeedRuns, Accounts
<1>2. Rows' /\ Refs'
  BY RowsStay
<1>3. TodoFits' /\ SeedFits'
  BY TightenWhole, SeedWhole DEF TightenFits, SeedRuns
<1>. QED BY <1>1, <1>2, <1>3, CallsWhole DEF Whole

LEMMA WholeStutters ==
  ASSUME Whole, UNCHANGED vars
  PROVE  Whole'
<1>1. UNCHANGED <<targets, conns, grants, runtimes, principals, secrets, uris, pool, calls, seed, tighten, now>>
  BY DEF vars, rows, accounts, scripts
<1>2. Rows' /\ Refs' /\ TodoFits' /\ SeedFits'
  BY <1>1 DEF Whole, Rows, Refs, TodoFits, ListFits, SeedFits, SeedNeeds
<1>3. Processes'
  BY <1>1 DEF Whole, Processes, Begun
<1>4. ASSUME NEW c \in Calls PROVE CallFits(c)'
  <2>1. Table(calls[c])' = Table(calls[c])
    BY <1>1 DEF Table
  <2>2. CallFits(c)
    BY DEF Whole
  <2>. QED BY <1>1, <2>1, <2>2 DEF CallFits, Fits
<1>. QED BY <1>2, <1>3, <1>4 DEF Whole

LEMMA WholeAtFirst ==
  ASSUME Init
  PROVE  Whole
<1>1. PICK old \in Legacy : targets = old[1] /\ conns = old[2] /\ grants = old[3] /\ runtimes = old[4]
  BY DEF Init
<1>2. RowsFit(targets, conns, grants, runtimes)
  BY <1>1, LegacyAssumption
<1>3. Rows /\ Refs
  BY <1>2 DEF RowsFit, Rows, Refs
<1>4. calls = [c \in Calls |-> Idle] /\ \A c \in Calls : calls[c].stage = "idle"
  <2>1. Idle.stage = "idle"
    BY DEF Idle
  <2>2. calls = [c \in Calls |-> Idle]
    BY DEF Init
  <2>. QED BY <2>1, <2>2
<1>5. seed.pc = "off" /\ tighten.pc = "off" /\ seed = NoScript /\ tighten = NoScript
  BY DEF Init, NoScript
<1>6. Processes
  <2>1. now \in 0 .. MaxTime /\ secrets \in [Clients -> Nat] /\ uris \subseteq Clients /\ pool \in Pools
    BY DayAssumption DEF Init
  <2>2. principals \in [Agents \cup Clients -> {Restored, [status |-> "deleted", gone |-> TRUE]}]
    BY DEF Init, Restored
  <2>. QED BY <1>4, <1>5, <2>1, <2>2 DEF Processes, Begun
<1>7. \A c \in Calls : CallFits(c)
  BY <1>4 DEF CallFits, Fits
<1>8. TodoFits /\ SeedFits
  BY <1>5, PhaseOrder DEF TodoFits, ListFits, SeedFits, SeedNeeds
<1>. QED BY <1>3, <1>6, <1>7, <1>8 DEF Whole

LEMMA WholeTypes ==
  ASSUME Whole
  PROVE  TypeOK
BY DEF Whole, Rows, Refs, Processes, TypeOK, RowsFit

-------------------------------------------------------------------------------
(* Audiences.                                                                *)
ReadsOn(c) ==
  Begun(c) /\ Same(c) /\ calls[c].stage \notin {"idle", "write", "done"} /\ calls'[c].alone = calls[c].alone

LEMMA LoneCalls ==
  ASSUME Whole, NEW c \in Calls, Call(c)
  PROVE  Begins(c) \/ AskAudience(c) \/ Moves(c, "done") \/ ReadsOn(c)
<1>1. ASSUME NEW stage \in Stages, Begun(c), calls[c].stage \in {"begun", "principal", "target"}, Read(c, stage)
      PROVE  ReadsOn(c)
  BY <1>1, ReadStep DEF ReadsOn, Moves, Whole
<1>2. "ask" \in Stages /\ "principal" \in Stages /\ "target" \in Stages /\ "write" \in Stages
  BY DEF Stages
<1>3. Get(c) \/ AssertPrincipal(c) \/ RequireTarget(c) \/ ResolveRuntime(c) \/ RequireConnection(c)
        \/ FindPrincipal(c) \/ FindAgent(c)
        => /\ Begun(c) /\ calls[c].stage \in {"begun", "principal", "target"}
           /\ Read(c, "ask") \/ Read(c, "principal") \/ Read(c, "target") \/ Read(c, "write")
  BY DEF Get, AssertPrincipal, RequireTarget, ResolveRuntime, RequireConnection, FindPrincipal, FindAgent, At, Begun
<1>4. WriteTarget(c) => Begun(c) /\ calls' = Raced(Done(c), calls[c].id)
  BY DEF WriteTarget, Begun
<1>5. WriteConnection(c) \/ WriteGrant(c) \/ WriteRuntime(c) \/ DeletePrincipal(c) \/ ReplaceUris(c)
         => Begun(c) /\ calls' = Done(c)
  BY DEF WriteConnection, WriteGrant, WriteRuntime, DeletePrincipal, ReplaceUris, At, Begun
<1>6. (\E q \in pool.requests : Begin(c, q)) => Begins(c)
  BY BeginMoves DEF Whole
<1>7. Processes
  BY DEF Whole
<1>. QED BY <1>1, <1>2, <1>3, <1>4, <1>5, <1>6, <1>7, DoneMoves, WriteMoves DEF Call

LEMMA LoneMoves ==
  ASSUME Whole, Next, NEW c \in Calls
  PROVE  \/ Begins(c) \/ AskAudience(c) \/ ReadsOn(c) \/ Still(c)
         \/ Begun(c) /\ Same(c) /\ calls'[c].stage = "done"
<1>1. CASE Tighten \/ Seed \/ Tick
  BY <1>1, OtherMoves DEF Whole
<1>2. ASSUME NEW d \in Calls \ {c}, Call(d) PROVE Still(c)
  <2>1. CASE Begins(d)
    BY <2>1 DEF Begins, Still
  <2>2. ASSUME NEW stage \in Stages, Moves(d, stage) PROVE Still(c)
    BY <2>2 DEF Moves
  <2>. QED BY <1>2, <2>1, <2>2, CallMoves
<1>3. CASE Call(c)
  BY <1>3, LoneCalls DEF Moves
<1>. QED BY <1>1, <1>2, <1>3 DEF Next

LEMMA EarlyStays ==
  ASSUME Whole, Next, NEW c \in Calls, Early(c)
  PROVE  Early(c)'
<1>1. AskAudience(c) => calls'[c].stage = "write"
  BY AskMoves DEF Moves, Whole
<1>. QED BY <1>1, LoneMoves DEF Early, Begins, ReadsOn, Still, Begun

(* A target that is not written alone keeps its place only as it was.        *)
LEMMA SoleUnexposed ==
  ASSUME Whole, Audited, NEW t \in Targets, NEW r, targets' = [targets EXCEPT ![t] = r],
         sole' = IF Exposes(t) THEN sole \ {t} ELSE sole
  PROVE  sole' \subseteq Targets /\ AskedAudiencesDiffer'
<1>1. DOMAIN targets = Targets /\ \A u \in Targets : targets'[u] = IF u = t THEN r ELSE targets[u]
  BY DEF Whole, Rows
<1>2. IsActive(targets[t]) => Exists(targets[t])
  BY DEF IsActive, Exists
<1>3. ~Exposes(t) /\ IsActive(r) => IsActive(targets[t]) /\ targets[t].audience = r.audience
  BY <1>1, <1>2 DEF Exposes
<1>. QED BY <1>1, <1>3 DEF Audited, AskedAudiencesDiffer

LEMMA SoleKept ==
  ASSUME Whole, Audited, Next, NEW t \in Targets, NEW r, targets' = [targets EXCEPT ![t] = r],
         ~IsActive(r), sole' = sole
  PROVE  AskedAudiencesDiffer'
<1>1. DOMAIN targets = Targets /\ \A u \in Targets : targets'[u] = IF u = t THEN r ELSE targets[u]
  BY DEF Whole, Rows
<1>. QED BY <1>1 DEF Audited, AskedAudiencesDiffer

LEMMA SoleWritten ==
  ASSUME Whole, Audited, NEW c \in Calls, WriteTarget(c)
  PROVE  sole' \subseteq Targets /\ AskedAudiencesDiffer'
<1>1. PICK r : TargetWrite(c, r)
  BY TargetWritten DEF Whole
<1>2. CASE ~calls[c].alone
  <2>1. sole' = IF Exposes(calls[c].id) THEN sole \ {calls[c].id} ELSE sole
    BY <1>2 DEF WriteTarget
  <2>. QED BY <1>1, <2>1, SoleUnexposed DEF TargetWrite
<1>3. CASE calls[c].alone
  <2>1. sole' = sole \cup {calls[c].id} /\ calls[c].stage = "write" /\ calls[c].table = "target"
    BY <1>3 DEF WriteTarget
  <2>2. /\ "audience" \in DOMAIN calls[c].set
        /\ \A u \in Targets \ {calls[c].id} : IsActive(targets[u]) => targets[u].audience # calls[c].set.audience
    BY <1>3, <2>1 DEF Audited, Alone, AudienceTaken
  <2>3. r.audience = calls[c].set.audience /\ calls[c].id \in Targets
    BY <1>1, <2>2 DEF TargetWrite
  <2>4. \A u \in Targets : targets'[u] = IF u = calls[c].id THEN r ELSE targets[u]
    BY <1>1 DEF TargetWrite, Whole, Rows
  <2>. QED BY <2>1, <2>2, <2>3, <2>4 DEF Audited, AskedAudiencesDiffer
<1>. QED BY <1>2, <1>3

(* Alone: nobody else has written a target since the question.               *)
LEMMA AloneStays ==
  ASSUME Whole, Audited, Next, NEW c \in Calls
  PROVE  Alone(c)'
<1>1. ASSUME \A t \in Targets : IsActive(targets'[t]) => IsActive(targets[t]) /\ targets'[t].audience = targets[t].audience
      PROVE  Alone(c)'
  <2>1. \A a, x : AudienceTaken(a, {x})' => AudienceTaken(a, {x})
    BY <1>1 DEF AudienceTaken
  <2>2. CASE AskAudience(c)
    <3>1. Same(c) /\ calls'[c].stage = "write" /\ Begun(c)
      BY <2>2, AskMoves DEF Moves, Whole
    <3>2. calls[c].table = "target" /\ "audience" \in DOMAIN calls[c].set
      <4>1. CASE At(c, "create", "target", "begun")
        BY <3>1, <4>1, LegalCall DEF At, Legal, Whole
      <4>2. CASE At(c, "update", "target", "ask")
        BY <4>2 DEF At, Whole, CallFits, Fits
      <4>. QED BY <2>2, <4>1, <4>2 DEF AskAudience
    <3>3. ~AudienceTaken(calls[c].set.audience, {calls[c].id})
      <4>1. CASE calls[c].op # "create"
        BY <2>2, <4>1 DEF AskAudience
      <4>2. CASE calls[c].op = "create"
        BY <2>2, <4>2 DEF AskAudience, AudienceTaken
      <4>. QED BY <4>1, <4>2
    <3>. QED BY <2>1, <3>1, <3>2, <3>3 DEF Alone, Same
  <2>3. CASE ReadsOn(c)
    BY <2>3 DEF ReadsOn, Alone, Audited, Early
  <2>4. CASE Still(c)
    BY <2>1, <2>4 DEF Still, Same, Alone, Audited
  <2>5. CASE Begins(c) \/ calls'[c].stage = "done"
    BY <2>5 DEF Begins, Alone
  <2>. QED BY <2>2, <2>3, <2>4, <2>5, LoneMoves
<1>2. CASE targets' = targets
  BY <1>1, <1>2
<1>3. ASSUME NEW d \in Calls, WriteTarget(d) PROVE Alone(c)'
  <2>1. Moves(d, "done") /\ Forgets(Calls \ {d})
    BY <1>3, WriteMoves DEF WriteTarget, Begun, Whole
  <2>2. CASE c = d
    BY <2>1, <2>2 DEF Moves, Alone
  <2>3. CASE c # d
    BY <2>1, <2>3 DEF Moves, Still, Same, Alone, Forgets
  <2>. QED BY <2>2, <2>3
<1>4. CASE SeedsTarget
  <2>1. calls' = Raced(calls, SeedTarget)
    BY <1>4 DEF SeedsTarget
  <2>2. Still(c) /\ Forgets(Calls)
    BY <2>1, RacedStill DEF Whole
  <2>. QED BY <2>2 DEF Still, Same, Alone, Forgets
<1>5. ASSUME NEW x, TightenRow(x), Tightening("targets") PROVE Alone(c)'
  <2>1. PICK r \in TargetRows : targets' = [targets EXCEPT ![x] = r] /\ r.status = "inactive"
    BY <1>5, TargetTaken DEF Whole
  <2>2. \A t \in Targets : targets'[t] = IF t = x THEN r ELSE targets[t]
    BY <2>1 DEF Whole, Rows
  <2>. QED BY <1>1, <2>1, <2>2 DEF IsActive
<1>. QED BY <1>2, <1>3, <1>4, <1>5, TargetWriters

LEMMA AuditedStays ==
  ASSUME Whole, Audited, Next
  PROVE  Audited'
<1>1. \A c \in Calls : Alone(c)' /\ Early(c)'
  BY AloneStays, EarlyStays DEF Audited
<1>2. sole' \subseteq Targets /\ AskedAudiencesDiffer'
  <2>1. CASE targets' = targets /\ sole' = sole
    BY <2>1 DEF Audited, AskedAudiencesDiffer
  <2>2. CASE SeedsTarget
    <3>1. PICK r : targets' = [targets EXCEPT ![SeedTarget] = r]
      BY <2>2, TargetSeeded DEF Whole
    <3>2. sole' = IF Exposes(SeedTarget) THEN sole \ {SeedTarget} ELSE sole
      BY <2>2 DEF SeedsTarget
    <3>. QED BY <3>1, <3>2, SeedNames, SoleUnexposed
  <2>3. ASSUME NEW x, TightenRow(x), Tightening("targets") PROVE sole' \subseteq Targets /\ AskedAudiencesDiffer'
    <3>1. PICK r \in TargetRows : x \in Targets /\ targets' = [targets EXCEPT ![x] = r] /\ r.status = "inactive"
      BY <2>3, TargetTaken DEF Whole
    <3>2. sole' = sole /\ ~IsActive(r)
      BY <2>3, <3>1 DEF TightenRow, IsActive
    <3>. QED BY <3>1, <3>2, SoleKept DEF Audited
  <2>. QED BY <2>1, <2>2, <2>3, SoleWritten, TargetWriters
<1>. QED BY <1>1, <1>2 DEF Audited

-------------------------------------------------------------------------------
(* Rows refer to rows, and audiences asked for without a race differ.       *)
Kept == Whole /\ Audited

LEMMA KeptAtFirst ==
  ASSUME Init
  PROVE  Kept
<1>1. Whole
  BY WholeAtFirst
<1>2. \A c \in Calls : calls[c].stage = "idle"
  <2>1. Idle.stage = "idle"
    BY DEF Idle
  <2>. QED BY <2>1 DEF Init
<1>3. Audited
  BY <1>2 DEF Init, Audited, AskedAudiencesDiffer, Alone, Early
<1>. QED BY <1>1, <1>3 DEF Kept

LEMMA KeptStays ==
  ASSUME Kept, [Next]_vars
  PROVE  Kept'
<1>1. CASE Next
  BY <1>1, WholeStays, AuditedStays DEF Kept
<1>2. CASE UNCHANGED vars
  <2>1. UNCHANGED <<targets, calls, sole>>
    BY <1>2 DEF vars, rows
  <2>2. Whole'
    BY <1>2, WholeStutters DEF Kept
  <2>3. Audited'
    BY <2>1 DEF Kept, Audited, AskedAudiencesDiffer, Alone, AudienceTaken, Early
  <2>. QED BY <2>2, <2>3 DEF Kept
<1>. QED BY <1>1, <1>2

(* Whatever administrators' calls and scripts write between each other's     *)
(* reads, rows refer to rows that exist.                                     *)
THEOREM RowsReferToRows == Spec => []TypeOK
<1>1. Init => Kept
  BY KeptAtFirst
<1>2. Kept /\ [Next]_vars => Kept'
  BY KeptStays
<1>3. Kept => TypeOK
  BY WholeTypes DEF Kept
<1>. QED BY <1>1, <1>2, <1>3, PTL DEF Spec

(* ensureAudienceUnique gives what a query before the write can: the targets *)
(* written by calls that asked, with nobody between, differ while active.    *)
THEOREM AskedDiffer == Spec => []AskedAudiencesDiffer
<1>1. Init => Kept
  BY KeptAtFirst
<1>2. Kept /\ [Next]_vars => Kept'
  BY KeptStays
<1>3. Kept => AskedAudiencesDiffer
  BY DEF Kept, Audited
<1>. QED BY <1>1, <1>2, <1>3, PTL DEF Spec

-------------------------------------------------------------------------------
(* Birth numbers.                                                            *)
LEMMA LeastNumber ==
  ASSUME NEW S, S \subseteq Nat, S # {}
  PROVE  \E x \in S : \A y \in S : x <= y
<1> DEFINE T == {0 .. (x - 1) : x \in S}
<1>1. T \subseteq FiniteSubsetsOf(Nat)
  <2>1. ASSUME NEW x \in S PROVE 0 .. (x - 1) \in SUBSET Nat /\ IsFiniteSet(0 .. (x - 1))
    BY FS_Interval
  <2>. QED BY <2>1 DEF FiniteSubsetsOf
<1>2. T # {}
  OBVIOUS
<1>3. PICK X \in T : \A Y \in T : ~(<<Y, X>> \in StrictSubsetOrdering(Nat))
  <2> HIDE DEF T
  <2>. QED BY <1>1, <1>2, FS_StrictSubsetOrderingWellFounded, WFMin
<1>4. PICK x \in S : X = 0 .. (x - 1)
  OBVIOUS
<1>5. ASSUME NEW y \in S, y < x PROVE FALSE
  <2>1. 0 .. (y - 1) \subseteq 0 .. (x - 1) /\ y \in 0 .. (x - 1) /\ y \notin 0 .. (y - 1)
    BY <1>5
  <2>2. <<0 .. (y - 1), X>> \in StrictSubsetOrdering(Nat)
    BY <1>1, <1>4, <2>1 DEF StrictSubsetOrdering
  <2>. QED BY <1>3, <2>2
<1>. QED BY <1>5

LEMMA FirstBorn ==
  ASSUME NEW ts, NEW S, S # {}, \A u \in S : ts[u].born \in Nat
  PROVE  \E t \in S : \A u \in S : ts[t].born <= ts[u].born
<1> DEFINE B == {ts[u].born : u \in S}
<1>1. B \subseteq Nat /\ B # {}
  OBVIOUS
<1>2. PICK b \in B : \A y \in B : b <= y
  <2> HIDE DEF B
  <2>. QED BY <1>1, LeastNumber
<1>. QED BY <1>2

LEMMA OldestFacts ==
  ASSUME NEW S, S # {}, \A u \in S : targets[u].born \in Nat
  PROVE  Oldest(S) \in S /\ \A u \in S : targets[Oldest(S)].born <= targets[u].born
<1>1. \E t \in S : \A u \in S : targets[t].born <= targets[u].born
  BY FirstBorn
<1>. QED BY <1>1 DEF Oldest

LEMMA NumberedKept ==
  ASSUME NEW ts \in [Targets -> TargetRows \cup {NoRow}], Numbered(ts), NEW t \in Targets, NEW r \in TargetRows,
         Exists(ts[t]), r.born = ts[t].born
  PROVE  Numbered([ts EXCEPT ![t] = r])
<1> DEFINE us == [ts EXCEPT ![t] = r]
<1>1. \A u \in Targets : us[u] = IF u = t THEN r ELSE ts[u]
  OBVIOUS
<1> HIDE DEF us
<1>2. Exists(r)
  BY NoRowDiffers
<1>3. {u \in Targets : Exists(us[u])} = {u \in Targets : Exists(ts[u])}
  BY <1>1, <1>2
<1>4. Numbered(us)
  BY <1>1, <1>3 DEF Numbered
<1>. QED BY <1>4 DEF us

LEMMA NumberedNew ==
  ASSUME NEW ts \in [Targets -> TargetRows \cup {NoRow}], Numbered(ts), NEW t \in Targets, NEW r \in TargetRows,
         ~Exists(ts[t]), r.born = Cardinality({u \in Targets : Exists(ts[u])})
  PROVE  Numbered([ts EXCEPT ![t] = r])
<1> DEFINE us == [ts EXCEPT ![t] = r]
           S == {u \in Targets : Exists(ts[u])}
           T == {u \in Targets : Exists(us[u])}
<1>1. \A u \in Targets : us[u] = IF u = t THEN r ELSE ts[u]
  OBVIOUS
<1> HIDE DEF us
<1>2. Exists(r)
  BY NoRowDiffers
<1>3. T = S \cup {t} /\ t \notin S
  BY <1>1, <1>2
<1>4. IsFiniteSet(S)
  BY NamesAssumption, FS_Subset
<1>5. Cardinality(S) \in Nat
  BY <1>4, FS_CardinalityType
<1>6. Cardinality(S \cup {t}) = Cardinality(S) + 1
  BY <1>3, <1>4, FS_AddElement
<1>7. Cardinality(T) = Cardinality(S) + 1
  BY <1>3, <1>6
<1>8. \A u \in Targets : Exists(ts[u]) => ts[u].born \in Nat
  BY TargetFacts
<1>9. ASSUME NEW u \in Targets, Exists(us[u])
      PROVE  us[u].born < Cardinality(T) /\ \A v \in Targets \ {u} : Exists(us[v]) => us[v].born # us[u].born
  <2>1. CASE u = t
    <3>1. us[u].born = Cardinality(S)
      BY <1>1, <2>1
    <3>2. \A v \in Targets \ {u} : Exists(us[v]) => us[v].born < Cardinality(S) /\ us[v].born \in Nat
      BY <1>1, <1>8, <2>1 DEF Numbered
    <3>. QED BY <1>5, <1>7, <3>1, <3>2
  <2>2. CASE u # t
    <3>1. Exists(ts[u]) /\ us[u] = ts[u]
      BY <1>1, <1>9, <2>2
    <3>2. us[u].born < Cardinality(S) /\ us[u].born \in Nat
      BY <1>8, <3>1 DEF Numbered
    <3>3. \A v \in Targets \ {u} : v # t /\ Exists(us[v]) => us[v].born # us[u].born
      BY <1>1, <3>1 DEF Numbered
    <3>4. us[t].born = Cardinality(S)
      BY <1>1
    <3> HIDE DEF S, T
    <3>. QED BY <1>5, <1>7, <3>2, <3>3, <3>4
  <2>. QED BY <2>1, <2>2
<1>10. Numbered(us)
  BY <1>9 DEF Numbered
<1>. QED BY <1>10 DEF us

LEMMA TargetShape ==
  ASSUME Whole, Next, targets' # targets
  PROVE  \E t \in Targets, r \in TargetRows :
           /\ targets' = [targets EXCEPT ![t] = r]
           /\ IF Exists(targets[t]) THEN r.born = targets[t].born ELSE r.born = Newborn
<1>1. ASSUME NEW c \in Calls, WriteTarget(c)
      PROVE  \E t \in Targets, r \in TargetRows :
               /\ targets' = [targets EXCEPT ![t] = r]
               /\ IF Exists(targets[t]) THEN r.born = targets[t].born ELSE r.born = Newborn
  <2>1. PICK r : TargetWrite(c, r)
    BY <1>1, TargetWritten DEF Whole
  <2>. QED BY <2>1 DEF TargetWrite
<1>2. ASSUME SeedsTarget
      PROVE  \E t \in Targets, r \in TargetRows :
               /\ targets' = [targets EXCEPT ![t] = r]
               /\ IF Exists(targets[t]) THEN r.born = targets[t].born ELSE r.born = Newborn
  BY <1>2, TargetSeeded DEF Whole
<1>3. ASSUME NEW x, TightenRow(x), Tightening("targets")
      PROVE  \E t \in Targets, r \in TargetRows :
               /\ targets' = [targets EXCEPT ![t] = r]
               /\ IF Exists(targets[t]) THEN r.born = targets[t].born ELSE r.born = Newborn
  BY <1>3, TargetTaken, NoRowDiffers DEF Whole
<1>. QED BY <1>1, <1>2, <1>3, TargetWriters

LEMMA NumberedStays ==
  ASSUME Whole, Numbered(targets), Next
  PROVE  Numbered(targets')
<1>1. CASE targets' = targets
  BY <1>1
<1>2. CASE targets' # targets
  <2>1. PICK t \in Targets, r \in TargetRows :
          /\ targets' = [targets EXCEPT ![t] = r]
          /\ IF Exists(targets[t]) THEN r.born = targets[t].born ELSE r.born = Newborn
    BY <1>2, TargetShape
  <2>2. targets \in [Targets -> TargetRows \cup {NoRow}]
    BY DEF Whole, Rows
  <2>3. Numbered([targets EXCEPT ![t] = r])
    BY <2>1, <2>2, NumberedKept, NumberedNew DEF Newborn
  <2>. QED BY <2>1, <2>3
<1>. QED BY <1>1, <1>2

-------------------------------------------------------------------------------
(* The tightening.                                                           *)
LEMMA OthersTouch ==
  ASSUME Whole, (\E c \in Calls : Call(c)) \/ Seed \/ Tick
  PROVE  /\ tighten' = tighten /\ before' = before /\ touched \subseteq touched'
         /\ \A t \in Targets \ touched' : targets'[t] = targets[t]
         /\ \A k \in Conns \ touched' : conns'[k] = conns[k]
         /\ \A g \in Grants \ touched' : grants'[g] = grants[g]
<1> DEFINE Leaves ==
      /\ tighten' = tighten /\ before' = before /\ touched \subseteq touched'
      /\ \A t \in Targets \ touched' : targets'[t] = targets[t]
      /\ \A k \in Conns \ touched' : conns'[k] = conns[k]
      /\ \A g \in Grants \ touched' : grants'[g] = grants[g]
<1>1. CASE UNCHANGED <<targets, conns, grants, tighten, before, touched>>
  BY <1>1
<1>2. ASSUME NEW id, touched' = touched \cup {id}, UNCHANGED <<tighten, before>>,
             targets' = targets \/ \E r : targets' = [targets EXCEPT ![id] = r],
             conns' = conns \/ \E r : conns' = [conns EXCEPT ![id] = r],
             grants' = grants \/ \E r : grants' = [grants EXCEPT ![id] = r]
      PROVE  Leaves
  <2>1. DOMAIN targets = Targets /\ DOMAIN conns = Conns /\ DOMAIN grants = Grants
    BY DEF Whole, Rows
  <2>. QED BY <1>2, <2>1
<1>3. ASSUME NEW c \in Calls, Call(c) PROVE Leaves
  <2>1. CASE WriteTarget(c)
    <3>1. \E r : targets' = [targets EXCEPT ![calls[c].id] = r]
      BY <2>1 DEF WriteTarget
    <3>2. touched' = touched \cup {calls[c].id} /\ UNCHANGED <<tighten, before, conns, grants>>
      BY <2>1 DEF WriteTarget, Written, scripts
    <3>. QED BY <1>2, <3>1, <3>2
  <2>2. CASE WriteConnection(c)
    <3>1. \E r : conns' = [conns EXCEPT ![calls[c].id] = r]
      BY <2>2 DEF WriteConnection
    <3>2. touched' = touched \cup {calls[c].id} /\ UNCHANGED <<tighten, before, targets, grants>>
      BY <2>2 DEF WriteConnection, Written, scripts
    <3>. QED BY <1>2, <3>1, <3>2
  <2>3. CASE WriteGrant(c)
    <3>1. \E r : grants' = [grants EXCEPT ![calls[c].id] = r]
      BY <2>3 DEF WriteGrant
    <3>2. touched' = touched \cup {calls[c].id} /\ UNCHANGED <<tighten, before, conns, targets>>
      BY <2>3 DEF WriteGrant, Written, scripts
    <3>. QED BY <1>2, <3>1, <3>2
  <2>4. CASE WriteRuntime(c)
    BY <1>2, <2>4 DEF WriteRuntime, Written, scripts
  <2>. QED BY <1>1, <1>3, <2>1, <2>2, <2>3, <2>4
           DEF Call, Begin, Get, AskAudience, AssertPrincipal, RequireTarget, ResolveRuntime, RequireConnection,
               FindPrincipal, FindAgent, Read, DeletePrincipal, ReplaceUris, scripts, rows
<1>4. CASE Tick
  BY <1>1, <1>4 DEF Tick, scripts, rows
<1>5. CASE Seed
  <2>1. CASE SeedsTarget
    <3>1. \E r : targets' = [targets EXCEPT ![SeedTarget] = r]
      BY <2>1 DEF SeedsTarget
    <3>. QED BY <1>2, <2>1, <3>1 DEF SeedsTarget
  <2>2. CASE SeedsAppConn \/ SeedsAgentConn
    <3>1. \E k : /\ \E r : conns' = [conns EXCEPT ![k] = r]
                 /\ touched' = touched \cup {k} /\ UNCHANGED <<tighten, before, targets, grants>>
      BY <2>2 DEF SeedsAppConn, SeedsAgentConn, SeedConnection
    <3>. QED BY <1>2, <3>1
  <2>3. CASE SeedsAppGrant \/ SeedsAgentGrant
    <3>1. \E g : /\ \E r : grants' = [grants EXCEPT ![g] = r]
                 /\ touched' = touched \cup {g} /\ UNCHANGED <<tighten, before, targets, conns>>
      BY <2>3 DEF SeedsAppGrant, SeedsAgentGrant, SeedGrant
    <3>. QED BY <1>2, <3>1
  <2>4. CASE SeedCreatesRuntime
    BY <1>2, <2>4 DEF SeedCreatesRuntime
  <2>5. CASE SeedBegins \/ SeedClient \/ SeedUris \/ SeedRevokes \/ SeedSecret \/ SeedsAgent
             \/ SeedFindsRuntime \/ SeedMissesRuntime \/ SeedCredential \/ SeedDies
    BY <1>1, <2>5 DEF SeedBegins, SeedClient, SeedUris, SeedRevokes, SeedSecret, SeedsAgent, SeedFindsRuntime,
                      SeedMissesRuntime, SeedCredential, SeedDies, rows
  <2>. QED BY <1>5, <2>1, <2>2, <2>3, <2>4, <2>5
           DEF Seed, SeedsAppConn, SeedsAgentConn, SeedsAppGrant, SeedsAgentGrant
<1>. QED BY <1>3, <1>4, <1>5

LEMMA RepairedLoose ==
  ASSUME Whole, Repaired, (\E c \in Calls : Call(c)) \/ Seed \/ Tick
  PROVE  Repaired'
<1>1. /\ tighten' = tighten /\ touched \subseteq touched'
      /\ \A t \in Targets \ touched' : targets'[t] = targets[t] /\ t \notin touched
      /\ \A k \in Conns \ touched' : conns'[k] = conns[k] /\ k \notin touched
      /\ \A g \in Grants \ touched' : grants'[g] = grants[g] /\ g \notin touched
  BY OthersTouch
<1>2. \A t, u \in Targets \ touched' : Clash(t, u)' <=> Clash(t, u)
  BY <1>1 DEF Clash
<1>. QED BY <1>1, <1>2 DEF Repaired, Tightening

(* Two targets that clash are on the list of their audience.                 *)
LEMMA ClashShared ==
  ASSUME Whole, NEW t \in Targets, NEW u \in Targets \ {t}, Clash(t, u)
  PROVE  targets[t].audience \in Shared
<1> DEFINE S == Sharers(targets[t].audience)
<1>1. t \in S /\ u \in S /\ S \subseteq Targets
  BY DEF Clash, Sharers
<1>2. IsFiniteSet(S) /\ IsFiniteSet({t, u}) /\ {t, u} \in SUBSET S
  BY <1>1, NamesAssumption, FS_Subset
<1>3. Cardinality({t}) = 1 /\ IsFiniteSet({t})
  BY FS_Singleton
<1>4. Cardinality({t} \cup {u}) = 2
  BY <1>3, FS_AddElement
<1>5. {t} \cup {u} = {t, u}
  OBVIOUS
<1>6. Cardinality({t, u}) <= Cardinality(S)
  BY <1>2, FS_Subset
<1>7. Cardinality(S) \in Nat
  BY <1>2, FS_CardinalityType
<1>8. Cardinality(S) > 1
  <2> HIDE DEF S
  <2>. QED BY <1>4, <1>5, <1>6, <1>7
<1>9. targets[t].audience \in Audiences
  BY TargetFacts DEF Whole, Rows, Clash
<1>. QED BY <1>8, <1>9 DEF Shared

LEMMA SpareFacts ==
  ASSUME Whole, NEW a \in Audiences
  PROVE  /\ Spare(a) \subseteq Sharers(a)
         /\ \A t, u \in Sharers(a) : t # u => t \in Spare(a) \/ u \in Spare(a)
         /\ \A t \in Spare(a) : \E u \in Sharers(a) : u # t /\ targets[u].born <= targets[t].born
<1>1. \A u \in Sharers(a) : targets[u].born \in Nat
  BY TargetFacts DEF Whole, Rows, Sharers
<1>2. CASE Sharers(a) = {}
  BY <1>2 DEF Spare
<1>3. CASE Sharers(a) # {}
  <2>1. Spare(a) = Sharers(a) \ {Oldest(Sharers(a))}
    BY <1>3 DEF Spare
  <2>2. Oldest(Sharers(a)) \in Sharers(a) /\ \A u \in Sharers(a) : targets[Oldest(Sharers(a))].born <= targets[u].born
    BY <1>1, <1>3, OldestFacts
  <2>. QED BY <2>1, <2>2
<1>. QED BY <1>2, <1>3

LEMMA RepairedRow ==
  ASSUME Whole, Repaired, NEW x, TightenRow(x)
  PROVE  Repaired'
<1>1. Becomes(tighten.pc, tighten.todo \ {x}, tighten.groups, tighten.at) /\ tighten.pc \in {"targets", "grants", "weak"}
  BY RowMoves DEF TightenRow, Whole
<1>2. touched' = touched
  BY DEF TightenRow
<1>3. DOMAIN targets = Targets /\ DOMAIN conns = Conns /\ DOMAIN grants = Grants
  BY DEF Whole, Rows
<1>4. CASE Tightening("targets")
  <2>1. PICK r \in TargetRows : targets' = [targets EXCEPT ![x] = r] /\ r.status = "inactive"
    BY <1>4, TargetTaken DEF Whole
  <2>2. \A t \in Targets : targets'[t] = IF t = x THEN r ELSE targets[t]
    BY <1>3, <2>1
  <2>3. \A t, u \in Targets : Clash(t, u)' => Clash(t, u) /\ t # x /\ u # x /\ targets'[t] = targets[t]
    BY <2>1, <2>2 DEF Clash, IsActive
  <2>. QED BY <1>1, <1>2, <1>4, <2>3 DEF Repaired, Becomes, Tightening
<1>5. CASE Tightening("grants")
  <2>1. PICK r \in GrantRows : grants' = [grants EXCEPT ![x] = r] /\ r.expires \in Nat
    BY <1>5, GrantTaken DEF Whole
  <2>2. \A g \in Grants : grants'[g] = IF g = x THEN r ELSE grants[g]
    BY <1>3, <2>1
  <2>3. r.expires # None
    BY <2>1, NamesAssumption
  <2>4. targets' = targets
    BY <1>5 DEF TightenRow, Tightening
  <2>5. \A t, u \in Targets : Clash(t, u)' <=> Clash(t, u)
    BY <2>4 DEF Clash
  <2>. QED BY <1>1, <1>2, <1>5, <2>2, <2>3, <2>5 DEF Repaired, Becomes, Tightening
<1>6. CASE Tightening("weak")
  <2>1. PICK r \in ConnRows : conns' = [conns EXCEPT ![x] = r] /\ r.mode = "forbidden"
    BY <1>6, ConnTaken DEF Whole
  <2>2. \A k \in Conns : conns'[k] = IF k = x THEN r ELSE conns[k]
    BY <1>3, <2>1
  <2>3. ~Weak(r)
    BY <2>1 DEF Weak
  <2>4. targets' = targets /\ grants' = grants
    BY <1>6 DEF TightenRow, Tightening
  <2>5. \A t, u \in Targets : Clash(t, u)' <=> Clash(t, u)
    BY <2>4 DEF Clash
  <2>. QED BY <1>1, <1>2, <1>6, <2>2, <2>3, <2>4, <2>5 DEF Repaired, Becomes, Tightening
<1>. QED BY <1>1, <1>4, <1>5, <1>6 DEF Tightening

LEMMA RepairedTighten ==
  ASSUME Whole, Repaired, Tighten
  PROVE  Repaired'
<1>1. Processes
  BY DEF Whole
<1>2. ASSUME UNCHANGED <<targets, conns, grants>> PROVE \A t, u \in Targets : Clash(t, u)' <=> Clash(t, u)
  BY <1>2 DEF Clash
<1>3. CASE TightenBegins
  <2>1. Becomes("targets", {}, Shared, now) /\ UNCHANGED <<targets, conns, grants>>
    BY <1>1, <1>3, TightenBeginMoves DEF TightenBegins, rows
  <2>. QED BY <1>2, <2>1, ClashShared DEF Repaired, Becomes, Tightening
<1>4. ASSUME NEW a \in Audiences, ListDuplicates(a) PROVE Repaired'
  <2>1. /\ Becomes("targets", Spare(a), tighten.groups \ {a}, tighten.at) /\ UNCHANGED <<targets, conns, grants, touched>>
        /\ tighten.pc = "targets" /\ tighten.todo = {}
    BY <1>1, <1>4, DuplicatesMoves DEF ListDuplicates, rows, Tightening
  <2>2. ASSUME NEW t \in Targets, NEW u \in Targets \ {t}, Clash(t, u), targets[t].audience = a
        PROVE  t \in Spare(a) \/ u \in Spare(a)
    BY <2>2, SpareFacts DEF Clash, Sharers
  <2>. QED BY <1>2, <2>1, <2>2 DEF Repaired, Becomes, Tightening
<1>5. CASE ListIndefiniteGrants
  <2> DEFINE todo == {g \in Grants : IsActive(grants[g]) /\ grants[g].expires = None}
  <2>1. /\ todo \in Todos /\ Listed("grants", todo) /\ UNCHANGED <<targets, conns, grants, touched>>
        /\ tighten.pc = "targets" /\ tighten.todo = {} /\ tighten.groups = {}
    BY <1>5 DEF Todos, ListIndefiniteGrants, Tightening, Listed, rows
  <2>2. Becomes("grants", todo, tighten.groups, tighten.at)
    <3> HIDE DEF todo
    <3>. QED BY <1>1, <2>1, ListedMoves
  <2>. QED BY <1>2, <2>1, <2>2 DEF Repaired, Becomes, Tightening
<1>6. CASE ListWeakConnections
  <2> DEFINE todo == {k \in Conns : IsActive(conns[k]) /\ Weak(conns[k])}
  <2>1. /\ todo \in Todos /\ Listed("weak", todo) /\ UNCHANGED <<targets, conns, grants, touched>>
        /\ tighten.pc = "grants" /\ tighten.todo = {}
    BY <1>6 DEF Todos, ListWeakConnections, Tightening, Listed, rows
  <2>2. Becomes("weak", todo, tighten.groups, tighten.at)
    <3> HIDE DEF todo
    <3>. QED BY <1>1, <2>1, ListedMoves
  <2>. QED BY <1>2, <2>1, <2>2 DEF Repaired, Becomes, Tightening
<1>7. CASE TightenEnds
  <2>1. /\ Becomes("done", {}, tighten.groups, tighten.at) /\ UNCHANGED <<targets, conns, grants, touched>>
        /\ tighten.pc = "weak" /\ tighten.todo = {}
    BY <1>1, <1>7, ListedMoves DEF TightenEnds, Tightening, Todos, Listed, rows
  <2>. QED BY <1>2, <2>1 DEF Repaired, Becomes, Tightening
<1>8. CASE TightenDies
  BY <1>8 DEF TightenDies, NoScript, Repaired, Tightening
<1>. QED BY <1>3, <1>4, <1>5, <1>6, <1>7, <1>8, RepairedRow DEF Tighten

LEMMA SparedLoose ==
  ASSUME Whole, Spared, (\E c \in Calls : Call(c)) \/ Seed \/ Tick
  PROVE  Spared'
<1>1. /\ tighten' = tighten /\ before' = before /\ touched \subseteq touched'
      /\ \A t \in Targets \ touched' : targets'[t] = targets[t]
  BY OthersTouch
<1>2. \A t \in Targets : Oldish(t)' <=> Oldish(t)
  BY <1>1 DEF Oldish
<1>3. ASSUME touched' \cap Targets = {}, NEW t \in Targets, AsBefore(t) PROVE AsBefore(t)'
  BY <1>1, <1>2, <1>3 DEF AsBefore
<1>4. ASSUME tighten.pc = "targets", NEW t \in tighten.todo PROVE t \in Targets
  BY <1>4 DEF Whole, TodoFits, ListFits
<1>. QED BY <1>1, <1>2, <1>3, <1>4 DEF Spared, Tightening

LEMMA SparedStill ==
  ASSUME Whole, Spared, UNCHANGED <<targets, before, touched>>, tighten.pc # "off",
         tighten'.pc = "targets" => \A t \in tighten'.todo : t \in Targets /\ IsActive(targets[t]) /\
            \E u \in Targets : u # t /\ IsActive(targets[u]) /\ targets[u].audience = targets[t].audience
                               /\ targets[u].born <= targets[t].born
  PROVE  Spared'
<1>1. \A t \in Targets : Oldish(t)' <=> Oldish(t)
  BY DEF Oldish
<1>2. ASSUME touched \cap Targets = {} PROVE \A t \in Targets : AsBefore(t) /\ AsBefore(t)'
  BY <1>1, <1>2 DEF AsBefore, Spared
<1>3. ASSUME touched \cap Targets = {}, tighten'.pc = "targets", NEW t \in tighten'.todo
      PROVE  IsActive(before[t]) /\ ~Oldish(t) /\ t \in Targets
  <2>1. PICK u \in Targets : /\ u # t /\ IsActive(targets[u]) /\ targets[u].audience = targets[t].audience
                             /\ targets[u].born <= targets[t].born
    BY <1>3
  <2>2. t \in Targets /\ IsActive(targets[t])
    BY <1>3
  <2>3. Exists(targets[t]) /\ Exists(targets[u])
    BY <2>1, <2>2 DEF IsActive, Exists
  <2>4. /\ IsActive(before[t]) /\ IsActive(before[u]) /\ Exists(before[t]) /\ Exists(before[u])
        /\ before[u].audience = before[t].audience /\ before[u].born <= before[t].born
    BY <1>2, <1>3, <2>1, <2>2, <2>3 DEF AsBefore
  <2>5. before[u].born # before[t].born /\ before[u].born \in Nat /\ before[t].born \in Nat
    BY <2>1, <2>2, <2>4, TargetFacts DEF Spared, Numbered
  <2>6. ~(before[t].born <= before[u].born)
    BY <2>4, <2>5
  <2>. QED BY <2>2, <2>4, <2>6 DEF Oldish
<1>. QED BY <1>1, <1>2, <1>3 DEF Spared, Tightening

LEMMA SparedRow ==
  ASSUME Whole, Spared, NEW x, TightenRow(x)
  PROVE  Spared'
<1>1. Becomes(tighten.pc, tighten.todo \ {x}, tighten.groups, tighten.at)
  BY RowMoves DEF Whole
<1>2. touched' = touched /\ before' = before /\ tighten.pc # "off"
  BY DEF TightenRow
<1>3. \A t \in Targets : Oldish(t)' <=> Oldish(t)
  BY <1>2 DEF Oldish
<1>4. ASSUME tighten.pc = "targets", NEW t \in tighten.todo PROVE t \in Targets
  BY <1>4 DEF Whole, TodoFits, ListFits
<1>5. CASE ~Tightening("targets")
  <2>1. targets' = targets
    BY <1>5 DEF TightenRow
  <2>2. \A t \in Targets : AsBefore(t)' <=> AsBefore(t)
    BY <1>2, <1>3, <2>1 DEF AsBefore
  <2>. QED BY <1>1, <1>2, <1>5, <2>2 DEF Spared, Becomes, Tightening
<1>6. CASE Tightening("targets")
  <2>1. /\ x \in Targets /\ x \in tighten.todo /\ targets[x] \in TargetRows
        /\ \E r \in TargetRows :
             /\ targets' = [targets EXCEPT ![x] = r] /\ r.status = "inactive"
             /\ r.audience = targets[x].audience /\ r.born = targets[x].born
    BY <1>6, TargetTaken DEF Whole
  <2>2. PICK r \in TargetRows :
             /\ targets' = [targets EXCEPT ![x] = r] /\ r.status = "inactive"
             /\ r.audience = targets[x].audience /\ r.born = targets[x].born
    BY <2>1
  <2>3. \A t \in Targets : targets'[t] = IF t = x THEN r ELSE targets[t]
    BY <2>2 DEF Whole, Rows
  <2>4. ~IsActive(r) /\ Exists(r) /\ Exists(targets[x])
    BY <2>1, <2>2, NoRowDiffers DEF IsActive
  <2>5. ASSUME touched \cap Targets = {}, NEW t \in Targets PROVE AsBefore(t)'
    <3>1. AsBefore(t) /\ ~Oldish(x)
      BY <1>2, <1>6, <2>1, <2>5 DEF Spared
    <3>2. CASE t = x
      BY <1>2, <1>3, <2>2, <2>3, <2>4, <3>1, <3>2 DEF AsBefore
    <3>3. CASE t # x
      BY <1>2, <1>3, <2>3, <3>1, <3>3 DEF AsBefore
    <3>. QED BY <3>2, <3>3
  <2>. QED BY <1>1, <1>2, <1>3, <1>4, <1>6, <2>5 DEF Spared, Becomes, Tightening
<1>. QED BY <1>5, <1>6

LEMMA SparedTighten ==
  ASSUME Whole, Numbered(targets), Spared, Tighten
  PROVE  Spared'
<1>1. Processes
  BY DEF Whole
<1>2. CASE TightenBegins
  <2>1. Becomes("targets", {}, Shared, now) /\ targets' = targets /\ before' = targets
    BY <1>1, <1>2, TightenBeginMoves DEF TightenBegins, rows
  <2>2. before' \in [Targets -> TargetRows \cup {NoRow}]
    BY <2>1 DEF Whole, Rows
  <2>3. \A t \in Targets : AsBefore(t)'
    BY <2>1 DEF AsBefore
  <2>. QED BY <2>1, <2>2, <2>3 DEF Spared, Becomes
<1>3. ASSUME NEW a \in Audiences, ListDuplicates(a) PROVE Spared'
  <2>1. /\ Becomes("targets", Spare(a), tighten.groups \ {a}, tighten.at) /\ UNCHANGED <<targets, before, touched>>
        /\ tighten.pc # "off"
    BY <1>1, <1>3, DuplicatesMoves DEF ListDuplicates, rows, Tightening
  <2>2. ASSUME NEW t \in Spare(a)
        PROVE  /\ t \in Targets /\ IsActive(targets[t])
               /\ \E u \in Targets : u # t /\ IsActive(targets[u]) /\ targets[u].audience = targets[t].audience
                                     /\ targets[u].born <= targets[t].born
    <3>1. PICK u \in Sharers(a) : u # t /\ targets[u].born <= targets[t].born
      BY SpareFacts
    <3>2. t \in Sharers(a)
      BY SpareFacts
    <3>. QED BY <3>1, <3>2 DEF Sharers
  <2>. QED BY <2>1, <2>2, SparedStill DEF Becomes
<1>4. CASE ListIndefiniteGrants
  <2> DEFINE todo == {g \in Grants : IsActive(grants[g]) /\ grants[g].expires = None}
  <2>1. todo \in Todos /\ Listed("grants", todo) /\ UNCHANGED <<targets, before, touched>> /\ tighten.pc # "off"
    BY <1>4 DEF Todos, ListIndefiniteGrants, Tightening, Listed, rows
  <2> HIDE DEF todo
  <2>2. Becomes("grants", todo, tighten.groups, tighten.at)
    BY <1>1, <2>1, ListedMoves
  <2>. QED BY <2>1, <2>2, SparedStill DEF Becomes
<1>5. CASE ListWeakConnections
  <2> DEFINE todo == {k \in Conns : IsActive(conns[k]) /\ Weak(conns[k])}
  <2>1. todo \in Todos /\ Listed("weak", todo) /\ UNCHANGED <<targets, before, touched>> /\ tighten.pc # "off"
    BY <1>5 DEF Todos, ListWeakConnections, Tightening, Listed, rows
  <2> HIDE DEF todo
  <2>2. Becomes("weak", todo, tighten.groups, tighten.at)
    BY <1>1, <2>1, ListedMoves
  <2>. QED BY <2>1, <2>2, SparedStill DEF Becomes
<1>6. CASE TightenEnds
  <2>1. /\ Becomes("done", {}, tighten.groups, tighten.at) /\ UNCHANGED <<targets, before, touched>>
        /\ tighten.pc # "off"
    BY <1>1, <1>6, ListedMoves DEF TightenEnds, Tightening, Todos, Listed, rows
  <2>. QED BY <2>1, SparedStill DEF Becomes
<1>7. CASE TightenDies
  BY <1>7 DEF TightenDies, NoScript, Spared, Tightening
<1>. QED BY <1>2, <1>3, <1>4, <1>5, <1>6, <1>7, SparedRow DEF Tighten

LEMMA TightStays ==
  ASSUME Whole, Tight, Next
  PROVE  Tight'
<1>1. Numbered(targets)'
  BY NumberedStays DEF Tight
<1>2. Repaired'
  BY RepairedLoose, RepairedTighten DEF Tight, Next
<1>3. Spared'
  BY SparedLoose, SparedTighten DEF Tight, Next
<1>. QED BY <1>1, <1>2, <1>3 DEF Tight

LEMMA TightTightens ==
  ASSUME Whole, Tight
  PROVE  Tightened
<1>1. TightenedMeansTight
  <2>1. \A t, u \in Targets : IsActive(targets[t]) /\ IsActive(targets[u]) /\ ~Clash(t, u)
          => targets[t].audience # targets[u].audience
    BY DEF Clash
  <2>. QED BY <2>1 DEF TightenedMeansTight, Tight, Repaired, Tightening
<1>2. ASSUME Tightening("done"), touched \cap Targets = {}, NEW t \in Targets, IsActive(before[t])
      PROVE  IsActive(targets[t]) <=> Oldish(t)
  <2>1. \A u \in Targets : AsBefore(u)
    BY <1>2 DEF Tight, Spared, Tightening
  <2>2. before \in [Targets -> TargetRows \cup {NoRow}]
    BY DEF Tight, Spared
  <2>3. ASSUME IsActive(targets[t]), ~Oldish(t) PROVE FALSE
    <3> DEFINE S == {u \in Targets : IsActive(before[u]) /\ before[u].audience = before[t].audience}
    <3>1. \A u \in S : before[u].born \in Nat
      BY <2>2, TargetFacts
    <3>2. t \in S
      BY <1>2
    <3>3. PICK u \in S : \A v \in S : before[u].born <= before[v].born
      <4> HIDE DEF S
      <4>. QED BY <3>1, <3>2, FirstBorn
    <3>4. Oldish(u)
      BY <3>3 DEF Oldish
    <3>5. u # t /\ IsActive(targets[u])
      BY <2>1, <2>3, <3>4 DEF AsBefore
    <3>6. targets[u].audience = targets[t].audience
      <4>1. Exists(before[u]) /\ Exists(before[t])
        BY <1>2 DEF IsActive, Exists
      <4>. QED BY <2>1, <4>1 DEF AsBefore
    <3>7. Clash(t, u)
      BY <2>3, <3>5, <3>6 DEF Clash
    <3>8. t \notin touched /\ u \notin touched
      BY <1>2
    <3>. QED BY <1>2, <3>5, <3>7, <3>8 DEF Tight, Repaired, Tightening
  <2>. QED BY <1>2, <2>1, <2>3 DEF AsBefore
<1>3. TightenedKeepsOldest
  BY <1>2 DEF TightenedKeepsOldest, Oldish
<1>. QED BY <1>1, <1>3 DEF Tightened

LEMMA TightAtFirst ==
  ASSUME Init
  PROVE  Tight
<1>1. PICK old \in Legacy : targets = old[1]
  BY DEF Init
<1>2. Numbered(targets) /\ targets \in [Targets -> TargetRows \cup {NoRow}]
  BY <1>1, LegacyAssumption DEF RowsFit
<1>3. tighten.pc = "off" /\ before = targets
  BY DEF Init, NoScript
<1>. QED BY <1>2, <1>3 DEF Tight, Repaired, Spared, Tightening

(* A tightening that ends has repaired what nobody else touched, and taken   *)
(* away no more than it had to, for any number of targets.                   *)
THEOREM TightensAll == Spec => []Tightened
<1>1. Init => Whole /\ Tight
  BY WholeAtFirst, TightAtFirst
<1>2. Whole /\ Tight /\ [Next]_vars => (Whole /\ Tight)'
  <2>1. ASSUME Whole, Tight, UNCHANGED vars PROVE (Whole /\ Tight)'
    <3>1. UNCHANGED <<targets, conns, grants, tighten, touched, before>>
      BY <2>1 DEF vars, rows, scripts
    <3>2. \A t, u \in Targets : Clash(t, u)' <=> Clash(t, u)
      BY <3>1 DEF Clash
    <3>3. \A t \in Targets : (Oldish(t)' <=> Oldish(t)) /\ (AsBefore(t)' <=> AsBefore(t))
      BY <3>1 DEF Oldish, AsBefore
    <3>4. Repaired'
      BY <2>1, <3>1, <3>2 DEF Tight, Repaired, Tightening
    <3>5. ASSUME tighten.pc = "targets", NEW t \in tighten.todo PROVE t \in Targets
      BY <2>1, <3>5 DEF Whole, TodoFits, ListFits
    <3>6. Spared'
      BY <2>1, <3>1, <3>3, <3>5 DEF Tight, Spared, Tightening
    <3>. QED BY <2>1, <3>1, <3>4, <3>6, WholeStutters DEF Tight
  <2>. QED BY <2>1, WholeStays, TightStays
<1>3. Whole /\ Tight => Tightened
  BY TightTightens
<1>. QED BY <1>1, <1>2, <1>3, PTL DEF Spec

-------------------------------------------------------------------------------
(* The seed.                                                                 *)
LEMMA PhaseSets ==
  /\ Phases = ClientPhases \cup {"agent"} \cup AfterAgent
  /\ ClientPhases = {"client", "uris", "revoke", "secret"}
  /\ AfterAgent = {"runtime", "new runtime", "credential"} \cup AfterCredential
  /\ AfterCredential = {"target"} \cup AfterTarget
  /\ AfterTarget = {"app connection"} \cup AfterAppConn
  /\ AfterAppConn = {"app grant"} \cup AfterAppGrant
  /\ AfterAppGrant = {"agent connection"} \cup AfterAgentConn
  /\ AfterAgentConn = {"agent grant", "done"}
BY DEF Phases, ClientPhases, AfterAgent, AfterRuntime, AfterCredential, AfterTarget, AfterAppConn, AfterAppGrant,
       AfterAgentConn

LEMMA Bystanders ==
  ASSUME (\E c \in Calls : Call(c)) \/ Tighten \/ Tick, quiet'
  PROVE  quiet /\ UNCHANGED <<targets, conns, grants, principals, secrets, credential, uris, seed>>
<1>1. ASSUME NEW c \in Calls, Call(c)
      PROVE  quiet /\ UNCHANGED <<targets, conns, grants, principals, secrets, credential, uris, seed>>
  BY <1>1 DEF Call, Begin, Get, AskAudience, AssertPrincipal, RequireTarget, ResolveRuntime, RequireConnection,
              FindPrincipal, FindAgent, Read, WriteTarget, WriteConnection, WriteGrant, WriteRuntime, Written,
              DeletePrincipal, ReplaceUris, rows, accounts, scripts
<1>2. CASE Tighten
  BY <1>2 DEF Tighten, TightenBegins, ListIndefiniteGrants, ListWeakConnections, TightenEnds, TightenDies,
              ListDuplicates, Listed, TightenRow, rows, accounts
<1>3. CASE Tick
  BY <1>3 DEF Tick, rows, accounts, scripts
<1>. QED BY <1>1, <1>2, <1>3

(* Where each statement of the seed leads.                                   *)
LEMMA SeedLeads ==
  ASSUME Whole
  PROVE  /\ SeedBegins => SeedTo("client", SeedApp, None, now)
         /\ SeedClient => SeedTo("uris", seed.client, seed.runtime, seed.at) /\ seed.pc = "client"
         /\ SeedUris => SeedTo("revoke", seed.client, seed.runtime, seed.at) /\ seed.pc = "uris"
         /\ SeedRevokes => SeedTo("secret", seed.client, seed.runtime, seed.at) /\ seed.pc = "revoke"
         /\ SeedSecret =>
              /\ seed.pc = "secret"
              /\ IF seed.client = SeedApp THEN SeedTo("client", Console, seed.runtime, seed.at)
                 ELSE SeedTo("agent", seed.client, seed.runtime, seed.at)
         /\ SeedsAgent => SeedTo("runtime", seed.client, seed.runtime, seed.at) /\ seed.pc = "agent"
         /\ SeedMissesRuntime => SeedTo("new runtime", seed.client, seed.runtime, seed.at) /\ seed.pc = "runtime"
         /\ SeedFindsRuntime \/ SeedCreatesRuntime =>
              /\ seed.pc \in {"runtime", "new runtime"}
              /\ \E x \in Runtimes : SeedTo("credential", seed.client, x, seed.at)
         /\ SeedCredential => SeedTo("target", seed.client, seed.runtime, seed.at) /\ seed.pc = "credential"
         /\ SeedsTarget => SeedTo("app connection", seed.client, seed.runtime, seed.at) /\ seed.pc = "target"
         /\ SeedsAppConn => SeedTo("app grant", seed.client, seed.runtime, seed.at) /\ seed.pc = "app connection"
         /\ SeedsAppGrant => SeedTo("agent connection", seed.client, seed.runtime, seed.at) /\ seed.pc = "app grant"
         /\ SeedsAgentConn => SeedTo("agent grant", seed.client, seed.runtime, seed.at) /\ seed.pc = "agent connection"
         /\ SeedsAgentGrant => SeedTo("done", seed.client, seed.runtime, seed.at) /\ seed.pc = "agent grant"
<1>1. Processes
  BY DEF Whole
<1>2. \A pc \in Phases : seed.pc # "off" /\ Goes(pc) => SeedTo(pc, seed.client, seed.runtime, seed.at)
  BY <1>1, GoesMoves
<1>3. SeedFindsRuntime \/ SeedCreatesRuntime =>
        \E x \in Runtimes : seed' = [seed EXCEPT !.pc = "credential", !.runtime = x] /\ seed.pc \in {"runtime", "new runtime"}
  BY DEF SeedFindsRuntime, SeedCreatesRuntime, Reusable, Seeding
<1>4. SeedFindsRuntime \/ SeedCreatesRuntime =>
        seed.pc \in {"runtime", "new runtime"} /\ \E x \in Runtimes : SeedTo("credential", seed.client, x, seed.at)
  BY <1>1, <1>3, RuntimeMoves
<1>5. SeedBegins => SeedTo("client", SeedApp, None, now)
  BY <1>1, SeedBeginMoves
<1>6. SeedSecret =>
        /\ seed.pc = "secret"
        /\ IF seed.client = SeedApp THEN SeedTo("client", Console, seed.runtime, seed.at)
           ELSE SeedTo("agent", seed.client, seed.runtime, seed.at)
  BY <1>1, SecretMoves DEF SeedSecret, Seeding
<1>. QED BY <1>2, <1>4, <1>5, <1>6, PhaseOrder
         DEF SeedClient, SeedUris, SeedRevokes, SeedsAgent, SeedMissesRuntime, SeedCredential, SeedsTarget, SeedsAppConn,
             SeedsAppGrant, SeedsAgentConn, SeedsAgentGrant, SeedConnection, SeedGrant, Seeding

LEMMA PlantedClientsStay ==
  ASSUME Whole, PlantedClients, quiet, Seed, ~SeedBegins
  PROVE  PlantedClients'
<1>1. /\ DOMAIN principals = Agents \cup Clients /\ DOMAIN secrets = Clients
      /\ SeedApp \in Clients /\ SeedAgent \in Agents /\ Console # SeedApp /\ Clients = {SeedApp, Console}
  BY SeedNames, ConsoleFacts DEF Whole, Processes
<1>2. seed.pc # "off" => seed.client \in Clients
  BY SeedOn DEF Whole
<1>3. CASE SeedClient
  <2>1. SeedTo("uris", seed.client, seed.runtime, seed.at) /\ seed.pc = "client"
    BY <1>3, SeedLeads
  <2>2. principals' = [principals EXCEPT ![seed.client] = Restored] /\ UNCHANGED <<secrets, uris>>
    BY <1>3 DEF SeedClient
  <2>. QED BY <1>1, <1>2, <2>1, <2>2, PhaseSets DEF PlantedClients, ClientSet, SeedTo, Seeding
<1>4. CASE SeedUris
  <2>1. SeedTo("revoke", seed.client, seed.runtime, seed.at) /\ seed.pc = "uris"
    BY <1>4, SeedLeads
  <2>2. uris' = uris \cup {seed.client} /\ UNCHANGED <<secrets, principals>>
    BY <1>4 DEF SeedUris
  <2>. QED BY <1>1, <1>2, <2>1, <2>2, PhaseSets DEF PlantedClients, ClientSet, SeedTo, Seeding
<1>5. CASE SeedRevokes
  <2>1. SeedTo("secret", seed.client, seed.runtime, seed.at) /\ seed.pc = "revoke"
    BY <1>5, SeedLeads
  <2>2. secrets' = [secrets EXCEPT ![seed.client] = 0] /\ UNCHANGED <<uris, principals>>
    BY <1>5 DEF SeedRevokes
  <2>. QED BY <1>1, <1>2, <2>1, <2>2, PhaseSets DEF PlantedClients, ClientSet, SeedTo, Seeding
<1>6. CASE SeedSecret
  <2>1. /\ seed.pc = "secret"
        /\ IF seed.client = SeedApp THEN SeedTo("client", Console, seed.runtime, seed.at)
           ELSE SeedTo("agent", seed.client, seed.runtime, seed.at)
    BY <1>6, SeedLeads
  <2>2. secrets' = [secrets EXCEPT ![seed.client] = secrets[seed.client] + 1] /\ UNCHANGED <<uris, principals>>
    BY <1>6 DEF SeedSecret
  <2>3. secrets[seed.client] = 0 /\ principals[seed.client] = Restored /\ seed.client \in uris
    BY <2>1, PhaseSets DEF PlantedClients, Seeding
  <2>4. PICK x \in Clients : x = seed.client
    BY <1>2, <2>1
  <2>5. secrets'[x] = 1 /\ \A c \in Clients \ {x} : secrets'[c] = secrets[c]
    BY <1>1, <2>2, <2>3, <2>4
  <2>6. ClientSet(x)' /\ \A c \in Clients \ {x} : ClientSet(c) => ClientSet(c)'
    BY <2>2, <2>3, <2>4, <2>5 DEF ClientSet
  <2>7. CASE x = SeedApp
    BY <1>1, <2>1, <2>4, <2>6, <2>7, PhaseSets DEF PlantedClients, SeedTo, Seeding
  <2>8. CASE x = Console
    <3>1. ClientSet(SeedApp)
      BY <2>1, <2>4, <2>8, PhaseSets DEF PlantedClients
    <3>2. \A c \in Clients : ClientSet(c)'
      BY <1>1, <2>6, <2>8, <3>1
    <3>3. seed'.pc = "agent"
      BY <1>1, <2>1, <2>4, <2>8 DEF SeedTo
    <3>. QED BY <3>2, <3>3, PhaseSets DEF PlantedClients, Seeding
  <2>. QED BY <1>1, <2>7, <2>8
<1>7. CASE SeedsAgent
  <2>1. SeedTo("runtime", seed.client, seed.runtime, seed.at) /\ seed.pc = "agent"
    BY <1>7, SeedLeads
  <2>2. principals' = [principals EXCEPT ![SeedAgent] = Restored] /\ UNCHANGED <<secrets, uris>>
    BY <1>7 DEF SeedsAgent
  <2>3. \A c \in Clients : ClientSet(c)
    BY <2>1, PhaseSets DEF PlantedClients
  <2>4. \A c \in Clients : ClientSet(c)'
    BY <1>1, <2>2, <2>3 DEF ClientSet
  <2>. QED BY <2>1, <2>4, PhaseSets DEF PlantedClients, SeedTo, Seeding
<1>8. ASSUME UNCHANGED <<principals, secrets, uris>>, seed.pc \in AfterAgent, seed'.pc \in AfterAgent
      PROVE  PlantedClients'
  BY <1>8, PhaseSets DEF PlantedClients, ClientSet, Seeding
<1>9. CASE SeedMissesRuntime \/ SeedFindsRuntime \/ SeedCreatesRuntime \/ SeedCredential \/ SeedsTarget
  <2>1. seed.pc \in AfterAgent /\ seed'.pc \in AfterAgent
    BY <1>9, SeedLeads, PhaseSets DEF SeedTo
  <2>2. UNCHANGED <<principals, secrets, uris>>
    BY <1>9 DEF SeedMissesRuntime, SeedFindsRuntime, SeedCreatesRuntime, SeedCredential, SeedsTarget, accounts
  <2>. QED BY <1>8, <2>1, <2>2
<1>10. CASE SeedsAppConn \/ SeedsAgentConn \/ SeedsAppGrant \/ SeedsAgentGrant
  <2>1. seed.pc \in AfterAgent /\ seed'.pc \in AfterAgent
    BY <1>10, SeedLeads, PhaseSets DEF SeedTo
  <2>2. UNCHANGED <<principals, secrets, uris>>
    BY <1>10 DEF SeedsAppConn, SeedsAgentConn, SeedsAppGrant, SeedsAgentGrant, SeedConnection, SeedGrant, accounts
  <2>. QED BY <1>8, <2>1, <2>2
<1>11. CASE SeedDies
  BY <1>11, PhaseSets DEF SeedDies, NoScript, PlantedClients, Seeding
<1>. QED BY <1>3, <1>4, <1>5, <1>6, <1>7, <1>9, <1>10, <1>11
         DEF Seed, SeedsAppConn, SeedsAgentConn, SeedsAppGrant, SeedsAgentGrant

LEMMA PlantedAgentStay ==
  ASSUME Whole, PlantedAgent, quiet, Seed, ~SeedBegins
  PROVE  PlantedAgent'
<1>1. CASE SeedClient \/ SeedUris \/ SeedRevokes \/ SeedSecret \/ SeedDies
  <2>1. CASE SeedClient \/ SeedUris \/ SeedRevokes
    BY <2>1, SeedLeads, PhaseSets DEF SeedTo, PlantedAgent
  <2>2. CASE SeedSecret
    BY <2>2, SeedLeads, PhaseSets DEF SeedTo, PlantedAgent
  <2>3. CASE SeedDies
    BY <2>3, PhaseSets DEF SeedDies, NoScript, PlantedAgent
  <2>. QED BY <1>1, <2>1, <2>2, <2>3
<1>2. CASE SeedsAgent
  <2>1. seed'.pc = "runtime"
    BY <1>2, SeedLeads DEF SeedTo
  <2>2. principals'[SeedAgent] = Restored
    BY <1>2, SeedNames DEF SeedsAgent, Whole, Processes
  <2>. QED BY <2>1, <2>2, PhaseSets DEF PlantedAgent
<1>3. CASE SeedMissesRuntime \/ SeedFindsRuntime \/ SeedCreatesRuntime
  <2>1. seed.pc \in AfterAgent
    BY <1>3, SeedLeads, PhaseSets
  <2>2. UNCHANGED <<principals, credential>>
    BY <1>3 DEF SeedMissesRuntime, SeedFindsRuntime, SeedCreatesRuntime, accounts
  <2>3. seed'.pc \in {"new runtime", "credential"}
    BY <1>3, SeedLeads DEF SeedTo
  <2>. QED BY <2>1, <2>2, <2>3, PhaseSets DEF PlantedAgent
<1>4. CASE SeedCredential
  <2>1. seed.pc \in AfterAgent
    BY <1>4, SeedLeads, PhaseSets
  <2>2. principals' = principals /\ credential' = TRUE
    BY <1>4 DEF SeedCredential
  <2>. QED BY <2>1, <2>2 DEF PlantedAgent
<1>5. ASSUME seed.pc \in AfterCredential, UNCHANGED <<principals, credential>>
      PROVE  PlantedAgent'
  BY <1>5, PhaseSets DEF PlantedAgent
<1>6. CASE SeedsTarget
  BY <1>5, <1>6, SeedLeads, PhaseSets DEF SeedsTarget, accounts
<1>7. CASE SeedsAppConn \/ SeedsAgentConn \/ SeedsAppGrant \/ SeedsAgentGrant
  <2>1. UNCHANGED <<principals, credential>>
    BY <1>7 DEF SeedsAppConn, SeedsAgentConn, SeedsAppGrant, SeedsAgentGrant, SeedConnection, SeedGrant, accounts
  <2>. QED BY <1>5, <1>7, <2>1, SeedLeads, PhaseSets
<1>. QED BY <1>1, <1>2, <1>3, <1>4, <1>6, <1>7
         DEF Seed, SeedsAppConn, SeedsAgentConn, SeedsAppGrant, SeedsAgentGrant

LEMMA PlantedRowsStay ==
  ASSUME Whole, PlantedRows, quiet, Seed, ~SeedBegins, seed.pc # "off" => seed.at <= now
  PROVE  PlantedRows'
<1>1. CASE SeedClient \/ SeedUris \/ SeedRevokes \/ SeedSecret \/ SeedsAgent \/ SeedMissesRuntime \/ SeedFindsRuntime
           \/ SeedCreatesRuntime \/ SeedCredential \/ SeedDies
  <2>1. ASSUME seed'.pc \in ClientPhases \cup {"agent", "runtime", "new runtime", "credential", "target", "off"}
        PROVE  PlantedRows'
    BY <2>1, PhaseSets DEF PlantedRows, Seeding
  <2>2. CASE SeedClient \/ SeedUris \/ SeedRevokes
    BY <2>1, <2>2, SeedLeads, PhaseSets DEF SeedTo
  <2>3. CASE SeedSecret
    BY <2>1, <2>3, SeedLeads, PhaseSets DEF SeedTo
  <2>4. CASE SeedsAgent \/ SeedMissesRuntime \/ SeedCredential
    BY <2>1, <2>4, SeedLeads DEF SeedTo
  <2>5. CASE SeedFindsRuntime \/ SeedCreatesRuntime
    BY <2>1, <2>5, SeedLeads DEF SeedTo
  <2>6. CASE SeedDies
    BY <2>1, <2>6 DEF SeedDies, NoScript
  <2>. QED BY <1>1, <2>2, <2>3, <2>4, <2>5, <2>6
<1>2. CASE SeedsTarget
  <2>1. IsActive(targets'[SeedTarget])
    BY <1>2, TargetSeeded DEF Whole, Rows, IsActive
  <2>2. seed'.pc = "app connection"
    BY <1>2, SeedLeads DEF SeedTo
  <2>. QED BY <2>1, <2>2, PhaseSets DEF PlantedRows, Seeding
<1>3. ASSUME NEW k \in Conns, NEW bound, NEW r, ConnSeed(k, bound, r)
      PROVE  ConnSet(k)' /\ (bound # None => conns'[k].runtime = bound)
             /\ \A j \in Conns \ {k} : conns'[j] = conns[j] /\ (ConnSet(j) => ConnSet(j)')
  <2>1. conns'[k] = r /\ \A j \in Conns \ {k} : conns'[j] = conns[j]
    BY <1>3 DEF ConnSeed, Whole, Rows
  <2>. QED BY <1>3, <2>1 DEF ConnSeed, ConnSet, IsActive, Weak
<1>4. AppConn \in Conns /\ AgentConn \in Conns /\ AppConn # AgentConn
      /\ AppGrant \in Grants /\ AgentGrant \in Grants /\ AppGrant # AgentGrant
  BY NamesAssumption
<1>5. CASE SeedsAppConn
  <2>1. PICK r : ConnSeed(AppConn, None, r)
    BY <1>5, SeedConns
  <2>2. targets' = targets /\ seed'.pc = "app grant" /\ seed.pc = "app connection"
    BY <1>5, SeedLeads DEF SeedsAppConn, SeedConnection, SeedTo
  <2>3. ConnSet(AppConn)'
    BY <1>3, <1>4, <2>1
  <2>. QED BY <2>2, <2>3, PhaseSets DEF PlantedRows, Seeding
<1>6. CASE SeedsAgentConn
  <2>1. PICK r : ConnSeed(AgentConn, seed.runtime, r)
    BY <1>6, SeedConns
  <2>2. /\ targets' = targets /\ grants' = grants /\ seed'.pc = "agent grant" /\ seed.pc = "agent connection"
        /\ seed'.runtime = seed.runtime /\ seed'.at = seed.at
    BY <1>6, SeedLeads DEF SeedsAgentConn, SeedConnection, SeedTo
  <2>3. seed.runtime # None
    BY <1>6, SeedConns, NamesAssumption
  <2>4. ConnSet(AgentConn)' /\ (ConnSet(AppConn) => ConnSet(AppConn)') /\ conns'[AgentConn].runtime = seed.runtime
    BY <1>3, <1>4, <2>1, <2>3
  <2>5. GrantSet(AppGrant, AppConn)' <=> GrantSet(AppGrant, AppConn)
    BY <2>2 DEF GrantSet
  <2>. QED BY <2>2, <2>4, <2>5, PhaseSets DEF PlantedRows, Seeding
<1>7. ASSUME seed.pc # "off", seed'.at = seed.at, NEW g \in Grants, NEW k, NEW r,
             grants' = [grants EXCEPT ![g] = r], r.status = "active", r.conn = k, r.expires = now + Day
      PROVE  GrantSet(g, k)' /\ \A h \in Grants \ {g} : \A j : GrantSet(h, j) => GrantSet(h, j)'
  <2>1. grants'[g] = r /\ \A h \in Grants \ {g} : grants'[h] = grants[h]
    BY <1>7 DEF Whole, Rows
  <2>2. now \in Nat /\ Day \in Nat /\ seed.at \in Nat /\ seed.at <= now
    BY <1>7, DayAssumption, SeedOn DEF Whole, Processes
  <2>3. r.expires \in Nat /\ r.expires >= seed.at + Day
    BY <1>7, <2>2
  <2>. QED BY <1>7, <2>1, <2>3 DEF GrantSet, IsActive
<1>8. CASE SeedsAppGrant
  <2>1. PICK r \in GrantRows : /\ grants' = [grants EXCEPT ![AppGrant] = r]
                               /\ r.status = "active" /\ r.conn = AppConn /\ r.expires = now + Day
    BY <1>8, SeedGrants
  <2>2. /\ targets' = targets /\ conns' = conns /\ seed'.pc = "agent connection" /\ seed.pc = "app grant"
        /\ seed'.at = seed.at
    BY <1>8, SeedLeads DEF SeedsAppGrant, SeedGrant, SeedTo
  <2>3. GrantSet(AppGrant, AppConn)'
    BY <1>4, <1>7, <2>1, <2>2
  <2>4. ConnSet(AppConn)' <=> ConnSet(AppConn)
    BY <2>2 DEF ConnSet
  <2>. QED BY <2>2, <2>3, <2>4, PhaseSets DEF PlantedRows, Seeding
<1>9. CASE SeedsAgentGrant
  <2>1. PICK r \in GrantRows : /\ grants' = [grants EXCEPT ![AgentGrant] = r]
                               /\ r.status = "active" /\ r.conn = AgentConn /\ r.expires = now + Day
    BY <1>9, SeedGrants
  <2>2. /\ targets' = targets /\ conns' = conns /\ seed'.pc = "done" /\ seed.pc = "agent grant"
        /\ seed'.runtime = seed.runtime /\ seed'.at = seed.at
    BY <1>9, SeedLeads DEF SeedsAgentGrant, SeedGrant, SeedTo
  <2>3. GrantSet(AgentGrant, AgentConn)' /\ (GrantSet(AppGrant, AppConn) => GrantSet(AppGrant, AppConn)')
    BY <1>4, <1>7, <2>1, <2>2
  <2>4. (ConnSet(AppConn)' <=> ConnSet(AppConn)) /\ (ConnSet(AgentConn)' <=> ConnSet(AgentConn))
    BY <2>2 DEF ConnSet
  <2>. QED BY <2>2, <2>3, <2>4, PhaseSets DEF PlantedRows, Seeding
<1>. QED BY <1>1, <1>2, <1>5, <1>6, <1>8, <1>9
         DEF Seed, SeedsAppConn, SeedsAgentConn, SeedsAppGrant, SeedsAgentGrant

(* Every other statement keeps the clock the run was begun at.               *)
LEMMA SeedKeepsTime ==
  ASSUME Whole, Seed, ~SeedBegins
  PROVE  now' = now /\ quiet' = quiet /\ (seed'.pc # "off" => seed.pc # "off" /\ seed'.at = seed.at)
<1>1. now' = now /\ quiet' = quiet
  BY DEF Seed, SeedClient, SeedUris, SeedRevokes, SeedSecret, SeedsAgent, SeedFindsRuntime, SeedMissesRuntime,
         SeedCreatesRuntime, SeedCredential, SeedsTarget, SeedConnection, SeedGrant, SeedDies
<1>2. CASE SeedClient \/ SeedUris \/ SeedRevokes
  BY <1>1, <1>2, SeedLeads DEF SeedTo
<1>3. CASE SeedSecret
  BY <1>1, <1>3, SeedLeads DEF SeedTo
<1>4. CASE SeedsAgent \/ SeedMissesRuntime \/ SeedCredential \/ SeedsTarget
  BY <1>1, <1>4, SeedLeads DEF SeedTo
<1>5. CASE SeedFindsRuntime \/ SeedCreatesRuntime
  BY <1>1, <1>5, SeedLeads DEF SeedTo
<1>6. CASE SeedsAppConn \/ SeedsAgentConn \/ SeedsAppGrant \/ SeedsAgentGrant
  BY <1>1, <1>6, SeedLeads DEF SeedTo
<1>7. CASE SeedDies
  BY <1>1, <1>7 DEF SeedDies, NoScript
<1>. QED BY <1>2, <1>3, <1>4, <1>5, <1>6, <1>7
         DEF Seed, SeedsAppConn, SeedsAgentConn, SeedsAppGrant, SeedsAgentGrant

LEMMA OthersLeaveSeed ==
  ASSUME (\E c \in Calls : Call(c)) \/ Tighten \/ Tick
  PROVE  seed' = seed /\ (now' = now \/ now' = now + 1)
<1>1. ASSUME NEW c \in Calls, Call(c) PROVE seed' = seed /\ now' = now
  BY <1>1 DEF Call, Begin, Get, AskAudience, AssertPrincipal, RequireTarget, ResolveRuntime, RequireConnection,
              FindPrincipal, FindAgent, Read, WriteTarget, WriteConnection, WriteGrant, WriteRuntime, Written,
              DeletePrincipal, ReplaceUris, scripts
<1>2. CASE Tighten
  BY <1>2 DEF Tighten, TightenBegins, ListIndefiniteGrants, ListWeakConnections, TightenEnds, TightenDies,
              ListDuplicates, Listed, TightenRow
<1>3. CASE Tick
  BY <1>3 DEF Tick, scripts
<1>. QED BY <1>1, <1>2, <1>3

LEMMA WorkedKept ==
  ASSUME Worked, quiet' => quiet /\ UNCHANGED <<targets, conns, grants, principals, secrets, credential, uris, seed>>,
         seed' = seed, now' >= now, now \in Nat, now' \in Nat, seed.pc # "off" => seed.at \in Nat
  PROVE  Worked'
<1>1. ASSUME quiet' PROVE PlantedClients'
  BY <1>1 DEF Worked, PlantedClients, ClientSet, Seeding
<1>2. ASSUME quiet' PROVE PlantedAgent'
  BY <1>2 DEF Worked, PlantedAgent
<1>3. ASSUME quiet' PROVE PlantedRows'
  BY <1>3 DEF Worked, PlantedRows, ConnSet, GrantSet, Seeding
<1>4. seed'.pc # "off" => seed'.at <= now'
  BY DEF Worked
<1>. QED BY <1>1, <1>2, <1>3, <1>4 DEF Worked

LEMMA WorkedStays ==
  ASSUME Whole, Worked, Next
  PROVE  Worked'
<1>1. now \in Nat /\ (seed.pc # "off" => seed.at \in Nat)
  BY DayAssumption, SeedOn DEF Whole, Processes
<1>2. CASE (\E c \in Calls : Call(c)) \/ Tighten \/ Tick
  <2>1. seed' = seed
    BY <1>2, OthersLeaveSeed
  <2>2. now' \in Nat /\ now' >= now
    <3>1. now' = now \/ now' = now + 1
      BY <1>2, OthersLeaveSeed
    <3>. QED BY <1>1, <3>1
  <2>3. quiet' => quiet /\ UNCHANGED <<targets, conns, grants, principals, secrets, credential, uris, seed>>
    BY <1>2, Bystanders
  <2>. QED BY <1>1, <2>1, <2>2, <2>3, WorkedKept
<1>3. CASE SeedBegins
  <2>1. seed'.pc = "client" /\ seed'.client = SeedApp /\ seed'.at = now /\ now' = now
    BY <1>3, SeedLeads DEF SeedTo, SeedBegins
  <2>2. PlantedClients'
    BY <2>1, PhaseSets, ConsoleFacts DEF PlantedClients, Seeding
  <2>3. PlantedAgent' /\ PlantedRows'
    BY <2>1, PhaseSets DEF PlantedAgent, PlantedRows, Seeding
  <2>. QED BY <1>1, <2>1, <2>2, <2>3 DEF Worked
<1>4. CASE Seed /\ ~SeedBegins
  <2>1. now' = now /\ quiet' = quiet /\ (seed'.pc # "off" => seed.pc # "off" /\ seed'.at = seed.at)
    BY <1>4, SeedKeepsTime
  <2>2. seed'.pc # "off" => seed'.at <= now'
    BY <2>1 DEF Worked
  <2>3. quiet => PlantedClients' /\ PlantedAgent' /\ PlantedRows'
    BY <1>4, PlantedClientsStay, PlantedAgentStay, PlantedRowsStay DEF Worked
  <2>. QED BY <2>1, <2>2, <2>3 DEF Worked
<1>. QED BY <1>2, <1>3, <1>4 DEF Next

LEMMA WorkedWorks ==
  ASSUME Whole, Worked
  PROVE  SeededWorks
<1> SUFFICES ASSUME Seeding("done"), quiet, now < seed.at + Day
             PROVE  /\ \A c \in Clients : principals[c] = Restored /\ secrets[c] = 1 /\ c \in uris
                    /\ conns[AppConn].of = SeedApp => LetsThrough(AppConn, AppGrant)
                    /\ conns[AgentConn].of = SeedAgent =>
                         LetsThrough(AgentConn, AgentGrant) /\ credential /\ AgentOf[conns[AgentConn].runtime] = SeedAgent
  BY DEF SeededWorks
<1>1. seed.pc = "done" /\ seed.at \in Nat /\ now \in Nat /\ Day \in Nat
  BY DayAssumption, SeedOn DEF Seeding, Whole, Processes
<1>2. /\ "done" \in Phases \ ClientPhases /\ "done" \in AfterAgent /\ "done" \in AfterCredential
      /\ "done" \in AfterTarget /\ "done" \in AfterAppConn /\ "done" \in AfterAppGrant /\ "done" \in AfterAgentConn
      /\ "done" \in AfterRuntime
  BY PhaseSets DEF AfterRuntime
<1>3. \A c \in Clients : ClientSet(c)
  BY <1>1, <1>2 DEF Worked, PlantedClients
<1>4. principals[SeedAgent] = Restored /\ credential
  BY <1>1, <1>2 DEF Worked, PlantedAgent
<1>5. /\ IsActive(targets[SeedTarget]) /\ ConnSet(AppConn) /\ ConnSet(AgentConn)
      /\ GrantSet(AppGrant, AppConn) /\ GrantSet(AgentGrant, AgentConn)
      /\ conns[AgentConn].runtime = seed.runtime
  BY <1>1, <1>2 DEF Worked, PlantedRows, Seeding
<1>6. AgentOf[seed.runtime] = SeedAgent
  BY <1>1, <1>2 DEF Whole, SeedFits, SeedNeeds
<1>7. ASSUME NEW k, NEW g, ConnSet(k), GrantSet(g, k), principals[conns[k].of] = Restored
      PROVE  LetsThrough(k, g)
  <2>1. grants[g].expires > now
    BY <1>1, <1>7 DEF GrantSet
  <2>. QED BY <1>5, <1>7, <2>1 DEF LetsThrough, ConnSet, GrantSet
<1>8. SeedApp \in Clients
  BY SeedNames
<1>. QED BY <1>3, <1>4, <1>5, <1>6, <1>7, <1>8 DEF ClientSet

(* A run of the seed that ends undisturbed leaves a demonstration that works *)
(* for a day, whatever rows, deletions and half-done runs it found.          *)
THEOREM SeedsAlwaysWork == Spec => []SeededWorks
<1>1. Init => Whole /\ Worked
  <2>1. Init => ~quiet /\ seed.pc = "off"
    BY DEF Init, NoScript
  <2>. QED BY <2>1, WholeAtFirst DEF Worked
<1>2. Whole /\ Worked /\ [Next]_vars => (Whole /\ Worked)'
  <2>1. ASSUME Whole, Worked, UNCHANGED vars PROVE (Whole /\ Worked)'
    <3>1. UNCHANGED <<targets, conns, grants, principals, secrets, credential, uris, seed, now, quiet>>
      BY <2>1 DEF vars, rows, accounts, scripts
    <3>2. now \in Nat /\ (seed.pc # "off" => seed.at \in Nat)
      BY <2>1, DayAssumption, SeedOn DEF Whole, Processes
    <3>3. Worked'
      BY <2>1, <3>1, <3>2, WorkedKept
    <3>. QED BY <2>1, <3>3, WholeStutters
  <2>. QED BY <2>1, WholeStays, WorkedStays
<1>3. Whole /\ Worked => SeededWorks
  BY WorkedWorks
<1>. QED BY <1>1, <1>2, <1>3, PTL DEF Spec
===============================================================================
