---------------------------- MODULE PrincipalsProofs ----------------------------
(***************************************************************************)
(* Proofs about Principals for every set of principals, credentials, calls  *)
(* and requests: deletion keeps a principal out, reset and revocation kill  *)
(* old credentials, and a reset left alone leaves one secret.               *)
(***************************************************************************)
EXTENDS Principals, TLAPS

(* What a call works with at each of its stages. *)
ConsistentOf(a) ==
  /\ at[a] = "update" => op[a] = "update"
  /\ at[a] = "delete" => op[a] = "delete"
  /\ at[a] \in {"reset", "newSecret"} => op[a] = "reset"
  /\ at[a] \in {"runtime", "issue"} => op[a] = "issue" /\ subject[a] \in Agents
  /\ at[a] = "revoke" => /\ op[a] = "revoke"
                         /\ held[a] \in Credentials /\ OwnerOf[held[a]] \in Agents
  /\ at[a] # "idle" => subject[a] \in Principals
  /\ at[a] # "idle" /\ op[a] = "reset" =>
       subject[a] \in Applications /\ status[subject[a]] # "absent"

Consistent == \A a \in Calls : ConsistentOf(a)

TInv == TypeOK /\ Consistent

(* No step brings back what is revoked, issued, created or deleted. *)
Monotone ==
  /\ \A c \in Credentials : credential[c] = "revoked" => credential'[c] = "revoked"
  /\ \A c \in Credentials : credential[c] # "absent" => credential'[c] # "absent"
  /\ \A p \in Principals : status[p] # "absent" => status'[p] # "absent"
  /\ deleted \subseteq deleted'

(* A step of x leaves the locals of every other process alone. *)
OnlyOf(x) ==
  \A y \in Calls \cup Requests :
    y # x => at'[y] = at[y] /\ subject'[y] = subject[y] /\ held'[y] = held[y]

OnlyCallOf(a) ==
  \A b \in Calls : b # a => op'[b] = op[b] /\ former'[b] = former[b]

LEMMA NoneIsNothing ==
  None \notin Principals /\ None \notin Credentials /\ None \notin Runtimes
BY PrincipalConstants

--------------------------------------------------------------------------------
(* Every state has its types. *)

LEMMA InitTypes == Init => TInv
<1> SUFFICES ASSUME Init PROVE TypeOK /\ Consistent
  BY DEF TInv
<1>1. TypeOK
  BY DEF Init, TypeOK, Stages, Statuses
<1>2. Consistent
  BY DEF Init, Consistent, ConsistentOf
<1> QED BY <1>1, <1>2

LEMMA CreateTypes ==
  ASSUME TInv, Create
  PROVE  /\ TInv' /\ Monotone
         /\ UNCHANGED <<deleted, at, locals, former, alone, arrivals>>
<1> USE DEF TInv
<1>1. UNCHANGED <<deleted, at, locals, former, alone, arrivals>>
  BY DEF Create, CreateApplication, CreateAgent, CreateRuntime, UpdateRuntime
<1>2. CASE \E p \in Applications, c \in Credentials : CreateApplication(p, c)
  <2> PICK p \in Applications, c \in Credentials : CreateApplication(p, c)
    BY <1>2
  <2>1. TypeOK'
    BY <1>1 DEF CreateApplication, TypeOK, locals, arrivals, Statuses
  <2>2. Monotone
    BY <1>1 DEF CreateApplication, FreshOf, TypeOK, Monotone
  <2>3. Consistent'
    BY <1>1, <2>2 DEF Consistent, ConsistentOf, Monotone, locals
  <2> QED BY <2>1, <2>2, <2>3, <1>1
<1>3. CASE \E p \in Agents : CreateAgent(p)
  <2> PICK p \in Agents : CreateAgent(p)
    BY <1>3
  <2>1. TypeOK'
    BY <1>1 DEF CreateAgent, TypeOK, locals, arrivals, Statuses
  <2>2. Monotone
    BY <1>1 DEF CreateAgent, TypeOK, Monotone
  <2>3. Consistent'
    BY <1>1, <2>2 DEF Consistent, ConsistentOf, Monotone, locals
  <2> QED BY <2>1, <2>2, <2>3, <1>1
<1>4. CASE \E t \in Runtimes : CreateRuntime(t) \/ UpdateRuntime(t)
  <2>1. UNCHANGED <<status, deleted, credential>> /\ TypeOK'
    BY <1>1, <1>4 DEF CreateRuntime, UpdateRuntime, TypeOK, locals, arrivals
  <2>2. Monotone
    BY <2>1 DEF Monotone
  <2>3. Consistent'
    BY <1>1, <2>2 DEF Consistent, ConsistentOf, Monotone, locals
  <2> QED BY <2>1, <2>2, <2>3, <1>1
<1> QED BY <1>2, <1>3, <1>4 DEF Create

LEMMA RequestTypes ==
  ASSUME TInv, NEW u \in Requests, Request(u)
  PROVE  TInv' /\ OnlyOf(u) /\ UNCHANGED <<rows, op, former, alone>>
<1> USE DEF TInv
<1>0. \A a \in Calls : a # u
  BY PrincipalConstants
<1>1. PICK stage \in Stages :
        /\ Go(u, stage)
        /\ UNCHANGED <<rows, op, former, alone>>
        /\ \/ \E c \in Credentials : Present(u, c)
           \/ UNCHANGED <<locals, arrivals>>
  BY DEF Request, Present, AuthenticateClient, AuthenticateApplication, FindAgent,
     FindRuntime, CompareCredentials, Decide, Go, Stages, RequestStages, Ended, locals
<1>2. /\ subject' \in [Calls \cup Requests -> Principals \cup {None}]
      /\ held' \in [Calls \cup Requests -> Credentials \cup {None}]
      /\ deadBefore' \in [Requests -> SUBSET Credentials]
      /\ goneBefore' \in [Requests -> SUBSET Principals]
      /\ \A y \in Calls \cup Requests :
           y # u => subject'[y] = subject[y] /\ held'[y] = held[y]
  <2>1. CASE \E c \in Credentials : Present(u, c)
    <3> PICK c \in Credentials : Present(u, c)
      BY <2>1
    <3>1. OwnerOf[c] \in Principals
      BY PrincipalConstants
    <3>2. Dead \in SUBSET Credentials /\ Gone \in SUBSET Principals
      BY DEF Dead, Gone
    <3> QED BY <3>1, <3>2 DEF Present, TypeOK
  <2>2. CASE UNCHANGED <<locals, arrivals>>
    BY <2>2 DEF TypeOK, locals, arrivals
  <2> QED BY <1>1, <2>1, <2>2
<1>3. TypeOK'
  BY <1>1, <1>2 DEF TypeOK, Go, rows
<1>4. OnlyOf(u)
  BY <1>1, <1>2 DEF OnlyOf, Go, TypeOK
<1>5. Consistent'
  BY <1>0, <1>1, <1>4 DEF Consistent, ConsistentOf, OnlyOf, rows
<1> QED BY <1>1, <1>3, <1>4, <1>5

LEMMA StartTypes ==
  ASSUME TInv, NEW a \in Calls, NEW p \in Principals,
         NEW operation \in Operations, NEW stage \in CallStages,
         Start(a, p, operation, stage)
  PROVE  /\ at' \in [Calls \cup Requests -> Stages]
         /\ subject' \in [Calls \cup Requests -> Principals \cup {None}]
         /\ op' \in [Calls -> Operations \cup {None}]
         /\ at'[a] = stage /\ subject'[a] = p /\ op'[a] = operation
         /\ \A y \in Calls \cup Requests :
              y # a => at'[y] = at[y] /\ subject'[y] = subject[y]
         /\ \A b \in Calls : b # a => op'[b] = op[b]
         /\ UNCHANGED <<rows, arrivals>> /\ Monotone
<1>1. stage \in Stages
  BY DEF Stages
<1>2. UNCHANGED rows
  BY DEF Start
<1>3. Monotone
  BY <1>2 DEF Monotone, rows
<1> QED BY <1>1, <1>2, <1>3 DEF Start, Go, TInv, TypeOK

(* The other calls stay consistent whatever a call does. *)
LEMMA OthersConsistent ==
  ASSUME TInv, NEW a \in Calls, OnlyOf(a), OnlyCallOf(a), Monotone, ConsistentOf(a)'
  PROVE  Consistent'
<1> SUFFICES ASSUME NEW b \in Calls, b # a PROVE ConsistentOf(b)'
  BY DEF Consistent
<1>1. ConsistentOf(b) /\ at'[b] = at[b] /\ subject'[b] = subject[b]
      /\ held'[b] = held[b] /\ op'[b] = op[b]
  BY DEF TInv, Consistent, OnlyOf, OnlyCallOf
<1> QED BY <1>1 DEF ConsistentOf, Monotone

(* What every step of a call keeps. *)
Stepped(a) ==
  /\ TInv' /\ Monotone /\ OnlyOf(a) /\ OnlyCallOf(a)
  /\ UNCHANGED <<runtime, arrivals>>

LEMMA BeginTypes ==
  ASSUME TInv, NEW a \in Calls, NEW p \in Principals,
         BeginUpdate(a, p) \/ BeginDelete(a, p) \/ BeginReset(a, p) \/ BeginIssue(a, p)
  PROVE  Stepped(a) /\ UNCHANGED held
<1>1. PICK operation \in Operations, stage \in CallStages :
        /\ Start(a, p, operation, stage)
        /\ \/ operation = "update" /\ stage = "update"
           \/ operation = "delete" /\ stage = "delete"
           \/ operation = "reset" /\ stage = "reset" /\ p \in Applications
           \/ operation = "issue" /\ stage \in {"runtime", "issue"} /\ p \in Agents
  BY DEF BeginUpdate, BeginDelete, BeginReset, BeginIssue, Operations, CallStages
<1>2. status[p] # "absent" /\ UNCHANGED held
  BY DEF BeginUpdate, BeginDelete, BeginReset, BeginIssue, Usable, Findable
<1>3. /\ former' \in [Calls -> SUBSET Credentials] /\ alone' \in SUBSET Calls
      /\ \A b \in Calls : b # a => former'[b] = former[b]
  BY DEF BeginUpdate, BeginDelete, BeginReset, BeginIssue, TInv, TypeOK, IssuedTo,
     Disturbed
<1>4. /\ at' \in [Calls \cup Requests -> Stages]
      /\ subject' \in [Calls \cup Requests -> Principals \cup {None}]
      /\ op' \in [Calls -> Operations \cup {None}]
      /\ at'[a] = stage /\ subject'[a] = p /\ op'[a] = operation
      /\ \A y \in Calls \cup Requests :
           y # a => at'[y] = at[y] /\ subject'[y] = subject[y]
      /\ \A b \in Calls : b # a => op'[b] = op[b]
      /\ UNCHANGED <<rows, arrivals>> /\ Monotone
  BY <1>1, StartTypes
<1>5. TypeOK'
  BY <1>2, <1>3, <1>4 DEF TInv, TypeOK, rows, arrivals
<1>6. OnlyOf(a) /\ OnlyCallOf(a)
  BY <1>2, <1>3, <1>4 DEF OnlyOf, OnlyCallOf
<1>7. ConsistentOf(a)'
  BY <1>1, <1>2, <1>4 DEF ConsistentOf, rows
<1>8. Consistent'
  BY <1>4, <1>6, <1>7, OthersConsistent
<1> QED BY <1>2, <1>4, <1>5, <1>6, <1>8 DEF Stepped, TInv, rows

LEMMA RevokeTypes ==
  ASSUME TInv, NEW a \in Calls, NEW c \in Credentials, BeginRevoke(a, c)
  PROVE  Stepped(a)
<1> DEFINE p == OwnerOf[c]
<1>1. p \in Principals /\ p \in Agents
  BY PrincipalConstants DEF BeginRevoke
<1>2. "revoke" \in Operations /\ "revoke" \in CallStages
  BY DEF Operations, CallStages
<1>3. /\ at' \in [Calls \cup Requests -> Stages]
      /\ subject' \in [Calls \cup Requests -> Principals \cup {None}]
      /\ op' \in [Calls -> Operations \cup {None}]
      /\ at'[a] = "revoke" /\ subject'[a] = p /\ op'[a] = "revoke"
      /\ \A y \in Calls \cup Requests :
           y # a => at'[y] = at[y] /\ subject'[y] = subject[y]
      /\ \A b \in Calls : b # a => op'[b] = op[b]
      /\ UNCHANGED <<rows, arrivals>> /\ Monotone
  BY <1>1, <1>2, StartTypes DEF BeginRevoke
<1>4. /\ held' \in [Calls \cup Requests -> Credentials \cup {None}] /\ held'[a] = c
      /\ \A y \in Calls \cup Requests : y # a => held'[y] = held[y]
      /\ UNCHANGED <<former, alone>>
  BY DEF BeginRevoke, TInv, TypeOK
<1>5. TypeOK' /\ OnlyOf(a) /\ OnlyCallOf(a)
  BY <1>3, <1>4 DEF TInv, TypeOK, rows, arrivals, OnlyOf, OnlyCallOf
<1>6. ConsistentOf(a)'
  BY <1>1, <1>3, <1>4 DEF ConsistentOf
<1>7. Consistent'
  BY <1>3, <1>5, <1>6, OthersConsistent
<1> QED BY <1>3, <1>5, <1>7 DEF Stepped, TInv, rows

(* The statements of a call: each writes rows and moves the call on. *)
LEMMA WriteTypes ==
  ASSUME TInv, NEW a \in Calls, UNCHANGED <<subject, op, former, alone, arrivals, runtime>>,
         NEW stage \in CallStages \cup Ended, Go(a, stage), at[a] # "idle",
         status' \in [Principals -> Statuses \cup {"absent"}],
         deleted' \in SUBSET Principals,
         credential' \in [Credentials -> {"absent", "active", "revoked"}],
         held' \in [Calls \cup Requests -> Credentials \cup {None}],
         \A y \in Calls \cup Requests : y # a => held'[y] = held[y],
         stage \in {"newSecret", "issue", "audit", "answered", "failed"},
         stage = "newSecret" => op[a] = "reset",
         stage = "issue" => op[a] = "issue" /\ subject[a] \in Agents,
         Monotone
  PROVE  Stepped(a)
<1>1. TypeOK'
  BY DEF TInv, TypeOK, Go, Stages, arrivals
<1>2. OnlyOf(a) /\ OnlyCallOf(a) /\ at'[a] = stage
  BY DEF OnlyOf, OnlyCallOf, Go, TInv, TypeOK
<1>3. ConsistentOf(a)'
  BY <1>2 DEF TInv, Consistent, ConsistentOf, Monotone, Principals
<1>4. Consistent'
  BY <1>2, <1>3, OthersConsistent
<1> QED BY <1>1, <1>2, <1>4 DEF Stepped, TInv

LEMMA RevokedByTypes ==
  ASSUME TypeOK, NEW C \in SUBSET Credentials,
         credential' = RevokedBy(C), status' \in [Principals -> Statuses \cup {"absent"}],
         \A p \in Principals : status[p] # "absent" => status'[p] # "absent",
         deleted \subseteq deleted'
  PROVE  /\ credential' \in [Credentials -> {"absent", "active", "revoked"}]
         /\ Monotone
BY DEF TypeOK, RevokedBy, Monotone

LEMMA StoreTypes ==
  ASSUME TypeOK, NEW a \in Calls, NEW c \in Credentials, credential[c] = "absent",
         Store(a, c)
  PROVE  /\ credential' \in [Credentials -> {"absent", "active", "revoked"}]
         /\ held' \in [Calls \cup Requests -> Credentials \cup {None}]
         /\ \A y \in Calls \cup Requests : y # a => held'[y] = held[y]
         /\ Monotone
BY DEF Store, TypeOK, Monotone

LEMMA CallTypes ==
  ASSUME TInv, NEW a \in Calls, Call(a)
  PROVE  Stepped(a)
<1>0. TypeOK /\ ConsistentOf(a)
  BY DEF TInv, Consistent
<1>1. CASE \E p \in Principals : \/ BeginUpdate(a, p) \/ BeginDelete(a, p)
                                \/ BeginReset(a, p) \/ BeginIssue(a, p)
  BY <1>1, BeginTypes
<1>2. CASE \E c \in Credentials : BeginRevoke(a, c)
  BY <1>2, RevokeTypes
<1>3. CASE Update(a)
  <2>1. /\ status' \in [Principals -> Statuses \cup {"absent"}]
        /\ \A p \in Principals : status[p] # "absent" => status'[p] # "absent"
    BY <1>0, <1>3 DEF Update, TypeOK, Statuses
  <2>2. Monotone
    BY <1>3, <2>1 DEF Update, Monotone
  <2> QED BY <1>0, <1>3, <2>1, <2>2, WriteTypes DEF Update, TypeOK, CallStages, locals
<1>4. CASE Delete(a)
  <2>1. subject[a] \in Principals
    BY <1>0, <1>4 DEF Delete, ConsistentOf
  <2>2. /\ status' \in [Principals -> Statuses \cup {"absent"}]
        /\ \A p \in Principals : status[p] # "absent" => status'[p] # "absent"
        /\ deleted' \in SUBSET Principals /\ deleted \subseteq deleted'
    BY <1>0, <1>4, <2>1 DEF Delete, TypeOK, Statuses
  <2>3. /\ credential' \in [Credentials -> {"absent", "active", "revoked"}]
        /\ Monotone
    BY <1>0, <1>4, <2>2, RevokedByTypes DEF Delete, ActiveOf
  <2> QED BY <1>0, <1>4, <2>2, <2>3, WriteTypes DEF Delete, TypeOK, CallStages, locals
<1>5. CASE Reset(a)
  <2>1. /\ credential' \in [Credentials -> {"absent", "active", "revoked"}]
        /\ Monotone
    BY <1>0, <1>5, RevokedByTypes DEF Reset, ResetOf, ActiveOf, TypeOK
  <2>2. op[a] = "reset"
    BY <1>0, <1>5 DEF Reset, ConsistentOf
  <2> QED BY <1>0, <1>5, <2>1, <2>2, WriteTypes DEF Reset, TypeOK, CallStages, locals
<1>6. CASE NewSecret(a) \/ Issue(a)
  <2>1. PICK c \in Credentials : credential[c] = "absent" /\ Store(a, c)
    BY <1>6 DEF NewSecret, Issue, FreshOf
  <2>2. /\ credential' \in [Credentials -> {"absent", "active", "revoked"}]
        /\ held' \in [Calls \cup Requests -> Credentials \cup {None}]
        /\ \A y \in Calls \cup Requests : y # a => held'[y] = held[y]
        /\ Monotone
    BY <1>0, <2>1, StoreTypes
  <2>3. at[a] # "idle"
    BY <1>6 DEF NewSecret, Issue
  <2> QED BY <1>0, <2>1, <2>2, <2>3, WriteTypes DEF Store, TypeOK, CallStages
<1>7. CASE CheckRuntime(a)
  <2>1. op[a] = "issue" /\ subject[a] \in Agents
    BY <1>0, <1>7 DEF CheckRuntime, ConsistentOf
  <2>2. Monotone
    BY <1>7 DEF CheckRuntime, Monotone, rows
  <2>3. /\ held' \in [Calls \cup Requests -> Credentials \cup {None}]
        /\ \A y \in Calls \cup Requests : y # a => held'[y] = held[y]
    BY <1>0, <1>7 DEF CheckRuntime, TypeOK, FreshOf
  <2> QED BY <1>0, <1>7, <2>1, <2>2, <2>3, WriteTypes
          DEF CheckRuntime, TypeOK, CallStages, rows
<1>8. CASE Revoke(a)
  <2>1. held[a] \in Credentials
    BY <1>0, <1>8 DEF Revoke, ConsistentOf
  <2>2. /\ credential' \in [Credentials -> {"absent", "active", "revoked"}]
        /\ Monotone
    BY <1>0, <1>8, <2>1, RevokedByTypes DEF Revoke, TypeOK
  <2> QED BY <1>0, <1>8, <2>2, WriteTypes DEF Revoke, TypeOK, CallStages, locals
<1>9. CASE Answer(a) \/ Fail(a)
  <2>1. Monotone /\ at[a] # "idle"
    BY <1>9 DEF Answer, Fail, Busy, CallStages, Monotone, rows
  <2> QED BY <1>0, <1>9, <2>1, WriteTypes
          DEF Answer, Fail, TypeOK, Ended, rows, locals
<1> QED BY <1>1, <1>2, <1>3, <1>4, <1>5, <1>6, <1>7, <1>8, <1>9 DEF Call

LEMMA StepTypes == TInv /\ [Next]_vars => TInv'
<1> SUFFICES ASSUME TInv, [Next]_vars PROVE TInv'
  OBVIOUS
<1>1. CASE Create
  BY <1>1, CreateTypes
<1>2. ASSUME NEW a \in Calls, Call(a) PROVE TInv'
  BY <1>2, CallTypes DEF Stepped
<1>3. ASSUME NEW u \in Requests, Request(u) PROVE TInv'
  BY <1>3, RequestTypes
<1>4. CASE UNCHANGED vars
  BY <1>4 DEF TInv, TypeOK, Consistent, ConsistentOf, vars, rows, locals, arrivals
<1> QED BY <1>1, <1>2, <1>3, <1>4 DEF Next

(* Principals, credentials, calls and requests keep their types, and every  *)
(* call works with what its stage says.                                     *)
THEOREM PrincipalTypes == Spec => []TypeOK
<1>1. TInv => TypeOK
  BY DEF TInv
<1> QED BY InitTypes, StepTypes, <1>1, PTL DEF Spec

--------------------------------------------------------------------------------
(* Deletion: a principal answered as deleted has a deletedAt, and no         *)
(* request goes past the row of a principal that had one when it arrived.    *)

GoneCall(a) ==
  op[a] = "delete" /\ at[a] \in {"audit", "answered"} => subject[a] \in deleted

GoneRequest(u) ==
  /\ goneBefore[u] \subseteq deleted
  /\ at[u] \in {"runtimeOf", "credentials", "authenticated"} => subject[u] \notin goneBefore[u]

GoneInv == (\A a \in Calls : GoneCall(a)) /\ (\A u \in Requests : GoneRequest(u))

LEMMA InitGone == Init => GoneInv
BY DEF Init, GoneInv, GoneCall, GoneRequest

LEMMA CallGone ==
  ASSUME TInv, GoneInv, NEW a \in Calls, Call(a)
  PROVE  GoneInv'
<1>0. TypeOK /\ ConsistentOf(a) /\ Stepped(a)
  BY CallTypes DEF TInv, Consistent
<1>1. GoneCall(a)'
  <2> SUFFICES ASSUME op'[a] = "delete", at'[a] \in {"audit", "answered"}
               PROVE  subject'[a] \in deleted'
    BY DEF GoneCall
  <2>1. CASE \/ \E p \in Principals : \/ BeginUpdate(a, p) \/ BeginDelete(a, p)
                                      \/ BeginReset(a, p) \/ BeginIssue(a, p)
             \/ \E c \in Credentials : BeginRevoke(a, c)
             \/ Reset(a) \/ CheckRuntime(a) \/ Fail(a)
    BY <1>0, <2>1 DEF BeginUpdate, BeginDelete, BeginReset, BeginIssue, BeginRevoke,
       Start, Reset, CheckRuntime, Fail, Go, TypeOK
  <2>2. CASE Update(a) \/ NewSecret(a) \/ Issue(a) \/ Revoke(a)
    BY <1>0, <2>2 DEF Update, NewSecret, Issue, Revoke, Store, ConsistentOf, locals
  <2>3. CASE Delete(a)
    BY <2>3 DEF Delete, locals
  <2>4. CASE Answer(a)
    BY <2>4 DEF Answer, GoneInv, GoneCall, rows, locals
  <2> QED BY <2>1, <2>2, <2>3, <2>4 DEF Call
<1>2. ASSUME NEW b \in Calls, b # a PROVE GoneCall(b)'
  BY <1>0, <1>2 DEF Stepped, OnlyOf, OnlyCallOf, Monotone, GoneInv, GoneCall
<1>3. ASSUME NEW u \in Requests PROVE GoneRequest(u)'
  <2>1. u # a
    BY PrincipalConstants
  <2> QED BY <1>0, <2>1 DEF Stepped, OnlyOf, Monotone, GoneInv, GoneRequest, arrivals
<1> QED BY <1>1, <1>2, <1>3 DEF GoneInv

LEMMA RequestGone ==
  ASSUME TInv, GoneInv, NEW u \in Requests, Request(u)
  PROVE  GoneInv'
<1>0. TypeOK /\ OnlyOf(u) /\ UNCHANGED <<rows, op, former, alone>>
  BY RequestTypes DEF TInv
<1>1. ASSUME NEW a \in Calls PROVE GoneCall(a)'
  <2>1. u # a
    BY PrincipalConstants
  <2> QED BY <1>0, <2>1 DEF OnlyOf, GoneInv, GoneCall, rows
<1>2. GoneRequest(u)'
  <2>1. CASE \E c \in Credentials : Present(u, c)
    <3>1. goneBefore'[u] = Gone /\ at'[u] \in {"client", "application", "agent"}
      BY <1>0, <2>1 DEF Present, Go, TypeOK
    <3>2. Gone \subseteq deleted
      BY DEF Gone, GoneInv, GoneCall
    <3> QED BY <1>0, <3>1, <3>2 DEF GoneRequest, rows
  <2>2. CASE AuthenticateClient(u) \/ AuthenticateApplication(u) \/ FindAgent(u)
    <3>1. /\ UNCHANGED <<locals, arrivals>>
          /\ at'[u] \in {"runtimeOf", "credentials", "authenticated"} =>
               subject[u] \notin deleted
      BY <1>0, <2>2 DEF AuthenticateClient, AuthenticateApplication, FindAgent, Decide,
         Usable, Findable, Go, TypeOK
    <3> QED BY <1>0, <3>1 DEF GoneInv, GoneRequest, rows, locals, arrivals
  <2>3. CASE FindRuntime(u) \/ CompareCredentials(u)
    BY <1>0, <2>3 DEF FindRuntime, CompareCredentials, Decide, GoneInv, GoneRequest,
       rows, locals, arrivals
  <2> QED BY <2>1, <2>2, <2>3 DEF Request
<1>3. ASSUME NEW v \in Requests, v # u PROVE GoneRequest(v)'
  <2>1. goneBefore'[v] = goneBefore[v]
    BY <1>0, <1>3 DEF Request, Present, AuthenticateClient, AuthenticateApplication,
       FindAgent, FindRuntime, CompareCredentials, Decide, TypeOK, arrivals
  <2> QED BY <1>0, <1>3, <2>1 DEF OnlyOf, GoneInv, GoneRequest, rows
<1> QED BY <1>1, <1>2, <1>3 DEF GoneInv

LEMMA StepGone == TInv /\ GoneInv /\ [Next]_vars => GoneInv'
<1> SUFFICES ASSUME TInv, GoneInv, [Next]_vars PROVE GoneInv'
  OBVIOUS
<1>1. CASE Create
  BY <1>1, CreateTypes DEF GoneInv, GoneCall, GoneRequest, locals, arrivals
<1>2. ASSUME NEW a \in Calls, Call(a) PROVE GoneInv'
  BY <1>2, CallGone
<1>3. ASSUME NEW u \in Requests, Request(u) PROVE GoneInv'
  BY <1>3, RequestGone
<1>4. CASE UNCHANGED vars
  BY <1>4 DEF GoneInv, GoneCall, GoneRequest, vars, rows, locals, arrivals
<1> QED BY <1>1, <1>2, <1>3, <1>4 DEF Next

(* No request that arrives after a principal's deletion was answered         *)
(* authenticates as it, whatever updates and calls were under way.           *)
THEOREM DeletionIsFinal == Spec => []DeletedStaysOut
<1>1. Init => TInv /\ GoneInv
  BY InitTypes, InitGone
<1>2. TInv /\ GoneInv /\ [Next]_vars => TInv' /\ GoneInv'
  BY StepTypes, StepGone
<1>3. GoneInv => DeletedStaysOut
  BY DEF GoneInv, GoneRequest, DeletedStaysOut
<1> QED BY <1>1, <1>2, <1>3, PTL DEF Spec

--------------------------------------------------------------------------------
(* Reset and revocation: what a call has promised to be dead is revoked, and *)
(* nothing revoked becomes active again.                                     *)

Revoked(C) == \A c \in C : credential[c] = "revoked"

DeadCall(a) ==
  /\ op[a] = "reset" /\ at[a] # "idle" =>
       \A c \in former[a] : credential[c] # "absent" /\ OwnerOf[c] = subject[a]
  /\ op[a] = "reset" /\ at[a] \in {"newSecret", "audit", "answered"} => Revoked(former[a])
  /\ op[a] = "revoke" /\ at[a] # "idle" => held[a] \in Credentials
  /\ op[a] = "revoke" /\ at[a] \in {"audit", "answered"} => Revoked({held[a]})

DeadRequest(u) ==
  /\ Revoked(deadBefore[u])
  /\ at[u] = "authenticated" => held[u] \notin deadBefore[u]

DeadInv == (\A a \in Calls : DeadCall(a)) /\ (\A u \in Requests : DeadRequest(u))

LEMMA InitDead == Init => DeadInv
BY DEF Init, DeadInv, DeadCall, DeadRequest, Revoked

LEMMA CallDead ==
  ASSUME TInv, DeadInv, NEW a \in Calls, Call(a)
  PROVE  DeadInv'
<1>0. TypeOK /\ ConsistentOf(a) /\ DeadCall(a) /\ Stepped(a)
  BY CallTypes DEF TInv, Consistent, DeadInv
<1>00. Monotone /\ TypeOK'
  BY <1>0 DEF Stepped, TInv
<1>1. DeadCall(a)'
  <2>1. CASE \E p \in Principals : \/ BeginUpdate(a, p) \/ BeginDelete(a, p)
                                  \/ BeginReset(a, p) \/ BeginIssue(a, p)
    <3> PICK p \in Principals : \/ BeginUpdate(a, p) \/ BeginDelete(a, p)
                                \/ BeginReset(a, p) \/ BeginIssue(a, p)
      BY <2>1
    <3>1. CASE BeginReset(a, p)
      <4>1. /\ former'[a] = IssuedTo(p) /\ subject'[a] = p /\ at'[a] = "reset"
            /\ op'[a] = "reset" /\ credential' = credential
        BY <1>0, <3>1 DEF BeginReset, Start, Go, TypeOK, rows
      <4> QED BY <4>1 DEF DeadCall, IssuedTo
    <3>2. CASE BeginUpdate(a, p) \/ BeginDelete(a, p) \/ BeginIssue(a, p)
      <4>1. op'[a] \in {"update", "delete", "issue"}
        BY <1>0, <3>2 DEF BeginUpdate, BeginDelete, BeginIssue, Start, TypeOK
      <4> QED BY <4>1 DEF DeadCall
    <3> QED BY <3>1, <3>2
  <2>2. CASE \E c \in Credentials : BeginRevoke(a, c)
    <3>1. op'[a] = "revoke" /\ at'[a] = "revoke" /\ held'[a] \in Credentials
      BY <1>0, <2>2 DEF BeginRevoke, Start, Go, TypeOK
    <3> QED BY <3>1 DEF DeadCall
  <2>3. CASE Update(a) \/ Delete(a) \/ Issue(a) \/ CheckRuntime(a)
    <3>1. op'[a] \in {"update", "delete", "issue"}
      BY <1>0, <2>3 DEF Update, Delete, Issue, CheckRuntime, Store, ConsistentOf, locals
    <3> QED BY <3>1 DEF DeadCall
  <2>4. CASE Reset(a)
    <3>1. /\ op'[a] = "reset" /\ former' = former /\ subject' = subject
          /\ at[a] = "reset" /\ op[a] = "reset"
          /\ credential' = RevokedBy(ActiveOf(subject[a]))
      BY <1>0, <2>4 DEF Reset, ResetOf, ConsistentOf, locals
    <3>2. ASSUME NEW c \in former[a] PROVE credential'[c] = "revoked"
      <4>1. c \in Credentials /\ credential[c] # "absent" /\ OwnerOf[c] = subject[a]
        BY <1>0, <3>1 DEF TypeOK, DeadCall
      <4>2. credential[c] \in {"active", "revoked"}
        BY <1>0, <4>1 DEF TypeOK
      <4>3. credential'[c] = IF c \in ActiveOf(subject[a]) THEN "revoked" ELSE credential[c]
        BY <3>1, <4>1 DEF RevokedBy
      <4> QED BY <4>1, <4>2, <4>3 DEF ActiveOf
    <3>3. \A c \in former[a] : OwnerOf[c] = subject[a]
      BY <1>0, <3>1 DEF DeadCall
    <3> QED BY <3>1, <3>2, <3>3 DEF DeadCall, Revoked
  <2>5. CASE NewSecret(a)
    <3>1. /\ op'[a] = "reset" /\ former' = former /\ subject' = subject
          /\ at[a] = "newSecret" /\ op[a] = "reset"
      BY <1>0, <2>5 DEF NewSecret, Store, ConsistentOf
    <3>2. \A c \in former[a] : /\ credential[c] = "revoked" /\ credential'[c] = "revoked"
                               /\ OwnerOf[c] = subject[a]
      BY <1>0, <1>00, <3>1 DEF DeadCall, Revoked, Monotone, TypeOK
    <3> QED BY <3>1, <3>2 DEF DeadCall, Revoked
  <2>6. CASE Revoke(a)
    <3>1. /\ op'[a] = "revoke" /\ op[a] = "revoke" /\ held' = held
          /\ held[a] \in Credentials /\ credential' = RevokedBy({held[a]})
      BY <1>0, <2>6 DEF Revoke, ConsistentOf, locals
    <3>2. credential'[held[a]] = "revoked"
      BY <3>1 DEF RevokedBy
    <3> QED BY <3>1, <3>2 DEF DeadCall, Revoked
  <2>7. CASE Answer(a) \/ Fail(a)
    <3>1. /\ UNCHANGED <<credential, op, held, former, subject>> /\ at[a] # "idle"
          /\ at'[a] \in {"newSecret", "audit", "answered"} =>
               at[a] = "audit" /\ at'[a] = "answered"
      BY <1>0, <2>7 DEF Answer, Fail, Busy, CallStages, Go, TypeOK, rows, locals
    <3> QED BY <1>0, <3>1 DEF DeadCall, Revoked
  <2> QED BY <2>1, <2>2, <2>3, <2>4, <2>5, <2>6, <2>7 DEF Call
<1>2. ASSUME NEW b \in Calls, b # a PROVE DeadCall(b)'
  <2>1. /\ op'[b] = op[b] /\ at'[b] = at[b] /\ held'[b] = held[b]
        /\ former'[b] = former[b] /\ subject'[b] = subject[b]
        /\ former[b] \subseteq Credentials
    BY <1>0, <1>2 DEF Stepped, OnlyOf, OnlyCallOf, TypeOK
  <2> QED BY <1>00, <2>1 DEF DeadInv, DeadCall, Revoked, Monotone
<1>3. ASSUME NEW u \in Requests PROVE DeadRequest(u)'
  <2>1. u # a
    BY PrincipalConstants
  <2>2. /\ deadBefore' = deadBefore /\ at'[u] = at[u] /\ held'[u] = held[u]
        /\ deadBefore[u] \subseteq Credentials
    BY <1>0, <2>1 DEF Stepped, OnlyOf, TypeOK, arrivals
  <2> QED BY <1>00, <2>2 DEF Monotone, DeadInv, DeadRequest, Revoked
<1> QED BY <1>1, <1>2, <1>3 DEF DeadInv

LEMMA RequestDead ==
  ASSUME TInv, DeadInv, NEW u \in Requests, Request(u)
  PROVE  DeadInv'
<1>0. TypeOK /\ OnlyOf(u) /\ UNCHANGED <<rows, op, former, alone>>
  BY RequestTypes DEF TInv
<1>1. ASSUME NEW a \in Calls PROVE DeadCall(a)'
  <2>1. u # a
    BY PrincipalConstants
  <2>2. /\ UNCHANGED <<credential, op, former>> /\ at'[a] = at[a]
        /\ subject'[a] = subject[a] /\ held'[a] = held[a]
    BY <1>0, <2>1 DEF OnlyOf, rows
  <2> QED BY <2>2 DEF DeadInv, DeadCall, Revoked
<1>2. DeadRequest(u)'
  <2>1. CASE \E c \in Credentials : Present(u, c)
    <3>1. deadBefore'[u] = Dead /\ at'[u] # "authenticated" /\ credential' = credential
      BY <1>0, <2>1 DEF Present, Go, TypeOK, rows
    <3>2. Revoked(Dead)
      BY DEF Dead, DeadInv, DeadCall, Revoked
    <3> QED BY <3>1, <3>2 DEF DeadRequest, Revoked
  <2>2. CASE AuthenticateClient(u) \/ AuthenticateApplication(u) \/ CompareCredentials(u)
    <3>1. /\ UNCHANGED <<locals, arrivals>> /\ credential' = credential
          /\ at'[u] = "authenticated" => held[u] \in ActiveOf(subject[u])
      BY <1>0, <2>2 DEF AuthenticateClient, AuthenticateApplication, CompareCredentials,
         Decide, Go, TypeOK, rows
    <3>2. at'[u] = "authenticated" => credential[held[u]] = "active"
      BY <3>1 DEF ActiveOf
    <3> QED BY <3>1, <3>2 DEF DeadInv, DeadRequest, Revoked, locals, arrivals
  <2>3. CASE FindAgent(u) \/ FindRuntime(u)
    <3>1. /\ UNCHANGED <<locals, arrivals>> /\ credential' = credential
          /\ at'[u] # "authenticated"
      BY <1>0, <2>3 DEF FindAgent, FindRuntime, Go, TypeOK, rows
    <3> QED BY <3>1 DEF DeadInv, DeadRequest, Revoked, locals, arrivals
  <2> QED BY <2>1, <2>2, <2>3 DEF Request
<1>3. ASSUME NEW v \in Requests, v # u PROVE DeadRequest(v)'
  <2>1. deadBefore'[v] = deadBefore[v]
    BY <1>0, <1>3 DEF Request, Present, AuthenticateClient, AuthenticateApplication,
       FindAgent, FindRuntime, CompareCredentials, Decide, TypeOK, arrivals
  <2> QED BY <1>0, <1>3, <2>1 DEF OnlyOf, DeadInv, DeadRequest, Revoked, rows
<1> QED BY <1>1, <1>2, <1>3 DEF DeadInv

LEMMA StepDead == TInv /\ DeadInv /\ [Next]_vars => DeadInv'
<1> SUFFICES ASSUME TInv, DeadInv, [Next]_vars PROVE DeadInv'
  OBVIOUS
<1>1. CASE Create
  <2>1. Monotone /\ UNCHANGED <<deleted, at, locals, former, alone, arrivals>>
    BY <1>1, CreateTypes
  <2>2. /\ \A a \in Calls : former[a] \subseteq Credentials
        /\ \A u \in Requests : deadBefore[u] \subseteq Credentials
    BY DEF TInv, TypeOK
  <2>3. ASSUME NEW a \in Calls PROVE DeadCall(a)'
    BY <2>1, <2>2 DEF DeadInv, DeadCall, Revoked, Monotone, locals
  <2>4. ASSUME NEW u \in Requests PROVE DeadRequest(u)'
    BY <2>1, <2>2 DEF DeadInv, DeadRequest, Revoked, Monotone, locals, arrivals
  <2> QED BY <2>3, <2>4 DEF DeadInv
<1>2. ASSUME NEW a \in Calls, Call(a) PROVE DeadInv'
  BY <1>2, CallDead
<1>3. ASSUME NEW u \in Requests, Request(u) PROVE DeadInv'
  BY <1>3, RequestDead
<1>4. CASE UNCHANGED vars
  BY <1>4 DEF DeadInv, DeadCall, DeadRequest, Revoked, vars, rows, locals, arrivals
<1> QED BY <1>1, <1>2, <1>3, <1>4 DEF Next

(* No request that arrives after a reset or revocation was answered          *)
(* authenticates with a credential that call has replaced or revoked.        *)
THEOREM RevocationIsFinal == Spec => []OldSecretsDie
<1>1. Init => TInv /\ DeadInv
  BY InitTypes, InitDead
<1>2. TInv /\ DeadInv /\ [Next]_vars => TInv' /\ DeadInv'
  BY StepTypes, StepDead
<1>3. DeadInv => OldSecretsDie
  BY DEF DeadInv, DeadRequest, OldSecretsDie
<1> QED BY <1>1, <1>2, <1>3, PTL DEF Spec

--------------------------------------------------------------------------------
(* A reset left alone: no other reset or deletion of its application is      *)
(* under way, so nobody else touches the application's secrets.              *)

AloneCall(a) ==
  /\ op[a] = "reset" /\ at[a] # "idle"
  /\ \A b \in Calls :
       b # a /\ subject[b] = subject[a] /\ Busy(b) => op[b] \notin {"reset", "delete"}
  /\ at[a] = "newSecret" => ActiveOf(subject[a]) = {}
  /\ at[a] \in {"audit", "answered"} => ActiveOf(subject[a]) = {held[a]}

AloneInv == \A a \in alone : AloneCall(a)

SameSecrets(p) == \A c \in Credentials : OwnerOf[c] = p => credential'[c] = credential[c]

LEMMA SameActive ==
  ASSUME NEW p, SameSecrets(p)
  PROVE  ActiveOf(p)' = ActiveOf(p)
BY DEF SameSecrets, ActiveOf

(* Only a reset or deletion of p, or its creation, touches secrets of p. *)
LEMMA CallTouches ==
  ASSUME TInv, NEW b \in Calls, Call(b), NEW p \in Applications,
         ~ (Busy(b) /\ subject[b] = p /\ op[b] \in {"reset", "delete"})
  PROVE  SameSecrets(p)
<1>0. TypeOK /\ ConsistentOf(b) /\ p \notin Agents
  BY PrincipalConstants DEF TInv, Consistent
<1>1. CASE \/ \E q \in Principals : \/ BeginUpdate(b, q) \/ BeginDelete(b, q)
                                    \/ BeginReset(b, q) \/ BeginIssue(b, q)
           \/ \E c \in Credentials : BeginRevoke(b, c)
           \/ Update(b) \/ CheckRuntime(b) \/ Answer(b) \/ Fail(b)
  <2>1. credential' = credential
    BY <1>1 DEF BeginUpdate, BeginDelete, BeginReset, BeginIssue, BeginRevoke, Start,
       Update, CheckRuntime, Answer, Fail, rows
  <2> QED BY <2>1 DEF SameSecrets
<1>2. CASE Delete(b) \/ Reset(b)
  <2>1. subject[b] # p
    BY <1>0, <1>2 DEF Delete, Reset, ConsistentOf, Busy, CallStages
  <2>2. credential' = RevokedBy(ActiveOf(subject[b]))
    BY <1>2 DEF Delete, Reset, ResetOf
  <2> QED BY <2>1, <2>2 DEF RevokedBy, ActiveOf, SameSecrets
<1>3. CASE NewSecret(b) \/ Issue(b)
  <2>1. subject[b] # p
    BY <1>0, <1>3 DEF NewSecret, Issue, ConsistentOf, Busy, CallStages
  <2>2. PICK c \in Credentials : OwnerOf[c] = subject[b] /\ Store(b, c)
    BY <1>3 DEF NewSecret, Issue, FreshOf
  <2> QED BY <1>0, <2>1, <2>2 DEF Store, SameSecrets, TypeOK
<1>4. CASE Revoke(b)
  <2>1. OwnerOf[held[b]] # p /\ credential' = RevokedBy({held[b]})
    BY <1>0, <1>4 DEF Revoke, ConsistentOf
  <2> QED BY <2>1 DEF RevokedBy, SameSecrets
<1> QED BY <1>1, <1>2, <1>3, <1>4 DEF Call

LEMMA InitAlone == Init => AloneInv
BY DEF Init, AloneInv

(* A call that is not the reset a, and leaves it alone. *)
LEMMA OtherAlone ==
  ASSUME TInv, AloneInv, NEW b \in Calls, Call(b), NEW a \in alone, a # b, a \in alone'
  PROVE  AloneCall(a)'
<1>0. TypeOK /\ ConsistentOf(a) /\ ConsistentOf(b) /\ AloneCall(a) /\ Stepped(b) /\ a \in Calls
  BY CallTypes DEF TInv, TypeOK, Consistent, AloneInv
<1> DEFINE p == subject[a]
<1>1. /\ at'[a] = at[a] /\ subject'[a] = p /\ held'[a] = held[a] /\ op'[a] = op[a]
      /\ op[a] = "reset" /\ at[a] # "idle" /\ p \in Applications
  BY <1>0 DEF Stepped, OnlyOf, OnlyCallOf, AloneCall, ConsistentOf
<1>2. SameSecrets(p)
  BY <1>0, <1>1, CallTouches DEF AloneCall
<1>3. ActiveOf(subject[a])' = ActiveOf(subject[a])
  BY <1>1, <1>2, SameActive DEF ActiveOf, SameSecrets
<1>4. ASSUME NEW d \in Calls, d # a, subject'[d] = p, Busy(d)'
      PROVE  op'[d] \notin {"reset", "delete"}
  <2>1. CASE d # b
    BY <1>0, <1>4, <2>1 DEF Stepped, OnlyOf, OnlyCallOf, AloneCall, Busy
  <2>2. CASE d = b
    <3>1. CASE \E q \in Principals : BeginDelete(b, q) \/ BeginReset(b, q)
      <4> PICK q \in Principals : BeginDelete(b, q) \/ BeginReset(b, q)
        BY <3>1
      <4>1. subject'[b] = q
        BY <1>0 DEF BeginDelete, BeginReset, Start, TypeOK
      <4>2. a \notin alone'
        BY <1>4, <2>2, <4>1 DEF BeginDelete, BeginReset, Disturbed
      <4> QED BY <4>2
    <3>2. CASE \/ \E q \in Principals : BeginUpdate(b, q) \/ BeginIssue(b, q)
               \/ \E c \in Credentials : BeginRevoke(b, c)
      <4>1. op'[b] \in {"update", "issue", "revoke"}
        BY <1>0, <3>2 DEF BeginUpdate, BeginIssue, BeginRevoke, Start, TypeOK
      <4> QED BY <2>2, <4>1
    <3>3. CASE \/ Update(b) \/ Delete(b) \/ Reset(b) \/ NewSecret(b) \/ CheckRuntime(b)
               \/ Issue(b) \/ Revoke(b) \/ Answer(b) \/ Fail(b)
      <4>1. Busy(b) /\ subject' = subject /\ op' = op
        BY <3>3 DEF Update, Delete, Reset, NewSecret, CheckRuntime, Issue, Store, Revoke,
           Answer, Fail, Busy, CallStages, locals
      <4> QED BY <1>0, <1>4, <2>2, <4>1 DEF AloneCall
    <3> QED BY <3>1, <3>2, <3>3 DEF Call
  <2> QED BY <2>1, <2>2
<1> QED BY <1>0, <1>1, <1>3, <1>4 DEF AloneCall

(* The reset itself. *)
LEMMA OwnAlone ==
  ASSUME TInv, AloneInv, NEW a \in Calls, Call(a), a \in alone'
  PROVE  AloneCall(a)'
<1>0. TypeOK /\ ConsistentOf(a) /\ Stepped(a)
  BY CallTypes DEF TInv, Consistent
<1>1. CASE \E p \in Principals : BeginReset(a, p)
  <2> PICK p \in Principals : BeginReset(a, p)
    BY <1>1
  <2>1. at'[a] = "reset" /\ op'[a] = "reset" /\ subject'[a] = p
    BY <1>0 DEF BeginReset, Start, Go, TypeOK
  <2>2. Undisturbed(p)
    <3>1. CASE a \in alone
      <4>1. at[a] = "idle"
        BY DEF BeginReset, Start
      <4> QED BY <3>1, <4>1 DEF AloneInv, AloneCall
    <3>2. CASE a \notin alone
      BY <3>2 DEF BeginReset
    <3> QED BY <3>1, <3>2
  <2>3. ASSUME NEW b \in Calls, b # a, subject'[b] = p, Busy(b)'
        PROVE  op'[b] \notin {"reset", "delete"}
    BY <1>0, <2>2, <2>3 DEF Undisturbed, Stepped, OnlyOf, OnlyCallOf, Busy
  <2> QED BY <2>1, <2>3 DEF AloneCall
<1>2. CASE ~ \E p \in Principals : BeginReset(a, p)
  <2>1. a \in alone /\ at[a] # "idle" /\ op[a] = "reset" /\ AloneCall(a)
    <3>1. a \in alone
      BY <1>2 DEF Call, BeginUpdate, BeginDelete, BeginIssue, BeginRevoke, Update, Delete,
         Reset, NewSecret, CheckRuntime, Issue, Store, Revoke, Answer, Fail
    <3> QED BY <3>1 DEF AloneInv, AloneCall
  <2>2. Reset(a) \/ NewSecret(a) \/ Answer(a) \/ Fail(a)
    BY <1>0, <1>2, <2>1 DEF Call, BeginUpdate, BeginDelete, BeginIssue, BeginRevoke, Start,
       Update, Delete, CheckRuntime, Issue, Revoke, ConsistentOf
  <2>3. op' = op /\ subject' = subject /\ at'[a] # "idle"
    BY <1>0, <2>2 DEF Reset, NewSecret, Store, Answer, Fail, Go, TypeOK, locals
  <2>4. ASSUME NEW b \in Calls, b # a, subject'[b] = subject[a], Busy(b)'
        PROVE  op'[b] \notin {"reset", "delete"}
    BY <1>0, <2>1, <2>3, <2>4 DEF AloneCall, Stepped, OnlyOf, Busy
  <2>5. CASE Reset(a)
    <3>1. credential' = RevokedBy(ActiveOf(subject[a])) /\ at'[a] = "newSecret"
      BY <1>0, <2>5 DEF Reset, ResetOf, Go, TypeOK
    <3>2. ActiveOf(subject[a])' = {}
      BY <2>3, <3>1 DEF ActiveOf, RevokedBy
    <3> QED BY <2>1, <2>3, <2>4, <3>1, <3>2 DEF AloneCall
  <2>6. CASE NewSecret(a)
    <3>1. PICK c \in FreshOf(subject[a]) : Store(a, c)
      BY <2>6 DEF NewSecret
    <3>2. /\ credential' = [credential EXCEPT ![c] = "active"] /\ held'[a] = c
          /\ at'[a] = "audit" /\ ActiveOf(subject[a]) = {}
      BY <1>0, <2>1, <2>6, <3>1 DEF NewSecret, Store, Go, TypeOK, AloneCall
    <3>3. ActiveOf(subject[a])' = {c}
      BY <1>0, <2>3, <3>2 DEF ActiveOf, FreshOf, TypeOK
    <3> QED BY <2>1, <2>3, <2>4, <3>2, <3>3 DEF AloneCall
  <2>7. CASE Answer(a) \/ Fail(a)
    <3>1. /\ credential' = credential /\ held' = held
          /\ at'[a] \in {"newSecret", "audit", "answered"} =>
               at[a] = "audit" /\ at'[a] = "answered"
      BY <1>0, <2>7 DEF Answer, Fail, Go, TypeOK, rows, locals
    <3>2. ActiveOf(subject[a])' = ActiveOf(subject[a])
      BY <2>3, <3>1 DEF ActiveOf
    <3> QED BY <2>1, <2>3, <2>4, <3>1, <3>2 DEF AloneCall
  <2> QED BY <2>2, <2>5, <2>6, <2>7
<1> QED BY <1>1, <1>2

LEMMA StepAlone == TInv /\ AloneInv /\ [Next]_vars => AloneInv'
<1> SUFFICES ASSUME TInv, AloneInv, [Next]_vars PROVE AloneInv'
  OBVIOUS
<1>0. TypeOK /\ alone \subseteq Calls
  BY DEF TInv, TypeOK
<1>1. CASE Create
  <2>1. UNCHANGED <<deleted, at, locals, former, alone, arrivals>>
    BY <1>1, CreateTypes
  <2>2. ASSUME NEW a \in alone PROVE SameSecrets(subject[a])
    <3>1. subject[a] \in Applications /\ status[subject[a]] # "absent"
      BY <1>0, <2>2 DEF TInv, Consistent, ConsistentOf, AloneInv, AloneCall
    <3> QED BY <1>0, <1>1, <3>1 DEF Create, CreateApplication, CreateAgent, CreateRuntime,
            UpdateRuntime, FreshOf, SameSecrets, TypeOK
  <2>3. ASSUME NEW a \in alone PROVE ActiveOf(subject[a])' = ActiveOf(subject[a])
    BY <2>1, <2>2 DEF ActiveOf, SameSecrets, locals
  <2> QED BY <2>1, <2>3 DEF AloneInv, AloneCall, Busy, locals
<1>2. ASSUME NEW b \in Calls, Call(b) PROVE AloneInv'
  <2> SUFFICES ASSUME NEW a \in alone' PROVE AloneCall(a)'
    BY DEF AloneInv
  <2>1. CASE a = b
    BY <1>2, <2>1, OwnAlone
  <2>2. CASE a # b
    <3>1. a \in alone
      BY <1>2, <2>2 DEF Call, BeginUpdate, BeginDelete, BeginReset, BeginIssue, BeginRevoke,
         Update, Delete, Reset, NewSecret, CheckRuntime, Issue, Store, Revoke, Answer, Fail
    <3> QED BY <1>2, <2>2, <3>1, OtherAlone
  <2> QED BY <2>1, <2>2
<1>3. ASSUME NEW u \in Requests, Request(u) PROVE AloneInv'
  <2>1. OnlyOf(u) /\ UNCHANGED <<rows, op, former, alone>>
    BY <1>3, RequestTypes
  <2>2. \A a \in Calls : /\ at'[a] = at[a] /\ subject'[a] = subject[a]
                         /\ held'[a] = held[a]
    BY <2>1, PrincipalConstants DEF OnlyOf
  <2>3. ASSUME NEW a \in alone PROVE AloneCall(a)'
    <3>1. AloneCall(a) /\ a \in Calls
      BY <1>0, <2>3 DEF AloneInv
    <3>2. ActiveOf(subject[a])' = ActiveOf(subject[a])
      BY <2>1, <2>2, <3>1 DEF ActiveOf, rows
    <3> QED BY <2>1, <2>2, <3>1, <3>2 DEF AloneCall, Busy
  <2> QED BY <2>1, <2>3 DEF AloneInv
<1>4. CASE UNCHANGED vars
  BY <1>4 DEF AloneInv, AloneCall, ActiveOf, Busy, vars, rows, locals
<1> QED BY <1>1, <1>2, <1>3, <1>4 DEF Next

(* A reset that no other reset or deletion of its application overlaps or    *)
(* follows leaves the secret it answered as the only active one.             *)
THEOREM LoneReset == Spec => []NewSecretAlone
<1>1. Init => TInv /\ AloneInv
  BY InitTypes, InitAlone
<1>2. TInv /\ AloneInv /\ [Next]_vars => TInv' /\ AloneInv'
  BY StepTypes, StepAlone
<1>3. AloneInv => NewSecretAlone
  BY DEF AloneInv, AloneCall, NewSecretAlone
<1> QED BY <1>1, <1>2, <1>3, PTL DEF Spec
================================================================================
