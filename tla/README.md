# A TLA+ model of AuthAny

AuthAny is an OAuth 2.0 / OpenID Connect provider for human operators and a
token server for agents and applications that call other services on their own
or a user's behalf.  The server is NestJS on PostgreSQL (Prisma) and Redis; an
SDK obtains and verifies its tokens; a Next.js console administers it.

This directory holds TLA+ modules translated from the TypeScript source, TLC
instances that check them and TLAPS proofs of the properties that matter most.
Paths below are relative to the repository; `server/...` stands for
`server/src/...`.

```
cd tla
tlc -workers 2 -config OAuthGrants_login.cfg MCOAuthGrants.tla    # one run
tlapm OAuthGrantsProofs.tla                                       # one proof module
```

`PROJECT.json` lists the components, the runs, the source lines of every
definition, the hazards, the findings, the theorems, and for each checked
property a mutant: a plausible bug, written as an operator in the module, that
makes TLC find the property violated.

## 1. Inventory

All server state is in PostgreSQL rows and Redis keys.  No handler holds a lock,
and almost none uses a transaction: a handler reads, awaits, checks its copy and
writes.  So the hard behaviour is everywhere the same in kind: what other
handlers, administrators and the clock do between two awaits, and what is left
when a handler stops between two writes.

| component | state | operations | what is hard, and what makes it correct |
|---|---|---|---|
| **OAuth grants** `modules/oidc/oidc.service.ts`, `oauth-client-validation.ts` | codes, refresh tokens, access-token records, revocations | authorize (consent), token (authorization_code, refresh_token, client_credentials), revoke, introspect, userinfo | a code or refresh token is read and redeemed in two statements; rotation races with rotation, revocation, expiry and crashes.  One redemption per grant; a revoked or expired one never; a lost race revokes the family; scope never grows; the admin scope needs the role |
| **Signing keys** `modules/admin/keys`, `shared/security/token-signer.service.ts` | key rows | create, activate, retire; sign; JWKS; verify | activation is two statements; a signer keeps a key across awaits.  Every unexpired token verifies across rotations; there is always a key to sign with |
| **Delegation** `modules/delegation` (requester tokens, exchange, policy, credentials) | reads agents, applications, runtimes, credentials, targets, connections, grants; writes access-token records | issue a requester token; exchange it for a target token | up to nine rows are read one after another while administrators change them.  Each must have been good during the call; a requester token is exchanged once while it is valid |
| **Token broker, replay protection** `delegation-token-broker.service.ts`, `replay-protection.service.ts` | cached target tokens and replay marks in Redis | reuse, issue, write; SET NX | caching must not cross contexts, outlive a policy or answer a dying token; a write may fail; a mark expires |
| **Login, lockout, rate limits** `modules/auth/auth.service.ts`, `shared/rate-limit`, `shared/redis` | counters and locks in Redis | login | INCR and EXPIRE are two commands; parallel attempts share a counter, a lock and its reset.  Limits hold, locks are earned and wait out, no counter counts for ever unless its attempt died between INCR and EXPIRE |
| **Principals** `modules/admin/{applications,agents,caller-credentials,runtimes}` | rows of principals, their secrets and credentials, runtimes | create, update, delete, reset of a secret, issue and revoke a credential | every call reads, then writes without looking again.  What was answered as deleted, reset or revoked stays out |
| **Targets, connections, grants, runtimes** `modules/admin/{target-resources,target-connections,access-grants,runtimes}` | the rows an exchange reads | create, update | every check is a read before the write: audience uniqueness, existing principals and targets, provider and date rules; policy and expiry change under running exchanges |
| **Seed and maintenance scripts** `server/scripts/{seed,security-tighten-data}.ts` | the same rows | upserts; repairs | a statement at a time, dying anywhere, run again over rows administrators have changed.  A run that ends leaves what it promises |
| **Sessions, CSRF, hosted login** `shared/security/{login-session,csrf,current-user}.service.ts`, `modules/auth/hosted-*.ts`, `auth.controller.ts` | sessions in Redis; CSRF tokens are stateless | create, parse, delete; login and consent pages | tabs share one cookie jar, sessions are bound to a place and are deleted when met elsewhere; authorize and login send the browser to one another |
| **Token status, admin guard, introspection, userinfo** `shared/security/token-status.service.ts`, `shared/admin/admin-auth.guard.ts`, `modules/oidc` | reads records, revocations, roles | every admin call, userinfo, introspection | a revocation is filed under the type the caller *hinted* and looked up by type; roles and operators end before tokens do |
| **Target verification in the server** `modules/target-verification` | none | check one token | the target may be gone |
| **SDK** `packages/sdk/src/{exchange-client,runtime-adapter,verifier}.ts` | two requests, a timer, listeners; one child process; a key set | exchange, run a command with a token, verify | answer, timeout, abort and child events race; a call settles once, as what ended it, and leaves nothing behind; verifications share one fetch |
| **Console** `apps/admin-web` | dialogs, pages, a cookie | forms of every resource, lists, details, one-time secrets, login, proxying | loads and requests overlap and are answered late or never; others edit the same record |
| **Examples** `example/{demo-web,target-service}` | a state cookie; a key set and logins of its own | login with PKCE, callback, calls to targets; serving them | two tabs share one state cookie; the target service mixes two kinds of tokens |
| **Audit, metrics, health, HTTP, config, hashing, encryption, client address** `shared/*` | append-only rows; counters; `RedisService.connected` | record, count | a failing audit insert fails its handler; `healthcheck` may switch Redis off for good |

Components interact through rows.  `Principals` and the target administration
write what `Delegation` reads; `Signing keys` serves every signature and
verification; `OAuth grants` writes the records and revocations that
`Token status` reads, and both `Principals` (client status) and the operators'
roles feed its checks; `Login` creates the session that `authorize` needs.  The
console and the demonstration are clients of all of it over HTTP; the SDK and
the target service stand at both ends of a target token.

## 2. Modules

| module | models | proofs | instances |
|---|---|---|---|
| `OneTimeGrants` | what the grants promise: each is live, or redeemed by one request, or revoked | in `OAuthGrantsProofs` | |
| `OAuthGrants` | authorize, token and revoke handlers | `OAuthGrantsProofs` | `MCOAuthGrants` |
| `SigningKeys` | rotation, signing, JWKS, the server's own verification | in `AdminProofs` | `MCSigningKeys` |
| `EntitledTokens` | what an exchange promises: in one step, a target token to whom it is due, once for a requester token while it is valid | in `TargetExchangeProofs` | |
| `TargetExchange` | requester tokens, exchange, broker cache, replay marks, the administration of the rows they read | `TargetExchangeProofs` | `MCTargetExchange` |
| `LoginGuard` | login, failure counters, lock, address limit | `LoginGuardProofs` | `MCLoginGuard` |
| `SignIn` | sessions, hosted login and consent, the demonstration's and the console's login, the readers of access tokens and their revocation | `SignInProofs` | `MCSignIn` |
| `Registry` | administration of targets, connections, grants and runtimes; seed.ts, security-tighten-data.ts | `RegistryProofs` | `MCRegistry` |
| `ConsoleForm` | the console's form dialog over the field tables of every resource | in `AdminProofs` | `MCConsoleForm` |
| `ConsolePages` | the console's list and detail pages | in `AdminProofs` | `MCConsole`, which composes both halves |
| `ExchangeClient` | the SDK's exchange and command, the demonstration's requests | in `TargetServiceProofs` | |
| `TargetService` | a target service and its verifier; extends and composes `ExchangeClient` | `TargetServiceProofs` | `MCTargetService` |
| `Principals` | administration of applications, agents, secrets, credentials, runtimes; the authentication that compares them | `PrincipalsProofs` | `MCPrincipals` |

Conventions.  Every HTTP request or administrator's call is a **process**: a
member of a constant set with its stage in `pc` or `at`.  An action is what its
handler does between two awaits, that is, one database statement or Redis
command with the checks around it.  A handler may stop at any await (`Crash`,
`Fail`): database or Redis errors, a failing audit insert and the death of the
process look the same, and what was written stays.  Variables marked `history`
record the past for a property and are read by no guard.  Time is a counter that
`Tick` advances.  A definition marked *Mutant* is a plausible bug of the one that
follows it.  Where one instance would multiply independent choices, a constant
`Pools` lists what may happen together: a behaviour draws from one pool.

* **OAuthGrants.**  `grant` holds the rows of `oauth_authorization_codes` and
  `oauth_refresh_tokens`, each named by the request that inserted it; `access`
  the access-token records; `denylist` the revocations.  Redemption is
  `ReadGrant` (findUnique and the checks on the copy), then `CompareAndSet`
  (`updateMany` with `status: "active"`), then `CheckRole`, `RecordAccess`,
  `MintRefresh`, `Respond`, as in `issueStandardTokens`.  PKCE, redirect URI and
  client secret are Booleans a request brings.  The access-token branch of
  `revokeToken` writes nothing a grant depends on and is folded into
  `FindNothing`.
* **SigningKeys.**  `activate` is `BeginActivate`, `Demote`, `Promote`; its time
  stamp is taken before the writes (`stamp`).  `signWithMetadata` is `ReadKey`,
  then `Sign`, which takes `iat`.  `Usable` is `isVerificationKeyUsable`.  What a
  target's verifier makes of the published set is in `TargetService`.
* **TargetExchange.**  Rows have a status, connections and grants an expiry;
  `at` follows `issue*` and `exchange` in the order of their awaits: verify,
  replay mark, target, principal, runtime, credential, connection, grant, cache,
  sign, write, record, audit.  Cache accesses are best effort (`safeGet` and
  friends).  PostgreSQL's `NULLS FIRST` under `desc` is in `First`; the page of
  ten credentials is `Page`.
* **LoginGuard.**  Redis keys with `INCR`, `EXPIRE`, `SET EX` and `DEL` and their
  expiry; the stages are those of `AuthService.login`.
* **Principals.**  `status` and `deleted` (deletedAt) are separate because the
  code writes and reads them separately.  `Begin*` are the reads and checks of a
  call, the following actions its statements.  `former`, `alone`, `deadBefore`
  and `goneBefore` relate a request to the answers given before it arrived.

* **SignIn.**  `at` is what each tab (or login at the console) shows or waits
  for.  A request is sent with the cookies of the jar as they are then
  (`Asking`), its answer is `Answered`: `LoginSessionService.parse` is `Parse`
  and `Drop`, `CurrentOperatorService` `FindOperator`.  `calls` are requests that
  present, revoke or issue tokens, a read a step.  PKCE, state and verifier are
  the number of the attempt that made them.  `LoginGuard` and `OAuthGrants` have
  the detail of passwords and redemption, here one step each.
* **Registry.**  A call is `Begin` (what is refused before the first await), its
  reads in the order of the service, and a write.  The scripts have a program
  counter and may die at any statement; `seed` and `tighten` hold what a run has
  read so far.
* **ConsoleForm.**  `Fields` transcribes the tables of resource-definitions.tsx:
  type, visibility, options, validation.  The dialog's effects (option lists,
  blanking of hidden names, starting over with a new record) belong to the
  change that triggers them; answers of requests arrive in any order or not.
* **ConsolePages.**  `loads` and `reqs` are the requests under way.  `srv` is the
  part of the service a page sees.
* **ExchangeClient, TargetService.**  One event loop: while a continuation is
  waiting (`Continuing`) no timer or event runs, but the caller's own code may
  abort.  `Blame` is mapRequestError.  The input written to a command is in
  `stdin` until the child takes it, and nobody listens to that pipe.  A fetch of
  the key set is sent, read by AuthAny, resolved (`FetchResolves`) and its body
  read (`FetchArrives`); it fails as `jwks_fetch_failed` up to the headers
  (`FetchFails`) and as `invalid_token` after them (`BodyFails`).  jose's cooldown
  and maximal age are external code.

## 3. Runs

| run | instance | question | result | distinct states |
|---|---|---|---|---|
| `login` | one authorize, two requests for its code, one refresh; role and client status change | who wins a code, when, with what scope | holds | 1 160 342 |
| `refresh` | one login, two refreshes, one revocation of a token | what survives a lost race; refinement; termination | holds | 32 200 |
| `replay` | the same with time | does a replay of a *rotated* token revoke the family | **violated** |  |
| `rotate` | two keys, two administrators, one signer | does the server accept and publish unexpired tokens' keys through rotations | holds | 3 685 238 |
| `exchange_rows` | an agent with a runtime, two credentials, two connections | does every answer rest on rows that were good | holds | 818 080 |
| `exchange_cache` | an application, two requester tokens, two exchanges, a context | cache isolation, expiry on the way, the promise of EntitledTokens (one exchange of a requester token while it is valid) | holds | 941 913 |
| `lock` | four attempts on one username from one address | counters, locks, windows, deaths between two commands | holds | 2 355 329 |
| `principals` | two applications, an agent, a runtime, seven credentials, three calls, a request | does what was answered as gone stay out | holds | 1 153 388 |
| `registry` | two administrators' calls and both scripts over three targets, two connections, two grants, two runtimes | which rows can overlapping calls and dying scripts leave | holds | 1 648 113 |
| `signin` | two tabs, a login at the console, a reader, two revokers | what do shared cookies, moves and revocations do to codes, sessions and tokens | holds | 188 532 |
| `sdk` | two calls, two visits of a target service, two keys | how do calls and verifications end | holds | 134 825 |
| `console` | every create and edit dialog; a list and three detail pages | is what the console shows and sends current | holds | 730 140 |

**Bounds and why they are enough.**  Races here are between two writers of one
row, so two contenders and one bystander (a revocation, an administrator, the
clock) reach every pairwise order; a third contender adds no new row to fight
for, and the theorems of section 5 cover any number.

* `login` has `CodeTtl = 0`, `RefreshTtl = MaxTime = 1`: a code expires at the
  first tick, so a request that arrived in time may win it too late; the refresh token
  outlives the instance.
  `refresh` has no time: its properties do not mention it.  One client and one
  operator suffice: family revocation goes by operator over *all* clients, and
  there a second client would only weaken the race.
* `rotate` takes `Lifetime = WriteLag = SignLag = 1`, `Grace = 2`, the smallest
  times where a token signed late by a key read early outlives a retirement
  written late by more than its lifetime, and uses up the whole grace;
  `MaxTime = 4` lets that token live to its end.
* `exchange_rows` has `Page = 1` with two credentials (the eleventh of ten), an
  agent-wide and a runtime connection, and administrators over agent, target,
  credential and connection; one call, since its property concerns one call and
  its rows.  `exchange_cache` has two calls, context present and absent, and
  an answer's lag of 1 against a threshold of 1.  `ReplayTtl = RequesterTtl`, as
  with the defaults (300 s both), and `CheckLag = 1`: a call that verified its
  token in the last moment does reach the replay check after the mark is gone.
* `lock`: limits of 2, windows of 2 and `LockTime = 2` with four attempts from
  one address: a lock, an attempt that passed before it and one after it; and a
  window whose second attempt comes at its end, followed by another window within
  the length of one, so that the address passes more than its limit in it.
  Every attempt may die at every await, also between `INCR` and `EXPIRE`.
* `principals`: three calls are needed for an interrupted reset, an overlapping
  one and a later one; two free secrets beside the pair in use keep reset
  possible.

* `registry` draws from four pools: targets that share audiences, connections
  with what hangs on them, the two scripts together, and the seed run twice
  among administrators' changes; each starts from an empty database or from the
  rows of an older release (`Legacy`).  Two calls make each check-then-write
  race; `Day = MaxTime = 1` lets a grant end once.
* `signin` has six pools: a moving browser, two operators, expiring forms and
  sessions, the console, revocation of each kind of token under each hint, and
  clients and targets that are deactivated.  `SessionTtl = CsrfTtl = 0`: both
  end at the first tick; the state cookie and tokens last one.
* `sdk`: two calls under one signal reach every order of two abort listeners;
  two visits share a fetch that may fail before or after its headers;
  `Cooldown = 1 < CacheMaxAge = 2`, so that both reasons for a new fetch occur,
  and four ticks.
* `console`: an offset of one hour on a clock of three, two batches of options,
  one lost answer, two requests and two loads at once, one other administrator's
  write.  `Changed` and `Picked` bound what the operator fills in; the create
  dialogs of agents and keys, and the edit of an agent, have two submissions
  under way, as a cancelled dialog leaves them.

Symmetry is declared only over processes and rows no `CHOOSE` and no instance
constant distinguishes, and never in a run with a liveness property.
`CHECK_DEADLOCK FALSE` stands in every configuration: each process runs once and
the clock is bounded, so every behaviour of an instance ends.

## 4. Properties

Safety, one line each; the modules state them with the code they are about.

* `RedeemedByOne`, `ExpiredNeverRedeemed`, `ChainNeverWidens`,
  `AdminScopeNeedsRole`, `SurvivorsAreNewer`, `RevokedNeverRedeemed` and the
  refinement `KeepsPromise` (OAuthGrants implements OneTimeGrants).
* `RotationKeepsTokens`: the server accepts and publishes the key of every
  unexpired token.
* `RevalidatedOnEveryAnswer`: every row an answered token rests on was good at
  some time during that very call, cached or not.  `AnswersOwnContext`,
  `UsableOnArrival`, and the refinement `KeepsTokenPromise` (TargetExchange
  implements EntitledTokens), of which `GivenOnceWhileValid` is one clause.
* `OnlyTheDeadCountForEver` (a counter without an end is about to get one, or its
  attempt died between INCR and EXPIRE), `LockIsEarned` (unless such a death
  preceded), `LockHolds`, `TwiceTheLimit`.
* `DeletedStaysOut`, `OldSecretsDie`, `NewSecretAlone`.
* `AskedAudiencesDiffer` (two targets that each got audience and activity from a
  write that had asked, with no write of another target in between, never share
  one), `Tightened`, `SeededWorks`.
* `TabsAreSafe` (no code is spent on another attempt's verifier; a session met
  elsewhere dies), `ReadersAskAnew` (the row each reader is decided by, and the
  revocations it looks for, count as they were when it began or later; which
  rows it does not look at, section 6 lists).
* `CallsComeClean` (an abort reaches every request and child, nothing is left
  behind, timeouts are named, no call waits for a child that is gone),
  `KeySetServes` (`RetiredKeysAge`; `InvalidHasItsReason`: a good token is called
  invalid only while the set lacks its key and is too young, or when the body of
  the set it waited for failed; `OutageSparesTheCached`).
* `DialogIsCurrent`, `WhatIsStored`, `ClosesOnCancelOrSave`, `PagesKeepUp`.

Where one of them is a conjunction, its parts are definitions of their own with
what they say; they are checked together because they rest on the same instance.

**Liveness.**  `NavigationEnds` (run `signin`): every chain of redirects ends at a
page; assumed is weak fairness of `Handle(w)`, that is, that awaits settle and a
browser follows its redirects.  `EverythingEnds` (run `sdk`): an exchange
settles and a visit is answered; assumed is that continuations run, timers fire
and a fetch of the key set ends, by its own timeout (verifier.ts) at the latest.
Nothing is assumed of answers, callers or commands.  `EveryRequestEnds` (run `refresh`): a request that has arrived
reaches an end.  `FairSpec` assumes weak fairness of `Handle(r)` for each
request, nothing of arrivals, crashes, administrators or the clock: Node's event
loop resumes every handler whose await has settled, and a database call settles
with a result or an error.  The property is about the *shape* of the handlers: a
compare-and-set that is lost must not be tried again for ever.

## 5. Proofs

Everything below holds for every value of the constants that satisfies the
named assumptions of the modules, hence for any number of requests, keys,
administrators and rows and any clock.

| module | theorem | property |
|---|---|---|
| `OAuthGrantsProofs` | `TypeCorrect`, `OneRedemption`, `NoLateRedemption` | `TypeOK`, `RedeemedByOne`, `ExpiredNeverRedeemed` |
| | `Refinement`, `PromiseIsOneTime` | `KeepsPromise`; the invariant of `OneTimeGrants` |
| | `NoWiderToken`, `RoleForScope`, `FamilyReached`, `RevokedForGood` | `ChainNeverWidens`, `AdminScopeNeedsRole`, `SurvivorsAreNewer`, `RevokedNeverRedeemed` |
| `TargetExchangeProofs` | `ExchangeTypes`, `AnswersAreRevalidated`, `AnswersInContext`, `OnceOnly`, `Usable`, `Recorded` | `TypeOK`, `RevalidatedOnEveryAnswer`, `AnswersOwnContext`, (`OnceWhileValid`), `UsableOnArrival`, (`UnrecordedIsBroken`); those in parentheses are stated by theorems only |
| | `TokenPromise`, `PromiseIsEntitled` | `KeepsTokenPromise`; the invariant of `EntitledTokens` |
| `LoginGuardProofs` | `LoginTypes`, `EternalCounters`, `LockedOut` | `TypeOK`, `OnlyTheDeadCountForEver`, `LockHolds` |
| | `TwiceAtMost`, `EarnedLocks` | `TwiceTheLimit`, `LockIsEarned` |
| `SignInProofs` | `TabsStaySafe`, `AlwaysAskedAnew` | `TabsAreSafe` (with `TypeOK`), `ReadersAskAnew` |
| `PrincipalsProofs` | `PrincipalTypes`, `DeletionIsFinal`, `RevocationIsFinal`, `LoneReset` | `TypeOK`, `DeletedStaysOut`, `OldSecretsDie`, `NewSecretAlone` |
| `RegistryProofs` | `RowsReferToRows`, `AskedDiffer`, `TightensAll`, `SeedsAlwaysWork` | `TypeOK` (with that rows refer to rows), `AskedAudiencesDiffer`, `Tightened`, `SeededWorks` |
| `TargetServiceProofs` | `InvAlways`, `CallsEndClean`, `KeySetServesAll` | the inductive invariant; `CallsComeClean` (with `TypeOK`), `KeySetServes` (an action property) |
| `AdminProofs` | `ConsoleInvariant`, `DialogsAreCurrent`, `RowsAreWhatIsAsked` | the inductive invariant; `DialogIsCurrent` (with `FormTypeOK`), `WhatIsStored` |
| | `PagesKeepUpAlways`, `DialogsCloseOnCancelOrSave` | `PagesKeepUp` (with `TypeOK`), `ClosesOnCancelOrSave` (an action property) |
| | `KeyTypes`, `RotationSafe` | `TypeOK`, `RotationKeepsTokens` of `SigningKeys` |

How the arguments go:

* **OAuthGrants.**  `RedeemedByOne` is not inductive: nothing in it keeps a
  second request from winning a row that was won.  `IInv` adds that a won row is
  not active any more (`WonIsInactive`), that rows only leave `active` and never
  return (`RowKept`), that a row named by a request that has not inserted yet
  does not exist (`FreshRow`), and which stage holds which local value
  (`HoldsRow`, `KnowsCaller`, `PlaceOfEndpoint`).  The refinement maps a grant
  to redeemed when some request won it; `RedemptionsKept` and `NoWin` say which
  steps change that.  `NoLateRedemption` rests on `HeldInTime`: a request past
  its read arrived before the row's expiry, because time only grows.
  The chain part adds to `IInv`, as `GInv`, that a handler holds a grant of
  its own caller from the read to the end (`HeldByCaller`), what it may insert
  and record for it (`ChainFits`), the roles it can have met (`SeesAdmins`,
  `RoleMet`) and what a revocation leaves behind (`FamilyKnown`,
  `RevokedIsInactive`).  Rows keep their contents while they exist and a step is
  of one request or of none (`RequestStep`), so every other request and its chain
  stays as it was.
* **SigningKeys.**  `KInv` says that a retirement is stamped less than
  `WriteLag` ago (`CallsInTime`), a signer read its key, then active, less than
  `SignLag` ago (`SignersInTime`), and a token's key outlives it
  (`TokensInTime`).  A token signed at the last moment expires at most `Lifetime
  + WriteLag + SignLag` after the retirement; `GraceCoversLag` (`WriteLag +
  SignLag <= Grace`, that is, 60 seconds) closes the argument.  `RotationSafe`
  further needs `DistinctKids`.  `AdminProofs` extends the
  modules of the console and of the keys, which share no name and no variable, and
  proves about each from its own assumptions.
* **TargetExchange.**  `Shape` ties what a call has read to its stage.
  `Vouched` says that each row it has passed is in the history `alive`; every
  check adds one conjunct, and administrators only add to `alive`.
  `OnceOnly` assumes `ReplayTtl >= RequesterTtl`, which the defaults give; its
  `MarkedInTime` says that a mark stands as long as its token is valid, so of two
  calls past it the second took it when the token had expired.  `Usable` assumes `AnswerLag <= Threshold`, and `AnswerLag` less
  than `TargetTtl` and than every lifetime a connection allows.  `Recorded` adds
  that a token is recorded, or still held by the call that signed it, or was lost
  by a call that failed at its record.  `TokenPromise` puts these invariants
  together as `Entitled`, with two more: what a call has found belongs to its
  claim (`Served`), and no cached token outlives `TargetTtl` (`ShortLived`).  An
  exchange opens at `Verify` and is given its token at `Answer`; the steps
  between change nothing the abstract specification sees, or refuse.  `Tick`
  needs `Vouched`: rows only expire as time passes, so `alive` already has all
  that are still in force.
* **LoginGuard.**  A counter without a deadline has a creator that is about to set
  one or died before it could (`Pending`), and every deletion and expiry between
  takes the counter along.  Locks only move forward in time
  (`LocksStand`).  The last part counts: what an address has passed within
  a window is covered by two sets of at most `AddressLimit` attempts, those of
  the counter that stands and those of the one before, which are out of their
  window when the counter that stands ends (`Cover`).  This needs no assumption
  about deaths.  A failure counter has counted no failure older than itself, and
  whoever may still set its deadline failed before it was created
  (`Generation`); hence it is at most window and lag old when it reaches the
  limit (`Young`).  That part needs `FailureWindow > 0`, which
  is 15 minutes in `auth.service.ts`, and that no attempt on the username died
  between the two commands, which `LockIsEarned` says itself.
* **SignIn.**  Neither property is inductive: a page that is about to act relies
  on what was compared pages ago.  `SInv` has the records every page and request
  is one of (`Types`), what a page or a request still relies on (`PageFits`,
  `CallFits`) and what the server's history owes (`ServerFits`: an exposed
  session is dead, and of an answered revocation the token is denied, has
  expired or is a target's, `Counted`).  `Onward` says that nothing is taken
  back: rows only go, records, denials and time only grow.  So a step of one tab
  or request leaves all others as they were (`PageStays`, `CallStays`), and each
  action needs an argument for its own page or request alone.  Assumed are
  naturals as lifetimes, one kind of walker per name, and that a behaviour
  begins with well-formed tokens (`LifetimesAssumption`, `WalkersAssumption`,
  `PoolsAssumption`).
* **Principals.**  A call that has read a principal keeps its subject, operation
  and credential consistent with its stage (`Consistent`).  `deleted` only grows
  and a revoked credential stays revoked (`Monotone`); `GoneInv` and `DeadInv`
  carry that from an answer to every later request.  `AloneInv` says what an
  undisturbed reset has left at each of its stages.
* **Registry.**  None of the three properties beside `TypeOK` is inductive: a call writes what it
  checked stages ago, a script what it listed.  `Whole` has the rows and the
  records of calls and scripts, that rows refer to rows (`Refs`), and what
  whoever is about to write relies on: the rows a call was checked against
  (`CallFits`), those a script has listed (`TodoFits`) or written (`SeedFits`)
  are there, because no row is ever taken away.
  `Audited` adds that a call which has asked, and since when nobody wrote another
  target, still knows its audience to be free (`Alone`).
  `Tight` has two parts.  `Repaired`: what the script promises holds of every
  row already passed, and what is not yet repaired is still listed or its audience
  still to come, of rows nobody else wrote.  `Spared`: every target is as it was
  when the run began but for those taken away, and a listed one is never the
  oldest (`AsBefore`, `Oldish`); distinct creation times (`Numbered`), of which a
  finite set has a first, give the oldest.  `Worked` says what the seed has planted
  at each statement while nobody else writes (`PlantedClients`, `PlantedAgent`,
  `PlantedRows`); it holds from the first statement on whatever an interrupted run
  left, since every statement restores what later ones rely on.
  Assumed: requests carry what their DTOs admit (`RequestsAssumption`), rows of
  older releases refer to rows and are numbered (`LegacyAssumption`), the names of the demonstration are distinct
  and there are two clients (`NamesAssumption`), and `Words`, the statuses and
  modes, include those the code names (`WordsAssumption`).
* **ExchangeClient, TargetService.**  `Inv` relates four things no handler sees
  together: the step of a call, its timer and its two listeners (`Tidy`), its
  child, which is told, or still reachable through a listener, or one that fell
  to the abort before anyone listened (`Reached`), and the one cause it fails for
  (`Caused`).  A step of one call leaves the others alone (`Elsewhere`) but for
  the abort, which meets all of them at once.  `SetIsRecent` says that what the
  key set and the fetch under way hold was published when the fetch read it, and
  `VisitFits` that whoever waits for a fetch has not found its key in a fresh set.
  `KeySetServesAll` is an action property: each of its three conjuncts is shown
  of every step from `Inv`; that whoever is refused by a failed fetch was waiting
  for it (`FetchIsLost`) serves both ways it can fail.  Assumed are naturals as times and `Cooldown > 0`
  (`ServiceAssumption`).
* **ConsoleForm.**  `DialogInv` adds to the properties what an answer under way
  may rely on when it comes.  `FreshOptionsFit` needs `NewestIsAsked`: the request
  marked newest asked for what the values call for *now*, because every change of
  the values that changes the question asks again, and what calls for nothing
  leaves nothing to fit.  That the lists then belong to the fields rests on the
  tables: visible fields of one name have disjoint conditions, and what decides
  over them is itself always visible (`FormFields`, over all thirteen forms).
  `OneRowPerOpening` needs `OneUnderWay` (the button is off while a submission of
  this opening is under way) and `RowsMade`: the row over and above the lost
  answers is the one whose answer is awaited.  A closed dialog waits for nothing
  (`ClosedIsIdle`), so the next opening starts with a count of its own, though
  older submissions are still under way.  `ClosesOnCancelOrSave` is shown of every
  step of the dialog from `DialogInv` (`DialogCloses`).
* **ConsolePages.**  `PagesInv` says of a load that was read and is the newest that
  it has everything the page was told of (`LoadOK`), which holds because every
  answer that tells of something starts a load and so makes the older ones old;
  nothing is told of that is not there (`WorkIsServed`).  `busyAction` is one flag
  for what may be a request or the load after it: `OneAct` says that while it is set
  exactly one of either is under way, without counting; `OneActIsUnderWay` derives
  the count the property states.  `LeftIsIdle` and `KeysAreConfirmed` keep a page
  that was left, and a dialog of another page, from setting it.  For the secret
  shown, a rotation's answer carries the last secret as long as it was the only
  rotation (`IsOnly`), and the last secret of an active application is active
  (`LastIsActive`): a rotation revokes only those before it, and a deletion ends
  the application.  `Onward` says what every operation of the service keeps for
  whoever still waits.
* **MCConsole.**  `ConsoleSpec` opens a dialog or a page; the other half stands
  still.  Both invariants hold together in either case (`ConsoleStarts`,
  `ConsoleSteps`).  Assumed are an integral offset, naturals as bounds, room for
  one request of options and one load (`BoundsAssumption`, `PagesAssumption`), that
  the dialogs opened are dialogs of the console, which edits no keys
  (`FormsAssumption`), and that the page and dialog that stand still are among
  those opened (`HalvesAssumption`).

Only model-checked: the liveness properties `EveryRequestEnds`, `NavigationEnds`
and `EverythingEnds` (liveness under fairness is out of this prover's reach).
Every safety property and action property of a run, and both refinements, are
theorems.

## 6. What the checks found

With a run that shows it (quoted source in `PROJECT.json`): `replay`.  A refresh
token that is already `rotated` when it is read is answered with `invalid_grant`
and revokes nothing; only a *lost race* revokes the family.  The repository's
`README.md:34` promises "auto-revoke on replay".

What the modules make plain, without a run of its own.  Server:

* Between the two statements of `activate`, and for good if the second fails, no
  key is active and every signature throws (`keys.service.ts:49`;
  `specs/03-PROTOCOLS-AND-TOKENS.md:13` wants one active key at all times).
* After a connection's maximal lifetime was lowered the broker still answers
  cached tokens with the old one (`delegation-token-broker.service.ts:116`;
  `specs/13-ACCEPTANCE-CRITERIA.md:54`).
* The broker caches a token before its record exists; if the insert fails, later
  exchanges answer a token that introspection calls inactive
  (`delegation-token-broker.service.ts:87`), where
  `docs/security-checklist-template.md:71-73` wants every issued token to be
  found on record.  Theorem `Recorded` says that this is the only way.
* With the default times (`app-config.service.ts:39`: the replay window and a
  requester token both last 300 s) a call that verified the token in its last
  moment may reach the replay check after mark and token have ended, and is
  answered although the token was exchanged before; `specs/13-ACCEPTANCE-CRITERIA.md:77`
  (SEC-03) rejects repeated request IDs.  `OnceOnly` says that this is the only way.
* `PATCH` with status `deleted`, or a credential stored by a call that read its
  principal before the deletion, leaves a deleted principal with an active
  credential (`agents.service.ts:75`, `applications.service.ts:110`, `:166`,
  `caller-credentials.service.ts:49`; `specs/04-STATE-MACHINES.md:28`, `:154`).
  `DeletedStaysOut` shows that after a *proper* deletion it cannot be used.
* An update may empty a connection's providers while it lets context in
  (`target-connections.service.ts:111`), which a create refuses (line 276).
* Two updates, one for the mode and one for the flag, give a stateless runtime
  delegation refresh (`runtimes.service.ts:106`), which
  `specs/04-STATE-MACHINES.md:60` and `specs/13-ACCEPTANCE-CRITERIA.md:42`
  (AG-06) forbid; so no property of these two fields is stated.
* Two active targets share an audience after a race of two calls, a status update
  or a run of the seed (`target-resources.service.ts:127`).  `AskedAudiencesDiffer`
  states what the query does give.
* The admin guard accepts the token of a deactivated operator whose role row is
  still active: it asks for the role alone (`admin-auth.guard.ts:44-55`).
* A revocation under the hint `refresh_token` counts for introspection only:
  userinfo and the admin guard accept the token on
  (`oidc.service.ts:312`); `RevocationsAreFound` states where each reader looks.
  Target tokens cannot be revoked at all
  (`oidc.service.ts:514`), though `specs/19-AGENT-MANAGEMENT.md:393` mentions it.
* Logging out of the console or the demonstration drops their own cookie; the
  login session at AuthAny lives on, and a callback in flight signs in again.
* A callback, successful or not, deletes the state cookie of whichever tab began
  last (`demo-web/app/callback/route.ts`): that tab's own callback then fails.

SDK and examples:

* When the caller's signal has fired before the command is started,
  `runChildProcess` returns before it listens to the child
  (`runtime-adapter.ts:122-126`); if the command cannot be started, its error
  event ends the whole process.  So does the error of the pipe to which input is
  written (`runtime-adapter.ts:154-157`) when the child closes its end early or
  could not be started: nobody listens to it.  `runtime-adapter.test.ts:120`
  expects that a command that cannot be started is a rejection; the test has
  neither signal nor input.  `SpawnFails` and `StdinFails` take these steps, and
  `EndsWithItsChild` says what holds as long as the program runs.
* A key set whose body breaks off, comes too late or is no key set is an error of
  jose, which `verify` reports as `invalid_token` of a good token
  (`verifier.ts:47`); `docs/sdk-design.md:869` names `jwks_fetch_failed` for a
  failed fetch of the key set.
* An outage of AuthAny is answered 401 (`jwks_fetch_failed`) by the target
  service; `mergeSignals` (`verifier.ts:111`) leaves a listener on a caller's own
  signal for each fetch.
* `POST /api/auth/login` of the target service lies under `/api/`, which demands
  a token (`app.ts:197`).
* The demonstration's requests have no timeout, and a requester answer that is no
  JSON makes it present `Bearer undefined` (`target-access.ts`).

Console:

* Every save of an untouched expiry moves it by the offset of the zone
  (`resource-form-dialog.tsx:384`; `WhatIsStored` states by how much).
* Forbidding context still demands a provider, since its field appears twice
  (`resource-definitions.tsx:623` says it "does not need a value").
* After a second rotation on one page the field goes on showing the first secret,
  revoked by then, under a text that calls it the active one
  (`secret-field.tsx:18`, `admin-messages.ts:30`).
* An older load or option list that arrives later replaces a newer one; an
  answered submission of a cancelled dialog closes the one opened since.

Assumptions without which a theorem fails, and which the code does not enforce:

* `DistinctKids`: `create` accepts any kid and the column is not unique; of two
  keys with one kid `findFirst` returns either.
* `ReplayTtl >= RequesterTtl`: true of the defaults, but a shorter window can be
  configured.

Also met: if the server dies between `INCR` and `EXPIRE`, the counter never ends
and the address stays limited for good (`redis.service.ts:52`;
`OnlyTheDeadCountForEver` says that nothing else leaves one); the limit windows are fixed, not "sliding" (`README.md:53`;
`TwiceTheLimit` states what a fixed window still gives); `desc` order puts `NULL`
first, so the agent-wide connection wins over the runtime's
(`docs/src-deep-analysis.md:561` wants the reverse); of an agent's active
credentials only ten are compared with the one presented; a slow `activate` may
overwrite a retirement answered meanwhile; `validateClientSecret` compares only
the first active secret although overlapping resets leave two; one failed ping
makes `RedisService` unavailable for good (`redis.service.ts:65`).

## 7. Not modelled

* DTO validation beyond what a property is about, hashing, encryption, metrics,
  logging, the HTTP filter and configuration are stateless or pure I/O and enter
  as inputs.  Audit rows are read by no handler; their failure is a failure of
  their handler.
* The console's dashboard, tables, translations and layout; the pages of the
  demonstration; documents and HTML of the OIDC endpoints.
* In the SDK: `verify` under a caller's own signal, `clockTolerance`, and the
  environment handed to a command.
* `RedisService.healthcheck` with its flag.
* The tenant is a constant of the deployment.  Clocks of server, database and
  Redis are one.

## 8. Order of work, and what is left

The core came first (`OAuthGrants`, `SigningKeys`, `TargetExchange`,
`LoginGuard`, `Principals`, each with its proofs), then what surrounds it
(`SignIn`, `Registry`, `ExchangeClient` with `TargetService`, the console),
and last the proofs about the console.  Left, most useful first:

1. `RedisService`'s connection flag and the fail-closed or best-effort reaction
   of each caller.
2. In the SDK, `verify` under a caller's own signal.
3. The demonstration beyond its login and its calls of targets.
