-------------------------------- MODULE SignIn --------------------------------
(***************************************************************************)
(* Signing in to AuthAny and to the two web applications in front of it,   *)
(* and what the tokens they get are worth afterwards.                      *)
(*                                                                         *)
(* Tabs of one browser walk through the hosted pages (hosted-auth and oidc *)
(* controllers) and the callback of the demonstration (example/demo-web);  *)
(* they share a cookie jar.  The console (apps/admin-web) makes the same   *)
(* requests from its server.  A request carries the cookies it was sent    *)
(* with.  Readers present access tokens to the admin guard, userinfo,      *)
(* introspection and the target verifier while others revoke them and a    *)
(* database administrator takes operators, roles and targets away.         *)
(*                                                                         *)
(* How passwords are counted is module LoginGuard, how codes and tokens    *)
(* are redeemed OAuthGrants: here each is one step.                        *)
(***************************************************************************)
EXTENDS Integers, Sequences

CONSTANTS
  Operators,
  Places,            \* address and user agent of the browser
  Server,            \* those of the console's server
  Tabs, Consoles,    \* tabs of the browser, logins at the console
  Readers, Revokers, \* requests that present, revoke or issue a token
  Pools,             \* bound: what may happen in a behaviour
  SessionTtl, CsrfTtl, StateTtl, TokenTtl,
  None

ASSUME LifetimesAssumption ==
  {SessionTtl, CsrfTtl, StateTtl, TokenTtl} \subseteq Nat /\ Server \notin Places
ASSUME WalkersAssumption == Tabs \cap Consoles = {} /\ Places # {}

\* What the signer makes of a token, and the record of it.
TokenRecords ==
  [kind : {"operator", "client", "target"}, owner : Operators \cup {None}, until : Nat, admin : BOOLEAN]

\* Tokens a behaviour begins with, bound like the rest of a pool.
ASSUME PoolsAssumption == \A p \in Pools : p.tokens \in Seq(TokenRecords)

Walkers == Tabs \cup Consoles

VARIABLES
  active,    \* operators, and the target resource, that are active
  admins,    \* operators with an active administrator role
  sessions,  \* Redis: login sessions in the order of their creation
  codes,     \* authorization codes
  tokens,    \* access-token records, of operators, clients and targets
  denied,    \* token_revocations: pairs of token and type
  jar,       \* the cookies of the browser
  place,     \* where the browser is
  at,        \* the page or the request of each tab and console login
  calls,     \* the requests of readers and revokers
  attempts,  \* authorization requests the demonstration has begun
  pool,
  now,
  exposed,   \* history: sessions that were turned away from elsewhere
  revoked    \* history: tokens whose revocation was answered

server == <<active, admins, sessions, codes, tokens, denied>>
browser == <<jar, place, attempts>>
history == <<exposed, revoked>>
vars == <<server, browser, at, calls, pool, now, history>>

Target == "target"  \* the one target resource
Client == "client"  \* the one client that asks for tokens of its own
Free == [op |-> "none", step |-> "free"]

\* A tab at home, with the callback it was last sent to, or at a form.
HomeAfter(attempt, code) == [page |-> "home", attempt |-> attempt, code |-> code]
Home == HomeAfter(0, 0)
Form(name, attempt) == [page |-> name, attempt |-> attempt, csrf |-> now]

Init ==
  /\ active = Operators \cup {Target, Client} /\ admins = Operators
  /\ sessions = <<>> /\ codes = <<>> /\ denied = {}
  /\ pool \in Pools /\ tokens = pool.tokens
  /\ jar = [auth |-> 0, state |-> [attempt |-> 0, until |-> 0], demo |-> 0, admin |-> 0]
  /\ place = CHOOSE p \in Places : TRUE
  /\ at = [w \in Walkers |-> Home]
  /\ calls = [c \in Readers \cup Revokers |-> Free]
  /\ attempts = 0 /\ now = 0 /\ exposed = {} /\ revoked = {}

TypeOK ==
  /\ active \subseteq Operators \cup {Target, Client} /\ admins \subseteq Operators
  /\ \A s \in DOMAIN sessions :
       sessions[s].owner \in Operators /\ sessions[s].bound \in Places \cup {Server} /\ sessions[s].live \in BOOLEAN
  /\ \A c \in DOMAIN codes : codes[c].owner \in Operators /\ codes[c].used \in BOOLEAN
  /\ \A t \in DOMAIN tokens : tokens[t].owner \in Operators \cup {None} /\ tokens[t].until \in Nat
  /\ denied \subseteq (DOMAIN tokens) \X {"access_token", "refresh_token"}
  /\ jar.auth \in 0 .. Len(sessions) /\ {jar.demo, jar.admin} \subseteq 0 .. Len(tokens)
  /\ jar.state.attempt \in 0 .. attempts

------------------------------------------------------------------------------
(* Who is asking: LoginSessionService.parse and CurrentOperatorService.     *)

\* A request of w sent with session cookie s, to find out for "why" who that is.
Asking(w, why, s) ==
  [page |-> "parse", why |-> why, cookie |-> s, from |-> IF w \in Consoles THEN Server ELSE place,
   attempt |-> at[w].attempt, gone |-> Operators \ active, shown |-> exposed]

Asks(w) == at[w].page \in {"parse", "drop", "operator"}
Known(s) == s > 0 /\ sessions[s].live

\* What each request does with the answer.  Nobody is sent from authorize to
\* the login page, and somebody from there back; without a consent page the
\* operator is resolved a second time.
Answered(w, o) ==
  LET r == at[w] IN
  CASE r.why = "authorize" /\ o = None -> IF w \in Consoles THEN Home ELSE Asking(w, "login", jar.auth)
    [] r.why = "authorize" /\ o # None ->
         IF w \in Consoles THEN Asking(w, "code", r.cookie) ELSE Form("consent form", r.attempt)
    [] r.why = "login" -> IF o = None THEN Form("login form", r.attempt) ELSE Asking(w, "authorize", jar.auth)
    [] r.why = "code" -> IF o = None THEN Home
                         ELSE [page |-> "insert", operator |-> o, attempt |-> r.attempt, gone |-> r.gone]

\* Mutant: on the login page a session is enough, whoever's it is.
ParseTrusts(w) ==
  /\ at[w].page = "parse"
  /\ LET r == at[w] s == at[w].cookie IN
       at' = [at EXCEPT ![w] =
         IF ~Known(s) THEN Answered(w, None)
         ELSE IF sessions[s].until < now \/ sessions[s].bound # r.from THEN [r EXCEPT !.page = "drop"]
         ELSE IF r.why = "login" THEN Answered(w, sessions[s].owner)
         ELSE [r EXCEPT !.page = "operator"]]
  /\ UNCHANGED <<server, browser, calls, pool, now, history>>

\* parse: the session is read, and its time and binding compared.
Parse(w) ==
  /\ at[w].page = "parse"
  /\ LET r == at[w] s == at[w].cookie IN
       at' = [at EXCEPT ![w] =
         IF ~Known(s) THEN Answered(w, None)
         ELSE IF sessions[s].until < now \/ sessions[s].bound # r.from THEN [r EXCEPT !.page = "drop"]
         ELSE [r EXCEPT !.page = "operator"]]
  /\ UNCHANGED <<server, browser, calls, pool, now, history>>

\* parse: one that does not fit is deleted.
Drop(w) ==
  /\ at[w].page = "drop"
  /\ sessions' = [sessions EXCEPT ![at[w].cookie].live = FALSE]
  /\ exposed' = exposed \cup {at[w].cookie}
  /\ at' = [at EXCEPT ![w] = Answered(w, None)]
  /\ UNCHANGED <<active, admins, codes, tokens, denied, browser, calls, pool, now, revoked>>

\* Mutant: whoever has a session is somebody.
FindOperatorOnly(w) ==
  /\ at[w].page = "operator"
  /\ at' = [at EXCEPT ![w] = Answered(w, sessions[at[w].cookie].owner)]
  /\ UNCHANGED <<server, browser, calls, pool, now, history>>

\* resolveActiveOperator.
FindOperator(w) ==
  /\ at[w].page = "operator"
  /\ LET o == sessions[at[w].cookie].owner IN
       at' = [at EXCEPT ![w] = Answered(w, IF o \in active THEN o ELSE None)]
  /\ UNCHANGED <<server, browser, calls, pool, now, history>>

------------------------------------------------------------------------------
(* The login and consent pages.                                             *)

CsrfValid(w) == at[w].csrf + CsrfTtl >= now

\* POST /login: a form that is too old, or a login that fails, is shown anew.
PostPassword(w, o) ==
  /\ at[w].page = "login form" /\ o \in pool.logins /\ Len(sessions) < pool.sessions
  /\ at' = [at EXCEPT ![w] =
       IF CsrfValid(w) /\ o \in active THEN [page |-> "session", operator |-> o, attempt |-> at[w].attempt]
       ELSE Form("login form", at[w].attempt)]
  /\ UNCHANGED <<server, browser, calls, pool, now, history>>

\* POST /api/auth/login, from the console's server.
ConsoleLogin(w, o) ==
  /\ w \in Consoles \cap pool.walkers /\ at[w].page = "home" /\ Len(sessions) < pool.sessions
  /\ o \in pool.logins \cap active
  /\ at' = [at EXCEPT ![w] = [page |-> "session", operator |-> o, attempt |-> 0]]
  /\ UNCHANGED <<server, browser, calls, pool, now, history>>

\* The session, its cookie, and the way back to authorize.
CreateSession(w) ==
  /\ at[w].page = "session"
  /\ sessions' = Append(sessions, [owner |-> at[w].operator, bound |-> IF w \in Consoles THEN Server ELSE place,
                                   until |-> now + SessionTtl, live |-> TRUE])
  /\ jar' = IF w \in Consoles THEN jar ELSE [jar EXCEPT !.auth = Len(sessions')]
  /\ at' = [at EXCEPT ![w] = Asking(w, "authorize", Len(sessions'))]
  /\ UNCHANGED <<active, admins, codes, tokens, denied, place, attempts, calls, pool, now, history>>

Allow(w) ==
  /\ at[w].page = "consent form"
  /\ at' = [at EXCEPT ![w] = IF CsrfValid(w) THEN Asking(w, "code", jar.auth) ELSE Home]
  /\ UNCHANGED <<server, browser, calls, pool, now, history>>

NoState == [attempt |-> 0, until |-> 0]

\* The callback is told of the refusal and forgets the attempt, whichever it is.
Deny(w) ==
  /\ at[w].page = "consent form" /\ CsrfValid(w)
  /\ at' = [at EXCEPT ![w] = Home]
  /\ jar' = [jar EXCEPT !.state = NoState]
  /\ UNCHANGED <<server, place, attempts, calls, pool, now, history>>

\* createAuthorizationCode, and the redirect to the application.
InsertCode(w) ==
  /\ at[w].page = "insert"
  /\ codes' = Append(codes, [owner |-> at[w].operator, attempt |-> at[w].attempt, used |-> FALSE])
  /\ at' = [at EXCEPT ![w] =
       [page |-> IF w \in Consoles THEN "exchange" ELSE "callback", attempt |-> at[w].attempt, code |-> Len(codes'),
        saved |-> IF w \in Consoles THEN [attempt |-> 0, until |-> now + 1] ELSE jar.state]]
  /\ UNCHANGED <<active, admins, sessions, tokens, denied, browser, calls, pool, now, history>>

------------------------------------------------------------------------------
(* The demonstration and the console.                                       *)

\* GET /api/demo/login: state and verifier are fresh, and live in one cookie.
StartLogin(w) ==
  /\ w \in Tabs \cap pool.walkers /\ at[w].page = "home" /\ attempts < pool.attempts
  /\ attempts' = attempts + 1
  /\ jar' = [jar EXCEPT !.state = [attempt |-> attempts', until |-> now + StateTtl]]
  /\ at' = [at EXCEPT ![w] = [Asking(w, "authorize", jar.auth) EXCEPT !.attempt = attempts']]
  /\ UNCHANGED <<server, place, calls, pool, now, history>>

\* Mutant: any attempt that is under way will do.
CheckStateAny(w) ==
  /\ at[w].page = "callback"
  /\ at' = [at EXCEPT ![w] = IF @.saved.until > now THEN [@ EXCEPT !.page = "exchange"]
                             ELSE HomeAfter(@.attempt, @.code)]
  /\ UNCHANGED <<server, browser, calls, pool, now, history>>

\* The callback with the state cookie it was sent with.
CheckState(w) ==
  /\ at[w].page = "callback"
  /\ at' = [at EXCEPT ![w] =
       IF @.saved.until > now /\ @.saved.attempt = @.attempt THEN [@ EXCEPT !.page = "exchange"]
       ELSE HomeAfter(@.attempt, @.code)]
  /\ UNCHANGED <<server, browser, calls, pool, now, history>>

Redeemable(w) ==
  LET c == codes[at[w].code] IN
  /\ ~c.used /\ c.attempt = at[w].saved.attempt
  /\ w \in Consoles => c.owner \in admins

\* exchangeCode: a code once read as active is used up whatever becomes of the
\* role the console's scope needs.
Exchange(w) ==
  LET c == codes[at[w].code] IN
  /\ at[w].page = "exchange"
  /\ codes' = IF c.attempt = at[w].saved.attempt THEN [codes EXCEPT ![at[w].code].used = TRUE] ELSE codes
  /\ tokens' = IF Redeemable(w)
               THEN Append(tokens, [kind |-> "operator", owner |-> c.owner, until |-> now + TokenTtl, admin |-> w \in Consoles])
               ELSE tokens
  /\ at' = [at EXCEPT ![w] = [page |-> "answer", attempt |-> @.attempt, code |-> @.code,
                                  token |-> IF Redeemable(w) THEN Len(tokens') ELSE 0]]
  /\ UNCHANGED <<active, admins, sessions, denied, browser, calls, pool, now, history>>

\* The application's own cookie; the demonstration forgets the attempt.
Arrive(w) ==
  /\ at[w].page = "answer"
  /\ jar' = [jar EXCEPT
       !.state = IF w \in Tabs THEN NoState ELSE @,
       !.demo = IF w \in Tabs /\ at[w].token > 0 THEN at[w].token ELSE @,
       !.admin = IF w \in Consoles /\ at[w].token > 0 THEN at[w].token ELSE @]
  /\ at' = [at EXCEPT ![w] = HomeAfter(@.attempt, @.code)]
  /\ UNCHANGED <<server, place, attempts, calls, pool, now, history>>

\* The callback's address is opened again.
Reload(w) ==
  /\ w \in Tabs /\ at[w].page = "home" /\ at[w].code > 0
  /\ at' = [at EXCEPT ![w] = [page |-> "callback", attempt |-> @.attempt, code |-> @.code, saved |-> jar.state]]
  /\ UNCHANGED <<server, browser, calls, pool, now, history>>

\* Both applications only drop their own cookie.
Logout ==
  /\ \/ jar.demo > 0 /\ jar' = [jar EXCEPT !.demo = 0]
     \/ jar.admin > 0 /\ jar' = [jar EXCEPT !.admin = 0]
  /\ UNCHANGED <<server, place, attempts, at, calls, pool, now, history>>

------------------------------------------------------------------------------
(* Readers.                                                                 *)

Asked(op, t, step) ==
  [op |-> op, token |-> t, step |-> step, hint |-> None,
   gone |-> (Operators \cup {Target, Client}) \ active, demoted |-> Operators \ admins, out |-> revoked]

\* Somebody presents a token.
Present(c, op, t) ==
  /\ c \in Readers /\ calls[c].step = "free" /\ op \in pool.ops \cap {"guard", "userinfo", "introspect", "verify"}
  /\ calls' = [calls EXCEPT ![c] = Asked(op, t, IF op = "verify" THEN "target" ELSE "verify")]
  /\ UNCHANGED <<server, browser, at, pool, now, history>>

\* The console's proxy does, with the token of its cookie.
Proxy(c) ==
  /\ c \in Readers /\ calls[c].step = "free"
  /\ jar.admin > 0 /\ tokens[jar.admin].until > now
  /\ calls' = [calls EXCEPT ![c] = Asked("guard", jar.admin, "verify")]
  /\ UNCHANGED <<server, browser, at, pool, now, history>>

\* The next step of c, or a refusal.
Goes(c, holds, step) ==
  /\ calls' = [calls EXCEPT ![c].step = IF holds THEN step ELSE "refused"]
  /\ UNCHANGED <<server, browser, at, pool, now, history>>

Token(c) == tokens[calls[c].token]
InTime(c) == Token(c).until > now

FindTarget(c) == calls[c].step = "target" /\ Goes(c, Target \in active, "verify")

\* The signature, its time and, for the guard and the verifier, its audience.
Verify(c) ==
  /\ calls[c].step = "verify"
  /\ LET k == Token(c).kind IN
       CASE calls[c].op = "guard" -> Goes(c, InTime(c) /\ k # "target", "record")
         [] calls[c].op = "verify" -> Goes(c, InTime(c) /\ k = "target", "accepted")
         [] OTHER -> Goes(c, InTime(c), "record")

ReadRecord(c) == calls[c].step = "record" /\ Goes(c, calls[c].op = "introspect" \/ InTime(c), "revocation")

\* Introspection minds revocations of any type, the others of access tokens.
ReadRevocation(c) ==
  /\ calls[c].step = "revocation"
  /\ IF calls[c].op = "introspect"
     THEN Goes(c, (\A d \in denied : d[1] # calls[c].token) /\ InTime(c), "accepted")
     ELSE Goes(c, <<calls[c].token, "access_token">> \notin denied, "person")

\* The guard asks for the privilege in the token and for the role, userinfo for
\* the operator.
FindPerson(c) ==
  /\ calls[c].step = "person"
  /\ LET o == Token(c).owner IN
       Goes(c, o # None /\ IF calls[c].op = "guard" THEN Token(c).admin /\ o \in admins ELSE o \in active, "accepted")

------------------------------------------------------------------------------
(* Revocation of access tokens, and the tokens of clients.                  *)

Revoke(c, t, hint) ==
  /\ c \in Revokers /\ calls[c].step = "free" /\ "revoke" \in pool.ops
  /\ calls' = [calls EXCEPT ![c] = [Asked("revoke", t, "resolve") EXCEPT !.hint = hint]]
  /\ UNCHANGED <<server, browser, at, pool, now, history>>

\* resolveRevocableAccessTokenRecord: of what AuthAny would not accept itself
\* nothing is denied, and the answer is the same.
Resolve(c) ==
  /\ calls[c].step = "resolve"
  /\ calls' = [calls EXCEPT ![c].step = IF InTime(c) /\ Token(c).kind # "target" THEN "deny" ELSE "answer"]
  /\ UNCHANGED <<server, browser, at, pool, now, history>>

Filed(hint) == IF hint = None THEN "access_token" ELSE hint

\* createRevocation, under the hint if there is one.
DenyToken(c) ==
  /\ calls[c].step = "deny"
  /\ denied' = denied \cup {<<calls[c].token, Filed(calls[c].hint)>>}
  /\ calls' = [calls EXCEPT ![c].step = "answer"]
  /\ UNCHANGED <<active, admins, sessions, codes, tokens, browser, at, pool, now, history>>

AnswerRevoke(c) ==
  /\ calls[c].step = "answer"
  /\ revoked' = revoked \cup {<<calls[c].token, calls[c].hint>>}
  /\ calls' = [calls EXCEPT ![c].step = "answered"]
  /\ UNCHANGED <<server, browser, at, pool, now, exposed>>

\* The client_credentials grant: the client is asked for, then a token signed
\* and recorded.
AskForToken(c) ==
  /\ c \in Revokers /\ calls[c].step = "free" /\ "issue" \in pool.ops
  /\ calls' = [calls EXCEPT ![c] = Asked("issue", 0, "client")]
  /\ UNCHANGED <<server, browser, at, pool, now, history>>

FindClient(c) == calls[c].step = "client" /\ Goes(c, Client \in active, "sign")

RecordToken(c) ==
  /\ calls[c].step = "sign"
  /\ tokens' = Append(tokens, [kind |-> "client", owner |-> None, until |-> now + TokenTtl, admin |-> FALSE])
  /\ calls' = [calls EXCEPT ![c].step = "answered"]
  /\ UNCHANGED <<active, admins, sessions, codes, denied, browser, at, pool, now, history>>

------------------------------------------------------------------------------
Move ==
  /\ pool.moves /\ \E p \in Places : place' = p
  /\ UNCHANGED <<server, jar, attempts, at, calls, pool, now, history>>

\* The database administrator.
Deactivate(x) ==
  /\ x \in pool.doomed /\ active' = active \ {x}
  /\ UNCHANGED <<admins, sessions, codes, tokens, denied, browser, at, calls, pool, now, history>>

Demote(o) ==
  /\ pool.demotes /\ admins' = admins \ {o}
  /\ UNCHANGED <<active, sessions, codes, tokens, denied, browser, at, calls, pool, now, history>>

Tick ==
  /\ now < pool.time /\ now' = now + 1
  /\ UNCHANGED <<server, browser, at, calls, pool, history>>

\* What the servers and the browser do without anybody's doing.
Handle(w) ==
  \/ Parse(w) \/ Drop(w) \/ FindOperator(w) \/ CreateSession(w) \/ InsertCode(w)
  \/ CheckState(w) \/ Exchange(w) \/ Arrive(w)

Choose(w) ==
  \/ StartLogin(w) \/ Allow(w) \/ Deny(w) \/ Reload(w)
  \/ \E o \in Operators : PostPassword(w, o) \/ ConsoleLogin(w, o)

Read(c) ==
  \/ \E op \in pool.ops, t \in DOMAIN tokens : Present(c, op, t)
  \/ Proxy(c) \/ FindTarget(c) \/ Verify(c) \/ ReadRecord(c) \/ ReadRevocation(c) \/ FindPerson(c)

Write(c) ==
  \/ \E t \in DOMAIN tokens, hint \in {None, "access_token", "refresh_token"} : Revoke(c, t, hint)
  \/ Resolve(c) \/ DenyToken(c) \/ AnswerRevoke(c) \/ AskForToken(c) \/ FindClient(c) \/ RecordToken(c)

Next ==
  \/ \E w \in Walkers : Handle(w) \/ Choose(w)
  \/ \E c \in Readers \cup Revokers : Read(c) \/ Write(c)
  \/ \E x \in Operators \cup {Target, Client} : Deactivate(x)
  \/ \E o \in Operators : Demote(o)
  \/ Logout \/ Move \/ Tick

Spec == Init /\ [][Next]_vars

\* Every await settles, and a browser follows its redirects.
FairSpec == Spec /\ \A w \in Walkers : WF_vars(Handle(w))

------------------------------------------------------------------------------
(* Properties.                                                              *)

\* Whatever other tabs do to the one cookie that holds state and verifier: the
\* callback's comparison leaves no code to be refused for another attempt's
\* verifier.
StateSparesTheCode == \A w \in Tabs : at[w].page = "exchange" => codes[at[w].code].attempt = at[w].saved.attempt

\* resolveActiveOperator is asked anew when the consent is sent: no code is made
\* for an operator who was deactivated before that, and no token for a client.
NothingForTheGone ==
  /\ \A w \in Walkers : at[w].page = "insert" => at[w].operator \notin at[w].gone
  /\ \A c \in Revokers : calls[c].step = "sign" => Client \notin calls[c].gone

\* A session that was turned away from elsewhere tells no later request who is
\* asking, back at its own place either.
ForeignSessionDies == \A w \in Walkers : at[w].page = "operator" => at[w].cookie \notin at[w].shown

\* Each reader asks the one row it knows anew: the guard the role, userinfo the
\* operator, the verifier the target.  What was taken from that row before the
\* request began turns it away, however long the token lasts.  The other rows are
\* not asked: the guard takes the token of a deactivated operator whose role is
\* still active, and introspection asks no row of a person at all.
RowsReadCount ==
  \A c \in Readers : calls[c].step = "accepted" =>
    CASE calls[c].op = "guard" -> Token(c).owner \notin calls[c].demoted
      [] calls[c].op = "userinfo" -> Token(c).owner \notin calls[c].gone
      [] calls[c].op = "verify" -> Target \notin calls[c].gone
      [] OTHER -> TRUE

\* A revocation answered before the request began is found where readers look:
\* introspection finds it whatever the hint was, guard and userinfo when the
\* caller named access tokens or nothing.  Filed under another hint it is missed
\* by those two, and nothing revokes a token for a target.
RevocationsAreFound ==
  \A c \in Readers : calls[c].step = "accepted" =>
    \A r \in calls[c].out : r[1] = calls[c].token =>
      Token(c).kind = "target" \/ (r[2] = "refresh_token" /\ calls[c].op # "introspect")

\* Every chain of redirects ends at a page, so that nobody is sent to and fro
\* between authorize and login.
NavigationEnds ==
  \A w \in Walkers : at[w].page \notin {"home", "login form", "consent form"} ~> at[w].page \in {"home", "login form", "consent form"}


\* Tabs that share a cookie jar, and visitors from elsewhere, spoil neither a code
\* nor a session.
TabsAreSafe == TypeOK /\ StateSparesTheCode /\ ForeignSessionDies

\* Between their awaits requests rely on no answer older than themselves: the row
\* each of them is decided by, and the revocations it looks for, count as they
\* were when it began or later.
ReadersAskAnew == NothingForTheGone /\ RowsReadCount /\ RevocationsAreFound
================================================================================
