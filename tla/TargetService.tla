------------------------------ MODULE TargetService ------------------------------
(***************************************************************************)
(* A target resource that is reached with the tokens of ExchangeClient:    *)
(* the example's target service (example/target-service/src/app.ts and     *)
(* auth.ts), its verifier (packages/sdk/src/verifier.ts) with the key set  *)
(* jose keeps for it, which every request shares, and the logins of its    *)
(* own that it signs itself.                                               *)
(***************************************************************************)
EXTENDS ExchangeClient

CONSTANTS
  Visits,       \* requests to the service
  Cooldown,     \* jose: no second fetch for an unknown key within this time
  CacheMaxAge,  \* jose: a key set is fetched anew when it is this old
  FetchTime,    \* jwksTimeoutMs
  Lifetime      \* of tokens

Paths == {"/", "/login", "/api/auth/login", "/api/resources"}
Answers == {"to login", "page", "data", "signed in", "missing_token", "token_invalid", "invalid_token",
            "jwks_fetch_failed"}
Tokens == [by : Keys \cup {"local", None}, fits : BOOLEAN, until : Nat]

ASSUME ServiceAssumption ==
  /\ {Cooldown, CacheMaxAge, FetchTime, Lifetime} \subseteq Nat /\ Cooldown > 0
  /\ Keys \cap {"local", None} = {} /\ None \notin Nat \cup Answers \cup {"local"}
  /\ \A p \in Pools : p.tokens \subseteq Tokens /\ p.time \in Nat

VARIABLES
  visit,     \* the requests
  jwks,      \* the key set the verifier has
  fetching,  \* the one fetch of it that is under way
  published, \* AuthAny: the keys of its key set
  left,      \* history: when a key was last published
  cookie,    \* the token in the visitor's cookie
  now

serviceVars == <<visit, jwks, fetching, published, left, cookie, now>>
vars == <<clientVars, signing, pool, serviceVars>>

NoToken == [by |-> None, fits |-> FALSE, until |-> 0]
NoVisit == [path |-> None, token |-> NoToken, step |-> "none", missed |-> FALSE, answer |-> None]
VisitRecords ==
  [path : Paths \cup {None}, token : Tokens, step : {"none", "arrived", "key", "wait", "handle", "answered"},
   missed : BOOLEAN, answer : Answers \cup {None}]
NoSet == [keys |-> {}, at |-> 0, had |-> FALSE]
NoFetch == [step |-> "none", keys |-> {}, since |-> 0]

Init ==
  /\ ClientInit
  /\ visit = [v \in Visits |-> NoVisit] /\ jwks = NoSet /\ fetching = NoFetch
  /\ published = {signing} /\ left = [k \in Keys |-> None] /\ cookie = NoToken /\ now = 0

TypeOK ==
  /\ ClientTypeOK
  /\ \A v \in Visits :
       /\ visit[v] \in VisitRecords
       /\ visit[v].step = "wait" => fetching.step # "none"
       /\ visit[v].step = "answered" <=> visit[v].answer # None
  /\ jwks.keys \subseteq Keys /\ fetching.keys \subseteq Keys /\ published \subseteq Keys /\ signing \in published
  /\ cookie.by \in {"local", None}

------------------------------------------------------------------------------
(* Requests.                                                                *)

Arrives(v, path, token) ==
  visit' = [visit EXCEPT ![v] = [NoVisit EXCEPT !.path = path, !.token = token, !.step = "arrived"]]

\* A visitor with the token of the header, or of the cookie when there is none.
Visit(v, path, token) ==
  /\ visit[v].step = "none" /\ path \in pool.paths /\ token \in pool.tokens
  /\ Arrives(v, path, IF token = NoToken THEN cookie ELSE token)
  /\ UNCHANGED <<clientVars, signing, pool, jwks, fetching, published, left, cookie, now>>

\* What a call has obtained is presented by the demonstration, by the caller, or
\* by the command it was handed to.
Presents(v, c) ==
  /\ visit[v].step = "none" /\ pool.presents
  /\ call[c].result = "token" \/ child[c].state = "alive"
  /\ LET k == call[c].key IN
       Arrives(v, "/api/resources", IF k = None THEN NoToken ELSE [by |-> k, fits |-> TRUE, until |-> now + Lifetime])
  /\ UNCHANGED <<clientVars, signing, pool, jwks, fetching, published, left, cookie, now>>

\* verifyLocalAccessToken, signLocalAccessToken.
LocalHolds(t) == t.until > now
Local == [by |-> "local", fits |-> TRUE, until |-> now + Lifetime]

Answered(v, answer) == [visit EXCEPT ![v] = [NoVisit EXCEPT !.path = visit[v].path, !.step = "answered", !.answer = answer]]
\* Without a valid token only /api/ is closed; what the others do is decided by
\* their handlers.
Unknown(v, answer) ==
  IF visit[v].path = "/" THEN [visit EXCEPT ![v].step = "handle", ![v].token = NoToken] ELSE Answered(v, answer)

\* preHandler, as far as it need not wait.
PreHandle(v) ==
  LET t == visit[v].token IN
  /\ visit[v].step = "arrived"
  /\ visit' = CASE visit[v].path = "/login" -> [visit EXCEPT ![v].step = "handle"]
                [] visit[v].path # "/login" /\ t.by = None -> Unknown(v, "missing_token")
                [] visit[v].path # "/login" /\ t.by = "local" ->
                     IF LocalHolds(t) THEN [visit EXCEPT ![v].step = "handle"] ELSE Unknown(v, "token_invalid")
                [] OTHER -> [visit EXCEPT ![v].step = "key"]
  /\ UNCHANGED <<clientVars, signing, pool, jwks, fetching, published, left, cookie, now>>

\* The handlers; both logins, of a visitor who knows the password, sign a token
\* of the service's own.
Handle(v) ==
  LET answer == CASE visit[v].path = "/" -> IF visit[v].token = NoToken THEN "to login" ELSE "page"
                  [] visit[v].path = "/api/resources" -> "data"
                  [] OTHER -> "signed in"
  IN
  /\ visit[v].step = "handle"
  /\ visit' = Answered(v, answer)
  /\ cookie' = IF visit[v].path = "/login" THEN Local ELSE cookie
  /\ UNCHANGED <<clientVars, signing, pool, jwks, fetching, published, left, now>>

Logout ==
  /\ cookie # NoToken /\ cookie' = NoToken
  /\ UNCHANGED <<clientVars, signing, pool, visit, jwks, fetching, published, left, now>>

------------------------------------------------------------------------------
(* The verifier.                                                            *)

Fresh == jwks.had /\ now < jwks.at + CacheMaxAge
CoolingDown == jwks.had /\ now < jwks.at + Cooldown

\* Mutant: a key set is good for ever.
NeedsFetchOnce(v) == ~jwks.had \/ (visit[v].token.by \notin jwks.keys /\ ~CoolingDown /\ ~visit[v].missed)
\* getKey: the set is too old, or lacks the key and may be fetched again.
NeedsFetch(v) == ~Fresh \/ (visit[v].token.by \notin jwks.keys /\ ~CoolingDown /\ ~visit[v].missed)

\* assertTargetAccessClaims, and the time.
Fits(t) == t.fits /\ t.until > now

\* verify: the key is looked for, and what was signed with it is examined.
Verify(v) ==
  LET t == visit[v].token IN
  /\ visit[v].step = "key"
  /\ IF NeedsFetch(v)
     THEN /\ visit' = [visit EXCEPT ![v].step = "wait", ![v].missed = TRUE]
          /\ fetching' = IF fetching = NoFetch THEN [step |-> "sent", keys |-> {}, since |-> now] ELSE fetching
     ELSE /\ visit' = IF t.by \in jwks.keys /\ Fits(t) THEN [visit EXCEPT ![v].step = "handle"]
                      ELSE Unknown(v, "invalid_token")
          /\ UNCHANGED fetching
  /\ UNCHANGED <<clientVars, signing, pool, jwks, published, left, cookie, now>>

\* AuthAny answers the fetch with the set it has then.
FetchRead ==
  /\ fetching.step = "sent"
  /\ fetching' = [fetching EXCEPT !.step = "read", !.keys = published]
  /\ UNCHANGED <<clientVars, signing, pool, visit, jwks, published, left, cookie, now>>

\* Status 200 and the headers: fetch resolves, and jose goes on to the body.
FetchResolves ==
  /\ fetching.step = "read"
  /\ fetching' = [fetching EXCEPT !.step = "body"]
  /\ UNCHANGED <<clientVars, signing, pool, visit, jwks, published, left, cookie, now>>

\* The set arrives, and all who waited look again.
FetchArrives ==
  /\ fetching.step = "body"
  /\ jwks' = [keys |-> fetching.keys, at |-> now, had |-> TRUE]
  /\ fetching' = NoFetch
  /\ visit' = [v \in Visits |-> IF visit[v].step = "wait" THEN [visit[v] EXCEPT !.step = "key"] ELSE visit[v]]
  /\ UNCHANGED <<clientVars, signing, pool, published, left, cookie, now>>

Refused(answer) == [v \in Visits |-> IF visit[v].step = "wait" THEN Unknown(v, answer)[v] ELSE visit[v]]

\* Mutant: the fetch that has failed is waited for by whoever comes later.
FetchFailsLeaving ==
  /\ fetching.step \in {"sent", "read"}
  /\ fetching' = [fetching EXCEPT !.step = "dead"]
  /\ visit' = Refused("jwks_fetch_failed")
  /\ UNCHANGED <<clientVars, signing, pool, jwks, published, left, cookie, now>>

\* fetch throws, resolves with a status that is not ok, or has no headers when
\* jwksTimeoutMs is over.
FetchFails ==
  /\ fetching.step \in {"sent", "read"}
  /\ fetching' = NoFetch
  /\ visit' = Refused("jwks_fetch_failed")
  /\ UNCHANGED <<clientVars, signing, pool, jwks, published, left, cookie, now>>

\* The body breaks off, takes too long or is no key set: jose's own error, which
\* verify takes for one of the token.
BodyFails ==
  /\ fetching.step = "body"
  /\ fetching' = NoFetch
  /\ visit' = Refused("invalid_token")
  /\ UNCHANGED <<clientVars, signing, pool, jwks, published, left, cookie, now>>

------------------------------------------------------------------------------
(* AuthAny's administrator, and time, which does not pass between the       *)
(* arrival of a key set and the look at it.                                 *)

Rotate(k) ==
  /\ pool.rotates /\ k # signing /\ left[k] = None
  /\ signing' = k /\ published' = published \cup {k}
  /\ UNCHANGED <<clientVars, pool, visit, jwks, fetching, left, cookie, now>>

Retire(k) ==
  /\ pool.rotates /\ k \in published \ {signing}
  /\ published' = published \ {k} /\ left' = [left EXCEPT ![k] = now]
  /\ UNCHANGED <<clientVars, signing, pool, visit, jwks, fetching, cookie, now>>

Tick ==
  /\ now < pool.time /\ (fetching # NoFetch => now < fetching.since + FetchTime)
  /\ \A v \in Visits : visit[v].step # "key"
  /\ now' = now + 1
  /\ UNCHANGED <<clientVars, signing, pool, visit, jwks, fetching, published, left, cookie>>

ServiceNext ==
  \/ \E v \in Visits :
       \/ \E path \in Paths, token \in pool.tokens : Visit(v, path, token)
       \/ \E c \in Calls : Presents(v, c)
       \/ PreHandle(v) \/ Handle(v) \/ Verify(v)
  \/ FetchRead \/ FetchResolves \/ FetchArrives \/ FetchFails \/ BodyFails \/ Logout
  \/ \E k \in Keys : Rotate(k) \/ Retire(k)
  \/ Tick

Next == ServiceNext \/ (ClientNext /\ UNCHANGED serviceVars)

Spec == Init /\ [][Next]_vars

\* Continuations run, timers fire, and a fetch ends, by its own timeout at the
\* latest.
FairSpec ==
  /\ Spec
  /\ \A c \in Calls : WF_vars(host = "up" /\ (Continue(c) \/ Timeout(c)) /\ UNCHANGED serviceVars)
  /\ \A v \in Visits : WF_vars(PreHandle(v) \/ Handle(v) \/ Verify(v))
  /\ WF_vars(FetchArrives \/ FetchFails \/ BodyFails)

------------------------------------------------------------------------------
(* Properties.                                                              *)

\* Whenever the caller aborts, between the last answer and the start of the
\* command too: no child of a call with the signal runs on without having been
\* told to stop.
AbortReachesChild ==
  \A c \in Calls : Aborted(c) /\ child[c].state \in {"starting", "alive"} => child[c].told

\* An abort is not missed between the two requests, when nobody listens: no
\* request of an aborted call is under way.
NothingSentAfterAbort == \A c \in Calls : Aborted(c) => call[c].step # "sent"

\* However answer, timer, abort and child events fall together, a call that is
\* over has left neither a timer nor a listener on the caller's signal.
NothingLeft == \A c \in Calls : call[c].step = "done" => c \notin timers /\ \A h \in heard : h[1] # c

\* The caller aborts when the time is up already, before the error is mapped: a
\* request that ran out of time is reported so, and none that did not.
TimeoutsAreNamed ==
  \A c \in Calls : call[c].step = "done" /\ call[c].kind # "demo" => ((call[c].result = "timeout") <=> (call[c].cause = "timer"))

\* A command that cannot be started rejects its call, one that ends resolves it,
\* and an abort in between does not lose either: no call waits for a child that
\* is gone.  An error event nobody listens to ends the whole program instead; it
\* comes from a child made under a fired signal, or from the pipe of its input.
EndsWithItsChild == \A c \in Calls : child[c].state = "ended" => call[c].step = "done"

\* Every exchange is over in the end, whatever becomes of the answers: only a
\* command that has been started may take as long as it likes.
ExchangesSettle ==
  \A c \in Calls :
    call[c].kind # "demo" /\ call[c].step \notin {"idle", "running", "done"} ~> call[c].step \in {"running", "done"} \/ host = "down"

\* A retired key is honoured CacheMaxAge and one fetch longer at the most.
RetiredKeysAge ==
  \A v \in Visits :
     visit[v].step = "key" /\ visit'[v].step = "handle" /\ visit'[v].token # NoToken
     => LET k == visit[v].token.by IN k \in published \/ now < left[k] + CacheMaxAge + FetchTime

\* A good token of a key that AuthAny publishes is called invalid for one of two
\* reasons only, though requests share one fetch and the set it brings may have
\* been read before the rotation: the key set lacks the key and is too young to
\* be fetched again, or the request waited for a set whose body failed.
InvalidHasItsReason ==
  \A v \in Visits :
     LET t == visit[v].token IN
     visit[v].answer = None /\ visit'[v].answer = "invalid_token" /\ Fits(t) /\ t.by \in published
     => \/ visit[v].step = "key" /\ CoolingDown /\ t.by \notin jwks.keys
        \/ visit[v].step = "wait" /\ fetching.step = "body" /\ fetching' = NoFetch

\* An outage of AuthAny, whichever part of the fetch it hits and whichever answer
\* it is given, costs only those whose key is not in a fresh set.
OutageSparesTheCached ==
  \A v \in Visits :
     visit[v].step = "wait" /\ visit'[v].step \in {"handle", "answered"} => ~(Fresh /\ visit[v].token.by \in jwks.keys)

\* Every request to the service is answered, also when the fetch it shares with
\* others fails, or one before it did.
VisitsEnd == \A v \in Visits : visit[v].step \notin {"none", "answered"} ~> visit[v].step = "answered"


\* However answers, timers, the caller's abort and the events of a child fall
\* together, a call ends as what ended it, stops where it stands when aborted,
\* and leaves nothing behind.
CallsComeClean ==
  TypeOK /\ AbortReachesChild /\ NothingSentAfterAbort /\ NothingLeft /\ TimeoutsAreNamed /\ EndsWithItsChild

\* The key set that all requests share is neither too old nor too young, nor is it
\* missed while AuthAny is out of reach.
KeySetServes == [][RetiredKeysAge /\ InvalidHasItsReason /\ OutageSparesTheCached]_vars

\* Whatever answer stays away, an exchange settles and a visit is answered.
EverythingEnds == ExchangesSettle /\ VisitsEnd
================================================================================
