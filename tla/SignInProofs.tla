----------------------------- MODULE SignInProofs -----------------------------
(***************************************************************************)
(* Proofs about SignIn for any number of operators, tabs, console logins   *)
(* and requests, any tokens to begin with and any lifetimes: the states    *)
(* tabs, sessions and requests can be in, and from them the two invariants *)
(* of the module.                                                          *)
(***************************************************************************)
EXTENDS SignIn, TLAPS

People == Operators \cup {Target, Client}
Requests == Readers \cup Revokers
Hints == {None, "access_token", "refresh_token"}
States == [attempt : Nat, until : Nat]
SessionRecords == [owner : Operators, bound : Places \cup {Server}, until : Nat, live : BOOLEAN]
CodeRecords == [owner : Operators, attempt : Nat, used : BOOLEAN]

(* What a tab or a login at the console can be at. *)
HomePages == [page : {"home"}, attempt : Nat, code : Nat]
FormPages == [page : {"login form", "consent form"}, attempt : Nat, csrf : Nat]
AskPages == [page : {"parse", "drop", "operator"}, why : {"authorize", "login", "code"}, cookie : Nat,
             from : Places \cup {Server}, attempt : Nat, gone : SUBSET Operators, shown : SUBSET Nat]
SessionPages == [page : {"session"}, operator : Operators, attempt : Nat]
InsertPages == [page : {"insert"}, operator : Operators, attempt : Nat, gone : SUBSET Operators]
BackPages == [page : {"callback", "exchange"}, attempt : Nat, code : Nat, saved : States]
AnswerPages == [page : {"answer"}, attempt : Nat, code : Nat, token : Nat]
PageRecords ==
  HomePages \cup FormPages \cup AskPages \cup SessionPages \cup InsertPages \cup BackPages \cup AnswerPages

CallRecords ==
  [op : {"guard", "userinfo", "introspect", "verify", "revoke", "issue"}, token : Nat,
   step : {"target", "verify", "record", "revocation", "person", "accepted", "refused", "resolve", "deny",
           "answer", "answered", "client", "sign"},
   hint : Hints, gone : SUBSET People, demoted : SUBSET Operators, out : SUBSET (Nat \X Hints)]

Types ==
  /\ active \subseteq People /\ admins \subseteq Operators
  /\ sessions \in Seq(SessionRecords) /\ codes \in Seq(CodeRecords) /\ tokens \in Seq(TokenRecords)
  /\ denied \subseteq Nat \X {"access_token", "refresh_token"}
  /\ jar \in [auth : Nat, state : States, demo : Nat, admin : Nat]
  /\ place \in Places /\ attempts \in Nat /\ now \in Nat
  /\ at \in [Walkers -> PageRecords]
  /\ calls \in [Requests -> CallRecords \cup {Free}]
  /\ exposed \subseteq Nat /\ revoked \subseteq Nat \X Hints

LEMMA InitTypes == Init => Types
<1> SUFFICES ASSUME Init PROVE Types
  OBVIOUS
<1>1. place \in Places
  BY WalkersAssumption DEF Init
<1>2. tokens \in Seq(TokenRecords)
  BY PoolsAssumption DEF Init
<1>3. Home \in PageRecords
  BY DEF Home, HomeAfter, PageRecords, HomePages
<1> QED
  BY <1>1, <1>2, <1>3 DEF Init, Types, People, Requests, States

-------------------------------------------------------------------------------
(* Pages.                                                                    *)

LEMMA AttemptIsNat == ASSUME Types, NEW w \in Walkers PROVE at[w].attempt \in Nat
BY DEF Types, PageRecords, HomePages, FormPages, AskPages, SessionPages, InsertPages, BackPages, AnswerPages

LEMMA AskingTyped ==
  ASSUME Types, NEW w \in Walkers, NEW s \in Nat, NEW why \in {"authorize", "login", "code"}
  PROVE  Asking(w, why, s) \in AskPages /\ Asking(w, why, s) \in PageRecords
BY AttemptIsNat DEF Types, Asking, AskPages, PageRecords

LEMMA FormTyped ==
  ASSUME Types, NEW w \in Walkers, NEW name \in {"login form", "consent form"}
  PROVE  Form(name, at[w].attempt) \in PageRecords
BY AttemptIsNat DEF Types, Form, FormPages, PageRecords

LEMMA HomeTyped ==
  ASSUME NEW a \in Nat, NEW k \in Nat
  PROVE  HomeAfter(a, k) \in PageRecords /\ Home \in PageRecords
BY DEF Home, HomeAfter, HomePages, PageRecords

(* A page is of the kind its name says. *)
LEMMA PageKinds ==
  ASSUME Types, NEW w \in Walkers
  PROVE  /\ at[w].page \in {"parse", "drop", "operator"} => at[w] \in AskPages
         /\ at[w].page = "session" => at[w] \in SessionPages
         /\ at[w].page = "insert" => at[w] \in InsertPages
         /\ at[w].page \in {"callback", "exchange"} => at[w] \in BackPages
         /\ at[w].page = "answer" => at[w] \in AnswerPages
         /\ at[w].page \in {"login form", "consent form"} => at[w] \in FormPages
         /\ at[w].page = "home" => at[w] \in HomePages
BY DEF Types, PageRecords, HomePages, FormPages, AskPages, SessionPages, InsertPages, BackPages, AnswerPages

LEMMA AnsweredTyped ==
  ASSUME Types, NEW w \in Walkers, at[w] \in AskPages, NEW o \in Operators \cup {None}
  PROVE  Answered(w, o) \in PageRecords
<1>1. at[w].why \in {"authorize", "login", "code"} /\ at[w].cookie \in Nat /\ jar.auth \in Nat /\ 0 \in Nat
  BY DEF AskPages, Types
<1>2. CASE at[w].why = "authorize"
  BY <1>1, <1>2, AskingTyped, FormTyped, HomeTyped DEF Answered
<1>3. CASE at[w].why = "login"
  BY <1>1, <1>3, AskingTyped, FormTyped DEF Answered
<1>4. CASE at[w].why = "code"
  <2>1. CASE o = None
    BY <1>4, <2>1, HomeTyped, <1>1 DEF Answered
  <2>2. CASE o # None
    <3>1. [page |-> "insert", operator |-> o, attempt |-> at[w].attempt, gone |-> at[w].gone] \in InsertPages
      BY <2>2 DEF InsertPages, AskPages
    <3> QED
      BY <1>4, <2>2, <3>1 DEF Answered, PageRecords
  <2> QED
    BY <2>1, <2>2
<1> QED
  BY <1>1, <1>2, <1>3, <1>4
-------------------------------------------------------------------------------
(* What ties a page, a request and the server together.                      *)

Asked3 == {"parse", "drop", "operator"}
Coded == {"home", "callback", "exchange", "answer"}

PageFits(w) ==
  LET p == at[w] IN
  /\ p.page \in Asked3 =>
       /\ p.cookie <= Len(sessions) /\ (p.page # "parse" => p.cookie # 0)
       /\ p.shown \subseteq exposed /\ p.gone \cap active = {}
       /\ p.page = "operator" => p.cookie \notin p.shown
  /\ p.page = "insert" => p.operator \notin p.gone
  /\ p.page \in Coded => p.code <= Len(codes) /\ (w \in Tabs /\ p.code # 0 => codes[p.code].attempt = p.attempt)
  /\ p.page \in {"callback", "exchange"} => p.code # 0
  /\ p.page = "exchange" /\ w \in Tabs => p.saved.attempt = p.attempt
  /\ p.page = "answer" => p.token <= Len(tokens)

(* A revocation of token t under a hint has been filed, or need not be. *)
Counted(t, hint) ==
  tokens[t].kind = "target" \/ tokens[t].until <= now \/ <<t, Filed(hint)>> \in denied

CallFits(c) ==
  LET q == calls[c] IN
  q.step # "free" =>
    /\ q.token <= Len(tokens) /\ (q.op # "issue" => q.token # 0)
    /\ q.gone \cap active = {} /\ q.demoted \cap admins = {} /\ q.out \subseteq revoked
    /\ q.step \in {"client", "sign"} => q.op = "issue"
    /\ q.step \in {"resolve", "deny", "answer"} => q.op = "revoke"
    /\ q.step = "target" => q.op = "verify"
    /\ q.step \in {"verify", "accepted"} => q.op \in {"guard", "userinfo", "introspect", "verify"}
    /\ q.step \in {"record", "revocation"} => q.op \in {"guard", "userinfo", "introspect"}
    /\ q.step = "person" => q.op \in {"guard", "userinfo"}
    /\ q.step = "sign" => Client \notin q.gone
    /\ q.op = "verify" /\ q.step \in {"verify", "accepted"} => Target \notin q.gone
    /\ q.step \in {"record", "revocation"} =>
         \A r \in q.out : r[1] = q.token => tokens[q.token].kind = "target" \/ <<q.token, Filed(r[2])>> \in denied
    /\ q.step = "person" => \A r \in q.out : r[1] = q.token => tokens[q.token].kind = "target" \/ r[2] = "refresh_token"
    /\ q.step = "accepted" =>
         /\ q.op = "guard" => tokens[q.token].owner \notin q.demoted
         /\ q.op = "userinfo" => tokens[q.token].owner \notin q.gone
         /\ \A r \in q.out : r[1] = q.token =>
              tokens[q.token].kind = "target" \/ (r[2] = "refresh_token" /\ q.op # "introspect")
    /\ q.step = "answer" => Counted(q.token, q.hint)

ServerFits ==
  /\ jar.auth <= Len(sessions) /\ jar.demo <= Len(tokens) /\ jar.admin <= Len(tokens)
  /\ jar.state.attempt <= attempts
  /\ denied \subseteq (1 .. Len(tokens)) \X {"access_token", "refresh_token"}
  /\ \A s \in exposed : s \in 1 .. Len(sessions) /\ ~sessions[s].live
  /\ \A r \in revoked : r[1] \in 1 .. Len(tokens) /\ Counted(r[1], r[2])

SInv ==
  /\ Types /\ ServerFits
  /\ \A w \in Walkers : PageFits(w)
  /\ \A c \in Requests : CallFits(c)

LEMMA InitSInv == Init => SInv
<1> SUFFICES ASSUME Init PROVE SInv
  OBVIOUS
<1>1. Types
  BY InitTypes
<1>2. ServerFits
  BY <1>1 DEF Init, ServerFits, Types
<1>3. \A w \in Walkers : PageFits(w)
  BY <1>1 DEF Init, PageFits, Home, HomeAfter, Types, Asked3, Coded
<1>4. \A c \in Requests : CallFits(c)
  BY <1>1 DEF Init, CallFits, Free, Requests
<1> QED
  BY <1>1, <1>2, <1>3, <1>4 DEF SInv

-------------------------------------------------------------------------------
(* Nothing is taken back: what a page or a request relies on stays.          *)

Onward ==
  /\ active' \subseteq active /\ admins' \subseteq admins
  /\ denied \subseteq denied' /\ revoked \subseteq revoked' /\ exposed \subseteq exposed'
  /\ now <= now' /\ attempts <= attempts'
  /\ Len(sessions) <= Len(sessions')
  /\ Len(codes) <= Len(codes') /\ \A k \in 1 .. Len(codes) : codes'[k].attempt = codes[k].attempt
  /\ Len(tokens) <= Len(tokens') /\ \A t \in 1 .. Len(tokens) : tokens'[t] = tokens[t]

LEMMA PageStays ==
  ASSUME Types, Types', Onward, NEW w \in Walkers, PageFits(w), at'[w] = at[w]
  PROVE  PageFits(w)'
<1> DEFINE p == at[w]
<1>0. /\ Len(sessions) \in Nat /\ Len(codes) \in Nat /\ Len(tokens) \in Nat
      /\ Len(sessions') \in Nat /\ Len(codes') \in Nat /\ Len(tokens') \in Nat
  BY DEF Types
<1>1. p.page \in Asked3 => p.cookie \in Nat
  BY PageKinds DEF Asked3, AskPages
<1>2. p.page \in Coded => p.code \in Nat
  BY PageKinds DEF Coded, HomePages, BackPages, AnswerPages
<1>3. p.page = "answer" => p.token \in Nat
  BY PageKinds DEF AnswerPages
<1> QED
  BY <1>0, <1>1, <1>2, <1>3 DEF PageFits, Onward, Asked3, Coded

LEMMA CountedStays ==
  ASSUME Types, Types', Onward, NEW t \in 1 .. Len(tokens), NEW hint, Counted(t, hint)
  PROVE  Counted(t, hint)'
<1>0. tokens \in Seq(TokenRecords) /\ now \in Nat /\ now' \in Nat
  BY DEF Types
<1>1. tokens[t].until \in Nat /\ now \in Nat /\ now' \in Nat
  <2>1. tokens[t] \in TokenRecords
    BY <1>0
  <2> QED
    BY <1>0, <2>1 DEF TokenRecords
<1> QED
  BY <1>1 DEF Counted, Onward, Filed

LEMMA CallStays ==
  ASSUME Types, Types', Onward, NEW c \in Requests, CallFits(c), calls'[c] = calls[c]
  PROVE  CallFits(c)'
<1> SUFFICES ASSUME calls[c].step # "free" PROVE CallFits(c)'
  BY DEF CallFits
<1>1. calls[c] \in CallRecords
  BY DEF Types, Free
<1>2. calls[c].token \in Nat /\ Len(tokens) \in Nat /\ Len(tokens') \in Nat
  BY <1>1 DEF CallRecords, Types
<1>3. calls[c].token <= Len(tokens') /\ (calls[c].op # "issue" => tokens'[calls[c].token] = tokens[calls[c].token])
  BY <1>2 DEF CallFits, Onward
<1>4. calls[c].step = "answer" => Counted(calls[c].token, calls[c].hint)'
  BY <1>2, CountedStays DEF CallFits
<1> QED
  BY <1>1, <1>2, <1>3, <1>4 DEF CallFits, Onward

LEMMA ServerStays ==
  ASSUME SInv, Types', Onward, revoked' = revoked, exposed' = exposed, denied' = denied,
         \A k \in 1 .. Len(sessions) : sessions'[k].live = sessions[k].live,
         jar'.auth <= Len(sessions'), jar'.demo <= Len(tokens'), jar'.admin <= Len(tokens'),
         jar'.state.attempt <= attempts'
  PROVE  ServerFits'
<1>0. /\ Len(sessions) \in Nat /\ Len(tokens) \in Nat /\ Len(sessions') \in Nat /\ Len(tokens') \in Nat
  BY DEF SInv, Types
<1>1. denied' \subseteq (1 .. Len(tokens')) \X {"access_token", "refresh_token"}
  BY <1>0 DEF SInv, ServerFits, Onward
<1>2. \A k \in exposed' : k \in 1 .. Len(sessions') /\ ~sessions'[k].live
  BY <1>0 DEF SInv, ServerFits, Onward
<1>3. \A r \in revoked' : r[1] \in 1 .. Len(tokens') /\ Counted(r[1], r[2])'
  BY <1>0, CountedStays DEF SInv, ServerFits, Onward
<1> QED
  BY <1>1, <1>2, <1>3 DEF ServerFits

(* A step of one tab or login at the console. *)
LEMMA WalkerStep ==
  ASSUME SInv, Types', Onward, ServerFits', calls' = calls,
         NEW w \in Walkers, \A v \in Walkers \ {w} : at'[v] = at[v], PageFits(w)'
  PROVE  SInv'
<1>1. \A v \in Walkers : PageFits(v)'
  BY PageStays DEF SInv
<1>2. \A c \in Requests : CallFits(c)'
  BY CallStays DEF SInv
<1> QED
  BY <1>1, <1>2 DEF SInv

(* A step of one request that presents, revokes or issues a token. *)
LEMMA CallStep ==
  ASSUME SInv, Types', Onward, ServerFits', at' = at,
         NEW c \in Requests, \A d \in Requests \ {c} : calls'[d] = calls[d], CallFits(c)'
  PROVE  SInv'
<1>1. \A v \in Walkers : PageFits(v)'
  BY PageStays DEF SInv
<1>2. \A d \in Requests : CallFits(d)'
  BY CallStays DEF SInv
<1> QED
  BY <1>1, <1>2 DEF SInv

(* Everything else. *)
LEMMA OtherStep ==
  ASSUME SInv, Types', Onward, ServerFits', at' = at, calls' = calls
  PROVE  SInv'
BY PageStays, CallStays DEF SInv

(* What is asked anew has nothing to contradict it. *)
LEMMA AskingFits ==
  ASSUME SInv, Types', Onward, NEW w \in Walkers, NEW why, NEW s \in 0 .. Len(sessions'),
         NEW q, q = Asking(w, why, s) \/ \E k \in Nat : q = [Asking(w, why, s) EXCEPT !.attempt = k],
         at'[w] = q
  PROVE  PageFits(w)'
<1>1. q.page = "parse" /\ q.cookie = s /\ q.gone = Operators \ active /\ q.shown = exposed
  BY DEF Asking
<1>2. s <= Len(sessions')
  BY DEF Types
<1> QED
  BY <1>1, <1>2 DEF PageFits, Onward, Asked3, Coded

LEMMA FormFits ==
  ASSUME NEW w \in Walkers, at'[w].page \in {"login form", "consent form"}
  PROVE  PageFits(w)'
<1>1. at'[w].page \notin Asked3 \cup Coded \cup {"insert", "callback", "exchange", "answer"}
  BY DEF Asked3, Coded
<1> QED
  BY <1>1 DEF PageFits

LEMMA FormPage ==
  ASSUME NEW name, NEW k
  PROVE  Form(name, k).page = name
BY DEF Form

LEMMA HomeFits ==
  ASSUME Types', NEW w \in Walkers, at'[w] = Home
  PROVE  PageFits(w)'
BY DEF PageFits, Home, HomeAfter, Asked3, Coded, Types

(* An operator who is resolved was not gone when the request began. *)
LEMMA AnsweredFits ==
  ASSUME SInv, Types', Onward, NEW w \in Walkers, at[w].page \in Asked3,
         NEW o \in Operators \cup {None}, o # None => o \in active, at'[w] = Answered(w, o)
  PROVE  PageFits(w)'
<1>1. at[w] \in AskPages /\ Types
  BY PageKinds DEF Asked3, SInv
<1>2. at[w].why \in {"authorize", "login", "code"} /\ at[w].cookie \in 0 .. Len(sessions') /\ jar.auth \in 0 .. Len(sessions')
  <2>1. Len(sessions) \in Nat /\ Len(sessions') \in Nat /\ Len(sessions) <= Len(sessions')
    BY <1>1 DEF Types, Onward
  <2>2. at[w].why \in {"authorize", "login", "code"} /\ at[w].cookie \in Nat /\ jar.auth \in Nat
    BY <1>1 DEF AskPages, Types
  <2>3. at[w].cookie <= Len(sessions) /\ jar.auth <= Len(sessions)
    BY DEF SInv, PageFits, ServerFits
  <2> QED
    BY <2>1, <2>2, <2>3
<1>3. CASE at[w].why = "authorize"
  BY <1>2, <1>3, AskingFits, FormFits, FormPage, HomeFits DEF Answered
<1>4. CASE at[w].why = "login"
  BY <1>2, <1>4, AskingFits, FormFits, FormPage DEF Answered
<1>5. CASE at[w].why = "code"
  <2>1. CASE o = None
    BY <1>5, <2>1, HomeFits DEF Answered
  <2>2. CASE o # None
    <3>1. at'[w] = [page |-> "insert", operator |-> o, attempt |-> at[w].attempt, gone |-> at[w].gone]
      BY <1>5, <2>2 DEF Answered
    <3>2. o \notin at[w].gone
      BY <2>2 DEF SInv, PageFits
    <3> QED
      BY <3>1, <3>2 DEF PageFits, Asked3, Coded
  <2> QED
    BY <2>1, <2>2
<1> QED
  BY <1>2, <1>3, <1>4, <1>5

-------------------------------------------------------------------------------
(* Steps that change a page and nothing else.                                *)

LEMMA OnlyAPage ==
  ASSUME SInv, NEW w \in Walkers, NEW q \in PageRecords, at' = [at EXCEPT ![w] = q],
         UNCHANGED <<server, browser, calls, now, history>>
  PROVE  Types' /\ Onward /\ ServerFits' /\ at'[w] = q /\ (PageFits(w)' => SInv')
<1>1. Types'
  BY DEF SInv, Types, server, browser, history
<1>2. Onward
  BY DEF SInv, Types, Onward, server, browser, history
<1>3. ServerFits'
  BY DEF SInv, ServerFits, Counted, server, browser, history
<1>4. at'[w] = q /\ \A v \in Walkers \ {w} : at'[v] = at[v]
  BY DEF SInv, Types
<1> QED
  BY <1>1, <1>2, <1>3, <1>4, WalkerStep

LEMMA ParseStep == ASSUME SInv, NEW w \in Walkers, Parse(w) PROVE SInv'
<1> DEFINE s == at[w].cookie
<1>1. Types /\ at[w].page = "parse" /\ at[w] \in AskPages /\ PageFits(w)
  BY PageKinds DEF SInv, Parse
<1>2. UNCHANGED <<server, browser, calls, now, history>>
  BY DEF Parse
<1>3. CASE ~Known(s)
  <2>1. at' = [at EXCEPT ![w] = Answered(w, None)]
    BY <1>3 DEF Parse
  <2>2. Answered(w, None) \in PageRecords
    BY <1>1, AnsweredTyped
  <2> QED
    BY <1>1, <1>2, <2>1, <2>2, OnlyAPage, AnsweredFits DEF Asked3
<1>4. CASE Known(s) /\ (sessions[s].until < now \/ sessions[s].bound # at[w].from)
  <2> DEFINE q == [at[w] EXCEPT !.page = "drop"]
  <2>1. at' = [at EXCEPT ![w] = q]
    BY <1>4 DEF Parse
  <2>2. q \in AskPages /\ q.page = "drop" /\ q.cookie = s /\ q.shown = at[w].shown /\ q.gone = at[w].gone
    BY <1>1 DEF AskPages
  <2>3. q \in PageRecords
    BY <2>2 DEF PageRecords
  <2>4. at'[w] = q /\ Types' /\ (PageFits(w)' => SInv')
    BY <1>2, <2>1, <2>3, OnlyAPage
  <2>5. s # 0 /\ s <= Len(sessions') /\ at[w].shown \subseteq exposed' /\ at[w].gone \cap active' = {}
    BY <1>1, <1>2, <1>4 DEF Known, PageFits, Asked3, AskPages, server, history
  <2>6. PageFits(w)'
    BY <2>2, <2>4, <2>5 DEF PageFits, Asked3, Coded
  <2> QED
    BY <2>4, <2>6
<1>5. CASE Known(s) /\ ~(sessions[s].until < now \/ sessions[s].bound # at[w].from)
  <2> DEFINE q == [at[w] EXCEPT !.page = "operator"]
  <2>1. at' = [at EXCEPT ![w] = q]
    BY <1>5 DEF Parse
  <2>2. q \in AskPages /\ q.page = "operator" /\ q.cookie = s /\ q.shown = at[w].shown /\ q.gone = at[w].gone
    BY <1>1 DEF AskPages
  <2>3. q \in PageRecords
    BY <2>2 DEF PageRecords
  <2>4. at'[w] = q /\ Types' /\ (PageFits(w)' => SInv')
    BY <1>2, <2>1, <2>3, OnlyAPage
  <2>5. s # 0 /\ s <= Len(sessions') /\ at[w].shown \subseteq exposed' /\ at[w].gone \cap active' = {}
    BY <1>1, <1>2, <1>5 DEF Known, PageFits, Asked3, AskPages, server, history
  <2>6. s \notin at[w].shown
    BY <1>1, <1>5 DEF Known, PageFits, Asked3, SInv, ServerFits
  <2>7. PageFits(w)'
    BY <2>2, <2>4, <2>5, <2>6 DEF PageFits, Asked3, Coded
  <2> QED
    BY <2>4, <2>7
<1> QED
  BY <1>3, <1>4, <1>5

LEMMA FindOperatorStep == ASSUME SInv, NEW w \in Walkers, FindOperator(w) PROVE SInv'
<1>1. Types /\ at[w].page = "operator" /\ at[w] \in AskPages /\ PageFits(w)
  BY PageKinds DEF SInv, FindOperator
<1>2. sessions[at[w].cookie].owner \in Operators
  <2>1. at[w].cookie \in Nat /\ sessions \in Seq(SessionRecords)
    BY <1>1 DEF AskPages, Types
  <2>2. at[w].cookie \in 1 .. Len(sessions)
    BY <1>1, <2>1 DEF PageFits, Asked3
  <2>3. sessions[at[w].cookie] \in SessionRecords
    BY <2>1, <2>2
  <2> QED
    BY <2>3 DEF SessionRecords
<1> DEFINE o == sessions[at[w].cookie].owner
           x == IF o \in active THEN o ELSE None
<1>3. x \in Operators \cup {None} /\ (x # None => x \in active)
  BY <1>2
<1>4. at' = [at EXCEPT ![w] = Answered(w, x)] /\ UNCHANGED <<server, browser, calls, now, history>>
  BY DEF FindOperator
<1>5. Answered(w, x) \in PageRecords
  BY <1>1, <1>3, AnsweredTyped
<1> HIDE DEF x
<1> QED
  BY <1>1, <1>3, <1>4, <1>5, OnlyAPage, AnsweredFits DEF Asked3

LEMMA AllowStep == ASSUME SInv, NEW w \in Walkers, Allow(w) PROVE SInv'
<1>1. UNCHANGED <<server, browser, calls, now, history>>
  BY DEF Allow
<1>2. jar.auth \in Nat /\ jar.auth \in 0 .. Len(sessions')
  BY <1>1 DEF SInv, Types, ServerFits, server
<1>3. CASE at' = [at EXCEPT ![w] = Asking(w, "code", jar.auth)]
  BY <1>1, <1>2, <1>3, AskingTyped, AskingFits, OnlyAPage DEF SInv
<1>4. CASE at' = [at EXCEPT ![w] = Home]
  BY <1>1, <1>4, HomeTyped, HomeFits, OnlyAPage
<1> QED
  BY <1>3, <1>4 DEF Allow

LEMMA PostPasswordStep == ASSUME SInv, NEW w \in Walkers, NEW o \in Operators, PostPassword(w, o) PROVE SInv'
<1>1. UNCHANGED <<server, browser, calls, now, history>> /\ at[w].attempt \in Nat
  BY AttemptIsNat DEF PostPassword, SInv
<1>2. CASE at' = [at EXCEPT ![w] = [page |-> "session", operator |-> o, attempt |-> at[w].attempt]]
  <2> DEFINE q == [page |-> "session", operator |-> o, attempt |-> at[w].attempt]
  <2>1. q \in PageRecords /\ q.page = "session"
    BY <1>1 DEF PageRecords, SessionPages
  <2> HIDE DEF q
  <2>2. at'[w] = q /\ (PageFits(w)' => SInv')
    BY <1>1, <1>2, <2>1, OnlyAPage DEF q
  <2>3. PageFits(w)'
    BY <2>1, <2>2 DEF PageFits, Asked3, Coded
  <2> QED
    BY <2>2, <2>3
<1>3. CASE at' = [at EXCEPT ![w] = Form("login form", at[w].attempt)]
  <2>1. Form("login form", at[w].attempt) \in PageRecords
    BY FormTyped DEF SInv
  <2> QED
    BY <1>1, <1>3, <2>1, FormPage, FormFits, OnlyAPage
<1> QED
  BY <1>2, <1>3 DEF PostPassword

LEMMA ConsoleLoginStep == ASSUME SInv, NEW w \in Walkers, NEW o \in Operators, ConsoleLogin(w, o) PROVE SInv'
<1> DEFINE q == [page |-> "session", operator |-> o, attempt |-> 0]
<1>1. UNCHANGED <<server, browser, calls, now, history>> /\ at' = [at EXCEPT ![w] = q]
  BY DEF ConsoleLogin
<1>2. q \in PageRecords /\ q.page = "session"
  BY DEF PageRecords, SessionPages
<1> HIDE DEF q
<1>3. at'[w] = q /\ (PageFits(w)' => SInv')
  BY <1>1, <1>2, OnlyAPage
<1>4. PageFits(w)'
  BY <1>2, <1>3 DEF PageFits, Asked3, Coded
<1> QED
  BY <1>3, <1>4

(* A page that carries on with the code of the page before it. *)
LEMMA CodeKept ==
  ASSUME SInv, NEW w \in Walkers, at[w].page \in Coded
  PROVE  /\ at[w].code \in Nat /\ at[w].attempt \in Nat /\ at[w].code <= Len(codes)
         /\ w \in Tabs /\ at[w].code # 0 => codes[at[w].code].attempt = at[w].attempt
BY PageKinds, AttemptIsNat DEF SInv, PageFits, Coded, HomePages, BackPages, AnswerPages

LEMMA HomeAfterFits ==
  ASSUME SInv, Types', NEW w \in Walkers, at[w].page \in Coded,
         at'[w] = HomeAfter(at[w].attempt, at[w].code), codes' = codes
  PROVE  PageFits(w)'
BY CodeKept DEF PageFits, HomeAfter, Asked3, Coded

LEMMA CheckStateStep == ASSUME SInv, NEW w \in Walkers, CheckState(w) PROVE SInv'
<1>1. UNCHANGED <<server, browser, calls, now, history>> /\ at[w].page = "callback" /\ at[w] \in BackPages
  BY PageKinds DEF CheckState, SInv
<1>2. codes' = codes
  BY <1>1 DEF server
<1> DEFINE q == [at[w] EXCEPT !.page = "exchange"]
<1>3. CASE at' = [at EXCEPT ![w] = q] /\ at[w].saved.attempt = at[w].attempt
  <2>1. /\ q \in BackPages /\ q.page = "exchange"
        /\ q.code = at[w].code /\ q.attempt = at[w].attempt /\ q.saved = at[w].saved
    BY <1>1 DEF BackPages
  <2>2. q \in PageRecords
    BY <2>1 DEF PageRecords
  <2>3. at'[w] = q /\ (PageFits(w)' => SInv')
    BY <1>1, <1>3, <2>2, OnlyAPage
  <2>4. at[w].code # 0
    BY <1>1 DEF SInv, PageFits
  <2>5. PageFits(w)'
    BY <1>1, <1>2, <1>3, <2>1, <2>3, <2>4, CodeKept DEF PageFits, Asked3, Coded
  <2> QED
    BY <2>3, <2>5
<1>4. CASE at' = [at EXCEPT ![w] = HomeAfter(at[w].attempt, at[w].code)]
  <2>1. at[w].page \in Coded
    BY <1>1 DEF Coded
  <2>2. HomeAfter(at[w].attempt, at[w].code) \in PageRecords
    BY <2>1, CodeKept, HomeTyped
  <2> QED
    BY <1>1, <1>2, <1>4, <2>1, <2>2, OnlyAPage, HomeAfterFits
<1> QED
  BY <1>3, <1>4 DEF CheckState

LEMMA ReloadStep == ASSUME SInv, NEW w \in Walkers, Reload(w) PROVE SInv'
<1> DEFINE q == [page |-> "callback", attempt |-> at[w].attempt, code |-> at[w].code, saved |-> jar.state]
<1>1. /\ UNCHANGED <<server, browser, calls, now, history>> /\ at[w].page \in Coded
      /\ at[w].code > 0 /\ at' = [at EXCEPT ![w] = q]
  BY DEF Reload, Coded
<1>2. q \in PageRecords
  BY <1>1, CodeKept DEF BackPages, PageRecords, SInv, Types
<1>3. at'[w] = q /\ (PageFits(w)' => SInv') /\ codes' = codes
  BY <1>1, <1>2, OnlyAPage DEF server
<1>4. PageFits(w)'
  BY <1>1, <1>3, CodeKept DEF PageFits, Asked3, Coded
<1> QED
  BY <1>3, <1>4

-------------------------------------------------------------------------------
(* Steps that change the cookies of the browser too.                         *)

Jars == [auth : Nat, state : States, demo : Nat, admin : Nat]

LEMMA PageAndJar ==
  ASSUME SInv, NEW w \in Walkers, NEW q \in PageRecords, at' = [at EXCEPT ![w] = q],
         UNCHANGED <<server, place, calls, now, history>>, attempts' \in Nat, attempts <= attempts',
         jar' \in Jars, jar'.auth <= Len(sessions), jar'.demo <= Len(tokens), jar'.admin <= Len(tokens),
         jar'.state.attempt <= attempts'
  PROVE  Types' /\ Onward /\ ServerFits' /\ at'[w] = q /\ (PageFits(w)' => SInv')
<1>1. Types'
  BY DEF SInv, Types, Jars, server, history
<1>2. Onward
  BY DEF SInv, Types, Onward, server, history
<1>3. ServerFits'
  BY DEF SInv, ServerFits, Counted, server, history
<1>4. at'[w] = q /\ \A v \in Walkers \ {w} : at'[v] = at[v]
  BY DEF SInv, Types
<1> QED
  BY <1>1, <1>2, <1>3, <1>4, WalkerStep

LEMMA JarNow ==
  ASSUME SInv
  PROVE  /\ jar \in Jars /\ jar.auth \in 0 .. Len(sessions) /\ jar.demo <= Len(tokens) /\ jar.admin <= Len(tokens)
         /\ jar.state.attempt <= attempts /\ attempts \in Nat
BY DEF SInv, Types, ServerFits, Jars

LEMMA DenyStep == ASSUME SInv, NEW w \in Walkers, Deny(w) PROVE SInv'
<1>1. /\ UNCHANGED <<server, place, attempts, calls, now, history>>
      /\ at' = [at EXCEPT ![w] = Home] /\ jar' = [jar EXCEPT !.state = NoState]
  BY DEF Deny
<1>2. /\ jar' \in Jars /\ jar'.auth = jar.auth /\ jar'.demo = jar.demo /\ jar'.admin = jar.admin
      /\ jar'.state.attempt = 0
  BY <1>1, JarNow DEF Jars, NoState, States
<1>3. attempts' \in Nat /\ attempts <= attempts' /\ jar'.state.attempt <= attempts'
  BY <1>1, <1>2, JarNow
<1>4. Home \in PageRecords
  BY HomeTyped
<1>5. jar'.auth <= Len(sessions) /\ jar'.demo <= Len(tokens) /\ jar'.admin <= Len(tokens)
  BY <1>2, JarNow
<1>6. Types' /\ at'[w] = Home /\ (PageFits(w)' => SInv')
  BY <1>1, <1>2, <1>3, <1>4, <1>5, PageAndJar
<1> QED
  BY <1>6, HomeFits

LEMMA StartLoginStep == ASSUME SInv, NEW w \in Walkers, StartLogin(w) PROVE SInv'
<1> DEFINE q == [Asking(w, "authorize", jar.auth) EXCEPT !.attempt = attempts']
<1>1. /\ UNCHANGED <<server, place, calls, now, history>> /\ attempts' = attempts + 1
      /\ at' = [at EXCEPT ![w] = q]
      /\ jar' = [jar EXCEPT !.state = [attempt |-> attempts', until |-> now + StateTtl]]
  BY DEF StartLogin
<1>2. attempts' \in Nat /\ attempts <= attempts'
  BY <1>1, JarNow
<1>3. now \in Nat /\ StateTtl \in Nat
  BY LifetimesAssumption DEF SInv, Types
<1>4. /\ jar' \in Jars /\ jar'.auth = jar.auth /\ jar'.demo = jar.demo /\ jar'.admin = jar.admin
      /\ jar'.state.attempt <= attempts'
  BY <1>1, <1>2, <1>3, JarNow DEF Jars, States
<1>5. q \in PageRecords
  <2>1. Asking(w, "authorize", jar.auth) \in AskPages
    BY AskingTyped, JarNow DEF SInv, Jars
  <2>2. q \in AskPages
    BY <1>2, <2>1 DEF AskPages
  <2> QED
    BY <2>2 DEF PageRecords
<1>6. Types' /\ Onward /\ at'[w] = q /\ (PageFits(w)' => SInv')
  <2>1. jar'.auth <= Len(sessions) /\ jar'.demo <= Len(tokens) /\ jar'.admin <= Len(tokens)
    BY <1>4, JarNow
  <2> HIDE DEF q
  <2> QED
    BY <1>1, <1>2, <1>4, <1>5, <2>1, PageAndJar
<1>7. jar.auth \in 0 .. Len(sessions')
  BY <1>1, JarNow DEF server
<1>8. PageFits(w)'
  BY <1>2, <1>6, <1>7, AskingFits
<1> QED
  BY <1>6, <1>8

LEMMA ArriveStep == ASSUME SInv, NEW w \in Walkers, Arrive(w) PROVE SInv'
<1> DEFINE t == at[w].token
<1>1. /\ UNCHANGED <<server, place, attempts, calls, now, history>> /\ at[w].page = "answer"
      /\ at' = [at EXCEPT ![w] = HomeAfter(at[w].attempt, at[w].code)]
  BY DEF Arrive
<1>2. t \in Nat /\ t <= Len(tokens)
  BY <1>1, PageKinds DEF SInv, PageFits, AnswerPages
<1>3. /\ jar' \in Jars /\ jar'.auth = jar.auth /\ jar'.demo \in {jar.demo, t} /\ jar'.admin \in {jar.admin, t}
      /\ jar'.state \in {jar.state, NoState}
  BY <1>2, JarNow DEF Arrive, Jars, NoState, States
<1>4. attempts' \in Nat /\ attempts <= attempts' /\ jar'.state.attempt <= attempts'
  BY <1>1, <1>3, JarNow DEF NoState
<1>5. at[w].page \in Coded
  BY <1>1 DEF Coded
<1>6. HomeAfter(at[w].attempt, at[w].code) \in PageRecords
  BY <1>5, CodeKept, HomeTyped
<1>7. jar'.auth <= Len(sessions) /\ jar'.demo <= Len(tokens) /\ jar'.admin <= Len(tokens)
  BY <1>2, <1>3, JarNow
<1>8. Types' /\ at'[w] = HomeAfter(at[w].attempt, at[w].code) /\ (PageFits(w)' => SInv')
  BY <1>1, <1>3, <1>4, <1>6, <1>7, PageAndJar
<1>9. codes' = codes
  BY <1>1 DEF server
<1> QED
  BY <1>5, <1>8, <1>9, HomeAfterFits

-------------------------------------------------------------------------------
(* Steps that change sessions, codes or tokens.                              *)

LEMMA DropStep == ASSUME SInv, NEW w \in Walkers, Drop(w) PROVE SInv'
<1> DEFINE k == at[w].cookie
<1>1. /\ UNCHANGED <<active, admins, codes, tokens, denied, browser, calls, now, revoked>>
      /\ at[w].page \in Asked3 /\ at[w].page # "parse"
      /\ sessions' = [sessions EXCEPT ![k].live = FALSE] /\ exposed' = exposed \cup {k}
      /\ at' = [at EXCEPT ![w] = Answered(w, None)]
  BY DEF Drop, Asked3
<1>2. at[w] \in AskPages /\ Types /\ ServerFits
  BY <1>1, PageKinds DEF Asked3, SInv
<1>3. k \in 1 .. Len(sessions) /\ sessions \in Seq(SessionRecords)
  BY <1>1, <1>2 DEF SInv, PageFits, AskPages, Types
<1>4. sessions[k] \in SessionRecords
  BY <1>3
<1>5. [sessions[k] EXCEPT !.live = FALSE] \in SessionRecords /\ ~[sessions[k] EXCEPT !.live = FALSE].live
  BY <1>4 DEF SessionRecords
<1>6. /\ sessions' \in Seq(SessionRecords) /\ Len(sessions') = Len(sessions) /\ ~sessions'[k].live
      /\ \A j \in 1 .. Len(sessions) : j # k => sessions'[j] = sessions[j]
  BY <1>1, <1>3, <1>5
<1>7. Answered(w, None) \in PageRecords
  BY <1>2, AnsweredTyped
<1>8. Types'
  BY <1>1, <1>2, <1>3, <1>6, <1>7 DEF Types, browser
<1>9. Onward
  BY <1>1, <1>2, <1>6 DEF Onward, Types, browser
<1>10. ServerFits'
  BY <1>1, <1>2, <1>3, <1>6 DEF ServerFits, Counted, browser
<1>11. at'[w] = Answered(w, None) /\ \A v \in Walkers \ {w} : at'[v] = at[v]
  BY <1>1, <1>2 DEF Types
<1>12. PageFits(w)'
  BY <1>1, <1>8, <1>9, <1>11, AnsweredFits
<1> QED
  BY <1>1, <1>8, <1>9, <1>10, <1>11, <1>12, WalkerStep

LEMMA CreateSessionStep == ASSUME SInv, NEW w \in Walkers, CreateSession(w) PROVE SInv'
<1> DEFINE r == [owner |-> at[w].operator, bound |-> IF w \in Consoles THEN Server ELSE place,
                 until |-> now + SessionTtl, live |-> TRUE]
           q == Asking(w, "authorize", Len(sessions'))
<1>1. /\ UNCHANGED <<active, admins, codes, tokens, denied, place, attempts, calls, now, history>>
      /\ sessions' = Append(sessions, r) /\ at' = [at EXCEPT ![w] = q]
      /\ jar' \in {jar, [jar EXCEPT !.auth = Len(sessions')]} /\ at[w] \in SessionPages
  BY PageKinds DEF CreateSession, SInv
<1>2. r \in SessionRecords
  BY <1>1, LifetimesAssumption DEF SessionRecords, SessionPages, SInv, Types
<1> HIDE DEF r
<1>3. /\ sessions' \in Seq(SessionRecords) /\ Len(sessions) \in Nat /\ Len(sessions') = Len(sessions) + 1
      /\ \A j \in 1 .. Len(sessions) : sessions'[j] = sessions[j]
  BY <1>1, <1>2 DEF SInv, Types
<1>4. q \in PageRecords
  BY <1>3, AskingTyped DEF SInv
<1> HIDE DEF q
<1>5. /\ jar' \in Jars /\ jar'.auth \in {jar.auth, Len(sessions')} /\ jar'.demo = jar.demo /\ jar'.admin = jar.admin
      /\ jar'.state = jar.state
  BY <1>1, <1>3, JarNow DEF Jars
<1>6. Types'
  BY <1>1, <1>3, <1>4, <1>5 DEF SInv, Types, Jars, history
<1>7. Onward
  BY <1>1, <1>3 DEF SInv, Types, Onward, history
<1>8. jar'.auth <= Len(sessions') /\ jar'.demo <= Len(tokens') /\ jar'.admin <= Len(tokens') /\ jar'.state.attempt <= attempts'
  BY <1>1, <1>3, <1>5, JarNow
<1>9. ServerFits'
  BY <1>1, <1>3, <1>6, <1>7, <1>8, ServerStays DEF history
<1>10. at'[w] = q /\ \A v \in Walkers \ {w} : at'[v] = at[v]
  BY <1>1 DEF SInv, Types
<1>11. PageFits(w)'
  <2>1. Len(sessions') \in 0 .. Len(sessions')
    BY <1>3
  <2> QED
    BY <1>6, <1>7, <1>10, <2>1, AskingFits DEF q
<1> QED
  BY <1>1, <1>6, <1>7, <1>9, <1>10, <1>11, WalkerStep

LEMMA InsertCodeStep == ASSUME SInv, NEW w \in Walkers, InsertCode(w) PROVE SInv'
<1> DEFINE r == [owner |-> at[w].operator, attempt |-> at[w].attempt, used |-> FALSE]
           q == [page |-> IF w \in Consoles THEN "exchange" ELSE "callback", attempt |-> at[w].attempt, code |-> Len(codes'),
                 saved |-> IF w \in Consoles THEN [attempt |-> 0, until |-> now + 1] ELSE jar.state]
<1>1. /\ UNCHANGED <<active, admins, sessions, tokens, denied, browser, calls, now, history>>
      /\ codes' = Append(codes, r) /\ at' = [at EXCEPT ![w] = q] /\ at[w] \in InsertPages
  BY PageKinds DEF InsertCode, SInv
<1>2. r \in CodeRecords /\ r.attempt = at[w].attempt
  BY <1>1 DEF CodeRecords, InsertPages
<1> HIDE DEF r
<1>3. /\ codes' \in Seq(CodeRecords) /\ Len(codes) \in Nat /\ Len(codes') = Len(codes) + 1
      /\ codes'[Len(codes')] = r /\ \A j \in 1 .. Len(codes) : codes'[j] = codes[j]
  BY <1>1, <1>2 DEF SInv, Types
<1>4. jar.state \in States /\ [attempt |-> 0, until |-> now + 1] \in States
  BY DEF SInv, Types, States
<1>5. q \in BackPages /\ q.code = Len(codes') /\ q.attempt = at[w].attempt /\ (w \notin Consoles => q.page = "callback")
  BY <1>1, <1>3, <1>4 DEF BackPages, InsertPages
<1> HIDE DEF q
<1>6. Types'
  <2>1. q \in PageRecords
    BY <1>5 DEF PageRecords
  <2> QED
    BY <1>1, <1>3, <2>1 DEF SInv, Types, browser, history
<1>7. Onward
  BY <1>1, <1>3 DEF SInv, Types, Onward, browser, history
<1>8. ServerFits'
  BY <1>1 DEF SInv, ServerFits, Counted, browser, history
<1>9. at'[w] = q /\ \A v \in Walkers \ {w} : at'[v] = at[v]
  BY <1>1 DEF SInv, Types
<1>10. PageFits(w)'
  <2>1. q.page \in {"callback", "exchange"} /\ (w \in Tabs => q.page = "callback")
    BY <1>5, WalkersAssumption DEF BackPages
  <2>2. q.code <= Len(codes') /\ q.code # 0 /\ codes'[q.code].attempt = q.attempt
    BY <1>2, <1>3, <1>5
  <2> QED
    BY <1>9, <2>1, <2>2 DEF PageFits, Asked3, Coded
<1> QED
  BY <1>1, <1>6, <1>7, <1>8, <1>9, <1>10, WalkerStep

LEMMA ExchangeStep == ASSUME SInv, NEW w \in Walkers, Exchange(w) PROVE SInv'
<1> DEFINE k == at[w].code
           r == [kind |-> "operator", owner |-> codes[k].owner, until |-> now + TokenTtl, admin |-> w \in Consoles]
           q == [page |-> "answer", attempt |-> at[w].attempt, code |-> at[w].code,
                 token |-> IF Redeemable(w) THEN Len(tokens') ELSE 0]
<1>1. /\ UNCHANGED <<active, admins, sessions, denied, browser, calls, now, history>>
      /\ codes' \in {codes, [codes EXCEPT ![k].used = TRUE]} /\ tokens' \in {tokens, Append(tokens, r)}
      /\ at' = [at EXCEPT ![w] = q] /\ at[w].page \in Coded /\ at[w].page = "exchange"
  BY DEF Exchange, Coded
<1>2. k \in 1 .. Len(codes) /\ codes \in Seq(CodeRecords) /\ Len(codes) \in Nat
  BY <1>1, CodeKept DEF SInv, Types, PageFits
<1>3. codes[k] \in CodeRecords
  BY <1>2
<1>4. [codes[k] EXCEPT !.used = TRUE] \in CodeRecords /\ [codes[k] EXCEPT !.used = TRUE].attempt = codes[k].attempt
  BY <1>3 DEF CodeRecords
<1>5. /\ codes' \in Seq(CodeRecords) /\ Len(codes') = Len(codes)
      /\ \A j \in 1 .. Len(codes) : codes'[j].attempt = codes[j].attempt
  <2>1. CASE codes' = codes
    BY <1>2, <2>1
  <2>2. CASE codes' = [codes EXCEPT ![k] = [codes[k] EXCEPT !.used = TRUE]]
    <3> DEFINE x == [codes[k] EXCEPT !.used = TRUE]
    <3>1. x \in CodeRecords /\ x.attempt = codes[k].attempt /\ codes' = [codes EXCEPT ![k] = x]
      BY <1>4, <2>2
    <3> HIDE DEF x
    <3>2. codes' \in Seq(CodeRecords) /\ Len(codes') = Len(codes) /\ codes'[k] = x
      BY <1>2, <3>1
    <3>3. \A j \in 1 .. Len(codes) : j # k => codes'[j] = codes[j]
      BY <1>2, <3>1
    <3> QED
      BY <3>1, <3>2, <3>3
  <2> QED
    BY <1>1, <2>1, <2>2
<1>6. r \in TokenRecords
  <2>1. codes[k].owner \in Operators /\ now + TokenTtl \in Nat
    BY <1>3, LifetimesAssumption DEF CodeRecords, SInv, Types
  <2>2. (w \in Consoles) \in BOOLEAN
    OBVIOUS
  <2> QED
    BY <2>1, <2>2 DEF TokenRecords
<1> HIDE DEF r
<1>7. /\ tokens' \in Seq(TokenRecords) /\ Len(tokens) \in Nat /\ Len(tokens') \in Nat /\ Len(tokens) <= Len(tokens')
      /\ \A j \in 1 .. Len(tokens) : tokens'[j] = tokens[j]
  <2>1. tokens \in Seq(TokenRecords) /\ Len(tokens) \in Nat
    BY DEF SInv, Types
  <2>2. CASE tokens' = tokens
    BY <2>1, <2>2
  <2>3. CASE tokens' = Append(tokens, r)
    BY <1>6, <2>1, <2>3
  <2> QED
    BY <1>1, <2>2, <2>3
<1>8. /\ q \in AnswerPages /\ q.page = "answer" /\ q.token <= Len(tokens')
      /\ q.code = at[w].code /\ q.attempt = at[w].attempt
  BY <1>1, <1>7, CodeKept DEF AnswerPages
<1> HIDE DEF q
<1>9. Types'
  <2>1. q \in PageRecords
    BY <1>8 DEF PageRecords
  <2> QED
    BY <1>1, <1>5, <1>7, <2>1 DEF SInv, Types, browser, history
<1>10. Onward
  BY <1>1, <1>5, <1>7 DEF SInv, Types, Onward, browser, history
<1>11. ServerFits'
  <2>1. jar'.auth <= Len(sessions') /\ jar'.demo <= Len(tokens') /\ jar'.admin <= Len(tokens') /\ jar'.state.attempt <= attempts'
    BY <1>1, <1>7, JarNow DEF browser, Jars
  <2> QED
    BY <1>1, <1>9, <1>10, <2>1, ServerStays DEF history
<1>12. at'[w] = q /\ \A v \in Walkers \ {w} : at'[v] = at[v]
  BY <1>1 DEF SInv, Types
<1>13. PageFits(w)'
  BY <1>1, <1>2, <1>5, <1>8, <1>12, CodeKept DEF PageFits, Asked3, Coded
<1> QED
  BY <1>1, <1>9, <1>10, <1>11, <1>12, <1>13, WalkerStep

-------------------------------------------------------------------------------
(* Steps of a request that presents, revokes or issues a token.              *)

CallSteps ==
  {"target", "verify", "record", "revocation", "person", "accepted", "refused", "resolve", "deny",
   "answer", "answered", "client", "sign"}

LEMMA OnlyACall ==
  ASSUME SInv, NEW c \in Requests, NEW q \in CallRecords, calls' = [calls EXCEPT ![c] = q],
         UNCHANGED <<server, browser, at, now, history>>
  PROVE  Types' /\ calls'[c] = q /\ (CallFits(c)' => SInv')
<1>1. Types'
  BY DEF SInv, Types, server, browser, history
<1>2. Onward
  BY DEF SInv, Types, Onward, server, browser, history
<1>3. ServerFits'
  BY DEF SInv, ServerFits, Counted, server, browser, history
<1>4. calls'[c] = q /\ \A d \in Requests \ {c} : calls'[d] = calls[d]
  BY DEF SInv, Types
<1> QED
  BY <1>1, <1>2, <1>3, <1>4, CallStep

(* A request on its way has a token, unless it asks for one. *)
LEMMA CallNow ==
  ASSUME SInv, NEW c \in Requests, calls[c].step # "free"
  PROVE  /\ calls[c] \in CallRecords /\ CallFits(c) /\ Types
         /\ calls[c].op # "issue" =>
              calls[c].token \in 1 .. Len(tokens) /\ Token(c) \in TokenRecords /\ Token(c).until \in Nat
<1>1. calls[c] \in CallRecords /\ CallFits(c) /\ Types
  BY DEF SInv, Types, Free
<1>2. ASSUME calls[c].op # "issue" PROVE calls[c].token \in 1 .. Len(tokens)
  BY <1>1, <1>2 DEF CallFits, CallRecords, Types
<1>3. ASSUME calls[c].op # "issue" PROVE Token(c) \in TokenRecords
  BY <1>1, <1>2, <1>3 DEF Token, Types
<1>4. ASSUME calls[c].op # "issue" PROVE Token(c).until \in Nat
  BY <1>3, <1>4 DEF TokenRecords
<1> QED
  BY <1>1, <1>2, <1>3, <1>4

(* The call goes on to another step, and is otherwise what it was. *)
LEMMA StepOf ==
  ASSUME NEW q \in CallRecords, NEW step \in CallSteps
  PROVE  LET n == [q EXCEPT !.step = step] IN
         /\ n \in CallRecords /\ n.step = step /\ n.op = q.op /\ n.token = q.token /\ n.hint = q.hint
         /\ n.gone = q.gone /\ n.demoted = q.demoted /\ n.out = q.out
BY DEF CallRecords, CallSteps

Moved(c, step) ==
  /\ calls'[c].step = step /\ calls'[c].op = calls[c].op /\ calls'[c].token = calls[c].token
  /\ calls'[c].hint = calls[c].hint /\ calls'[c].gone = calls[c].gone /\ calls'[c].demoted = calls[c].demoted
  /\ calls'[c].out = calls[c].out
  /\ active' = active /\ admins' = admins /\ tokens' = tokens /\ denied' = denied
  /\ revoked' = revoked /\ now' = now

LEMMA GoesOn ==
  ASSUME SInv, NEW c \in Requests, calls[c].step # "free", NEW step \in CallSteps,
         calls' = [calls EXCEPT ![c].step = step],
         UNCHANGED <<server, browser, at, now, history>>
  PROVE  Moved(c, step) /\ (CallFits(c)' => SInv')
<1> DEFINE n == [calls[c] EXCEPT !.step = step]
<1>1. calls[c] \in CallRecords
  BY CallNow
<1>2. /\ n \in CallRecords /\ n.step = step /\ n.op = calls[c].op /\ n.token = calls[c].token
      /\ n.hint = calls[c].hint /\ n.gone = calls[c].gone /\ n.demoted = calls[c].demoted /\ n.out = calls[c].out
  BY <1>1, StepOf
<1>3. calls' = [calls EXCEPT ![c] = n]
  OBVIOUS
<1> HIDE DEF n
<1>4. calls'[c] = n /\ (CallFits(c)' => SInv')
  BY <1>2, <1>3, OnlyACall
<1> QED
  BY <1>2, <1>4 DEF Moved, server, history

(* One that is over asks for nothing more. *)
LEMMA OverFits ==
  ASSUME SInv, NEW c \in Requests, calls[c].step # "free", NEW step \in {"refused", "answered"},
         calls' = [calls EXCEPT ![c].step = step],
         UNCHANGED <<server, browser, at, now, history>>
  PROVE  SInv'
<1>1. step \in CallSteps
  BY DEF CallSteps
<1>2. Moved(c, step) /\ (CallFits(c)' => SInv')
  BY <1>1, GoesOn
<1>3. CallFits(c)'
  BY <1>2, CallNow DEF CallFits, Moved
<1> QED
  BY <1>2, <1>3

LEMMA FindTargetStep == ASSUME SInv, NEW c \in Requests, FindTarget(c) PROVE SInv'
<1>1. calls[c].step = "target" /\ UNCHANGED <<server, browser, at, now, history>>
  BY DEF FindTarget, Goes
<1>2. CASE Target \in active /\ calls' = [calls EXCEPT ![c].step = "verify"]
  <2>1. "verify" \in CallSteps
    BY DEF CallSteps
  <2>2. Moved(c, "verify") /\ (CallFits(c)' => SInv')
    BY <1>1, <1>2, <2>1, GoesOn
  <2>3. CallFits(c)'
    BY <1>1, <1>2, <2>2, CallNow DEF CallFits, Moved
  <2> QED
    BY <2>2, <2>3
<1>3. CASE calls' = [calls EXCEPT ![c].step = "refused"]
  BY <1>1, <1>3, OverFits
<1> QED
  BY <1>2, <1>3 DEF FindTarget, Goes

LEMMA FindClientStep == ASSUME SInv, NEW c \in Requests, FindClient(c) PROVE SInv'
<1>1. calls[c].step = "client" /\ UNCHANGED <<server, browser, at, now, history>>
  BY DEF FindClient, Goes
<1>2. CASE Client \in active /\ calls' = [calls EXCEPT ![c].step = "sign"]
  <2>1. "sign" \in CallSteps
    BY DEF CallSteps
  <2>2. Moved(c, "sign") /\ (CallFits(c)' => SInv')
    BY <1>1, <1>2, <2>1, GoesOn
  <2>3. CallFits(c)'
    BY <1>1, <1>2, <2>2, CallNow DEF CallFits, Moved
  <2> QED
    BY <2>2, <2>3
<1>3. CASE calls' = [calls EXCEPT ![c].step = "refused"]
  BY <1>1, <1>3, OverFits
<1> QED
  BY <1>2, <1>3 DEF FindClient, Goes

(* What counts against a token that is still in time has been filed. *)
LEMMA InTimeFiled ==
  ASSUME SInv, NEW c \in Requests, calls[c].step # "free", calls[c].op # "issue", InTime(c),
         NEW r \in calls[c].out, r[1] = calls[c].token
  PROVE  tokens[calls[c].token].kind = "target" \/ <<calls[c].token, Filed(r[2])>> \in denied
<1>1. Token(c).until \in Nat /\ now \in Nat /\ CallFits(c)
  BY CallNow DEF SInv, Types
<1>2. r \in revoked
  BY <1>1 DEF CallFits
<1>3. Counted(r[1], r[2])
  BY <1>2 DEF SInv, ServerFits
<1> QED
  BY <1>1, <1>3 DEF Counted, InTime, Token

LEMMA VerifyStep == ASSUME SInv, NEW c \in Requests, Verify(c) PROVE SInv'
<1>1. calls[c].step = "verify" /\ UNCHANGED <<server, browser, at, now, history>>
  BY DEF Verify, Goes
<1>2. calls[c].op \in {"guard", "userinfo", "introspect", "verify"} /\ CallFits(c)
  BY <1>1, CallNow DEF CallFits
<1>3. CASE calls' = [calls EXCEPT ![c].step = "record"] /\ InTime(c) /\ calls[c].op # "verify"
  <2>1. "record" \in CallSteps
    BY DEF CallSteps
  <2>2. \A r \in calls[c].out : r[1] = calls[c].token =>
          tokens[calls[c].token].kind = "target" \/ <<calls[c].token, Filed(r[2])>> \in denied
    BY <1>1, <1>2, <1>3, InTimeFiled
  <2>3. Moved(c, "record") /\ (CallFits(c)' => SInv')
    BY <1>1, <1>3, <2>1, GoesOn
  <2>4. CallFits(c)'
    BY <1>1, <1>2, <1>3, <2>2, <2>3 DEF CallFits, Moved
  <2> QED
    BY <2>3, <2>4
<1>4. CASE calls' = [calls EXCEPT ![c].step = "accepted"] /\ Token(c).kind = "target" /\ calls[c].op = "verify"
  <2>1. "accepted" \in CallSteps
    BY DEF CallSteps
  <2>2. Moved(c, "accepted") /\ (CallFits(c)' => SInv')
    BY <1>1, <1>4, <2>1, GoesOn
  <2>3. CallFits(c)'
    BY <1>1, <1>2, <1>4, <2>2 DEF CallFits, Token, Moved
  <2> QED
    BY <2>2, <2>3
<1>5. CASE calls' = [calls EXCEPT ![c].step = "refused"]
  BY <1>1, <1>5, OverFits
<1> QED
  BY <1>2, <1>3, <1>4, <1>5 DEF Verify, Goes

LEMMA ReadRecordStep == ASSUME SInv, NEW c \in Requests, ReadRecord(c) PROVE SInv'
<1>1. calls[c].step = "record" /\ UNCHANGED <<server, browser, at, now, history>>
  BY DEF ReadRecord, Goes
<1>2. CASE calls' = [calls EXCEPT ![c].step = "revocation"]
  <2>1. "revocation" \in CallSteps
    BY DEF CallSteps
  <2>2. Moved(c, "revocation") /\ (CallFits(c)' => SInv')
    BY <1>1, <1>2, <2>1, GoesOn
  <2>3. CallFits(c)'
    BY <1>1, <1>2, <2>2, CallNow DEF CallFits, Moved
  <2> QED
    BY <2>2, <2>3
<1>3. CASE calls' = [calls EXCEPT ![c].step = "refused"]
  BY <1>1, <1>3, OverFits
<1> QED
  BY <1>2, <1>3 DEF ReadRecord, Goes

LEMMA ReadRevocationStep == ASSUME SInv, NEW c \in Requests, ReadRevocation(c) PROVE SInv'
<1>1. calls[c].step = "revocation" /\ UNCHANGED <<server, browser, at, now, history>>
  BY DEF ReadRevocation, Goes
<1>2. /\ calls[c].op \in {"guard", "userinfo", "introspect"} /\ CallFits(c)
      /\ \A r \in calls[c].out : r[1] = calls[c].token =>
           tokens[calls[c].token].kind = "target" \/ <<calls[c].token, Filed(r[2])>> \in denied
  BY <1>1, CallNow DEF CallFits
<1>3. \A r \in calls[c].out : r[2] \in Hints
  BY <1>1, CallNow DEF CallRecords
<1>4. CASE calls' = [calls EXCEPT ![c].step = "accepted"] /\ calls[c].op = "introspect"
           /\ \A d \in denied : d[1] # calls[c].token
  <2>1. "accepted" \in CallSteps
    BY DEF CallSteps
  <2>2. \A r \in calls[c].out : r[1] = calls[c].token => tokens[calls[c].token].kind = "target"
    BY <1>2, <1>4
  <2>3. Moved(c, "accepted") /\ (CallFits(c)' => SInv')
    BY <1>1, <1>4, <2>1, GoesOn
  <2>4. CallFits(c)'
    BY <1>1, <1>2, <1>4, <2>2, <2>3 DEF CallFits, Moved
  <2> QED
    BY <2>3, <2>4
<1>5. CASE calls' = [calls EXCEPT ![c].step = "person"] /\ calls[c].op # "introspect"
           /\ <<calls[c].token, "access_token">> \notin denied
  <2>1. "person" \in CallSteps
    BY DEF CallSteps
  <2>2. \A r \in calls[c].out : r[1] = calls[c].token => tokens[calls[c].token].kind = "target" \/ r[2] = "refresh_token"
    BY <1>2, <1>3, <1>5 DEF Filed, Hints
  <2>3. Moved(c, "person") /\ (CallFits(c)' => SInv')
    BY <1>1, <1>5, <2>1, GoesOn
  <2>4. CallFits(c)'
    BY <1>1, <1>2, <1>5, <2>2, <2>3 DEF CallFits, Moved
  <2> QED
    BY <2>3, <2>4
<1>6. CASE calls' = [calls EXCEPT ![c].step = "refused"]
  BY <1>1, <1>6, OverFits
<1> QED
  BY <1>4, <1>5, <1>6 DEF ReadRevocation, Goes

LEMMA FindPersonStep == ASSUME SInv, NEW c \in Requests, FindPerson(c) PROVE SInv'
<1> DEFINE o == Token(c).owner
<1>1. calls[c].step = "person" /\ UNCHANGED <<server, browser, at, now, history>>
  BY DEF FindPerson, Goes
<1>2. calls[c].op \in {"guard", "userinfo"} /\ CallFits(c)
  BY <1>1, CallNow DEF CallFits
<1>3. CASE calls' = [calls EXCEPT ![c].step = "accepted"]
           /\ IF calls[c].op = "guard" THEN o \in admins ELSE o \in active
  <2>1. "accepted" \in CallSteps
    BY DEF CallSteps
  <2>2. /\ calls[c].op = "guard" => tokens[calls[c].token].owner \notin calls[c].demoted
        /\ calls[c].op = "userinfo" => tokens[calls[c].token].owner \notin calls[c].gone
    BY <1>1, <1>2, <1>3 DEF CallFits, Token
  <2>3. Moved(c, "accepted") /\ (CallFits(c)' => SInv')
    BY <1>1, <1>3, <2>1, GoesOn
  <2>4. CallFits(c)'
    BY <1>1, <1>2, <1>3, <2>2, <2>3 DEF CallFits, Moved
  <2> QED
    BY <2>3, <2>4
<1>4. CASE calls' = [calls EXCEPT ![c].step = "refused"]
  BY <1>1, <1>4, OverFits
<1> QED
  BY <1>3, <1>4 DEF FindPerson, Goes

LEMMA ResolveStep == ASSUME SInv, NEW c \in Requests, Resolve(c) PROVE SInv'
<1>1. calls[c].step = "resolve" /\ UNCHANGED <<server, browser, at, now, history>>
  BY DEF Resolve
<1>2. calls[c].op = "revoke" /\ CallFits(c)
  BY <1>1, CallNow DEF CallFits
<1>3. CASE calls' = [calls EXCEPT ![c].step = "deny"]
  <2>1. "deny" \in CallSteps
    BY DEF CallSteps
  <2>2. Moved(c, "deny") /\ (CallFits(c)' => SInv')
    BY <1>1, <1>3, <2>1, GoesOn
  <2>3. CallFits(c)'
    BY <1>1, <1>2, <1>3, <2>2 DEF CallFits, Moved
  <2> QED
    BY <2>2, <2>3
<1>4. CASE calls' = [calls EXCEPT ![c].step = "answer"] /\ ~(InTime(c) /\ Token(c).kind # "target")
  <2>1. "answer" \in CallSteps
    BY DEF CallSteps
  <2>2. Token(c).until \in Nat /\ now \in Nat
    BY <1>1, <1>2, CallNow DEF Types
  <2>3. Counted(calls[c].token, calls[c].hint)
    BY <1>4, <2>2 DEF Counted, InTime, Token
  <2>4. Moved(c, "answer") /\ (CallFits(c)' => SInv')
    BY <1>1, <1>4, <2>1, GoesOn
  <2>5. Counted(calls[c].token, calls[c].hint)'
    BY <2>3, <2>4 DEF Counted, Moved
  <2>6. CallFits(c)'
    BY <1>1, <1>2, <1>4, <2>5, <2>4 DEF CallFits, Moved
  <2> QED
    BY <2>4, <2>6
<1> QED
  BY <1>3, <1>4 DEF Resolve

(* A request that begins has nothing to answer for yet. *)
Opened(q, op, t, step) ==
  /\ q \in CallRecords /\ q.op = op /\ q.token = t /\ q.step = step
  /\ q.gone = People \ active /\ q.demoted = Operators \ admins /\ q.out = revoked

LEMMA AskedOpens ==
  ASSUME SInv, NEW op \in {"guard", "userinfo", "introspect", "verify", "revoke", "issue"},
         NEW t \in 0 .. Len(tokens), NEW step \in CallSteps, NEW hint \in Hints
  PROVE  Opened(Asked(op, t, step), op, t, step) /\ Opened([Asked(op, t, step) EXCEPT !.hint = hint], op, t, step)
<1>1. t \in Nat /\ revoked \in SUBSET (Nat \X Hints) /\ None \in Hints
  BY DEF SInv, Types, Hints
<1>2. Opened(Asked(op, t, step), op, t, step)
  BY <1>1 DEF Asked, Opened, CallRecords, CallSteps, People
<1>3. Opened([Asked(op, t, step) EXCEPT !.hint = hint], op, t, step)
  BY <1>1 DEF Asked, Opened, CallRecords, CallSteps, People
<1> QED
  BY <1>2, <1>3

LEMMA AskedFits ==
  ASSUME SInv, NEW c \in Requests, NEW op, NEW t \in 0 .. Len(tokens), op # "issue" => t # 0,
         NEW step, \/ step = "target" /\ op = "verify"
                   \/ step = "verify" /\ op \in {"guard", "userinfo", "introspect"}
                   \/ step = "resolve" /\ op = "revoke"
                   \/ step = "client" /\ op = "issue",
         NEW q, Opened(q, op, t, step), calls' = [calls EXCEPT ![c] = q],
         UNCHANGED <<server, browser, at, now, history>>
  PROVE  SInv'
<1>1. calls'[c] = q /\ (CallFits(c)' => SInv')
  BY OnlyACall DEF Opened
<1>2. active' = active /\ admins' = admins /\ revoked' = revoked /\ tokens' = tokens
  BY DEF server, history
<1>3. step \in {"target", "verify", "resolve", "client"} /\ t <= Len(tokens')
  BY <1>2 DEF SInv, Types
<1>4. CallFits(c)'
  BY <1>1, <1>2, <1>3 DEF CallFits, Opened
<1> QED
  BY <1>1, <1>4

LEMMA PresentStep ==
  ASSUME SInv, NEW c \in Requests, NEW op, NEW t \in DOMAIN tokens, Present(c, op, t) PROVE SInv'
<1>1. /\ op \in {"guard", "userinfo", "introspect", "verify"}
      /\ calls' = [calls EXCEPT ![c] = Asked(op, t, IF op = "verify" THEN "target" ELSE "verify")]
      /\ UNCHANGED <<server, browser, at, now, history>>
  BY DEF Present
<1>2. t \in 0 .. Len(tokens) /\ t # 0 /\ None \in Hints
  BY DEF SInv, Types, Hints
<1> DEFINE step == IF op = "verify" THEN "target" ELSE "verify"
<1>3. step \in CallSteps
  BY DEF CallSteps
<1>4. Opened(Asked(op, t, step), op, t, step)
  BY <1>1, <1>2, <1>3, AskedOpens
<1> QED
  BY <1>1, <1>2, <1>4, AskedFits

LEMMA ProxyStep == ASSUME SInv, NEW c \in Requests, Proxy(c) PROVE SInv'
<1>1. /\ calls' = [calls EXCEPT ![c] = Asked("guard", jar.admin, "verify")] /\ jar.admin > 0
      /\ UNCHANGED <<server, browser, at, now, history>>
  BY DEF Proxy
<1>2. jar.admin \in 0 .. Len(tokens) /\ jar.admin # 0 /\ None \in Hints
  BY <1>1, JarNow DEF SInv, Types, Hints, Jars
<1>3. "verify" \in CallSteps
  BY DEF CallSteps
<1>4. Opened(Asked("guard", jar.admin, "verify"), "guard", jar.admin, "verify")
  BY <1>2, <1>3, AskedOpens
<1> QED
  BY <1>1, <1>2, <1>4, AskedFits

LEMMA RevokeStep ==
  ASSUME SInv, NEW c \in Requests, NEW t \in DOMAIN tokens, NEW hint \in Hints, Revoke(c, t, hint) PROVE SInv'
<1>1. /\ calls' = [calls EXCEPT ![c] = [Asked("revoke", t, "resolve") EXCEPT !.hint = hint]]
      /\ UNCHANGED <<server, browser, at, now, history>>
  BY DEF Revoke
<1>2. t \in 0 .. Len(tokens) /\ t # 0
  BY DEF SInv, Types
<1>3. "resolve" \in CallSteps
  BY DEF CallSteps
<1>4. Opened([Asked("revoke", t, "resolve") EXCEPT !.hint = hint], "revoke", t, "resolve")
  BY <1>2, <1>3, AskedOpens
<1> QED
  BY <1>1, <1>2, <1>4, AskedFits

LEMMA AskForTokenStep == ASSUME SInv, NEW c \in Requests, AskForToken(c) PROVE SInv'
<1>1. calls' = [calls EXCEPT ![c] = Asked("issue", 0, "client")] /\ UNCHANGED <<server, browser, at, now, history>>
  BY DEF AskForToken
<1>2. 0 \in 0 .. Len(tokens) /\ None \in Hints
  BY DEF SInv, Types, Hints
<1>3. "client" \in CallSteps
  BY DEF CallSteps
<1>4. Opened(Asked("issue", 0, "client"), "issue", 0, "client")
  BY <1>2, <1>3, AskedOpens
<1> QED
  BY <1>1, <1>2, <1>4, AskedFits

LEMMA DenyTokenStep == ASSUME SInv, NEW c \in Requests, DenyToken(c) PROVE SInv'
<1> DEFINE q == [calls[c] EXCEPT !.step = "answer"]
           t == calls[c].token
           hint == calls[c].hint
<1>1. /\ calls[c].step = "deny" /\ UNCHANGED <<active, admins, sessions, codes, tokens, browser, at, now, history>>
      /\ denied' = denied \cup {<<t, Filed(hint)>>} /\ calls' = [calls EXCEPT ![c] = q]
  BY DEF DenyToken
<1>2. calls[c] \in CallRecords /\ CallFits(c) /\ calls[c].op = "revoke"
  BY <1>1, CallNow DEF CallFits
<1>3. t \in 1 .. Len(tokens) /\ hint \in Hints /\ Types /\ ServerFits
  BY <1>1, <1>2, CallNow DEF CallRecords, SInv
<1>4. Filed(hint) \in {"access_token", "refresh_token"}
  BY <1>3 DEF Filed, Hints
<1>5. /\ q \in CallRecords /\ q.step = "answer" /\ q.op = "revoke" /\ q.token = t /\ q.hint = hint
      /\ q.gone = calls[c].gone /\ q.demoted = calls[c].demoted /\ q.out = calls[c].out
  BY <1>2, StepOf DEF CallSteps
<1> HIDE DEF q
<1>6. Types'
  <2>1. <<t, Filed(hint)>> \in Nat \X {"access_token", "refresh_token"}
    BY <1>3, <1>4
  <2> QED
    BY <1>1, <1>3, <1>5, <2>1 DEF Types, browser, history
<1>7. Onward
  BY <1>1, <1>3 DEF Types, Onward, browser, history
<1>8. ServerFits'
  <2>1. <<t, Filed(hint)>> \in (1 .. Len(tokens)) \X {"access_token", "refresh_token"}
    BY <1>3, <1>4
  <2> QED
    BY <1>1, <1>3, <2>1 DEF ServerFits, Counted, browser, history
<1>9. calls'[c] = q /\ \A d \in Requests \ {c} : calls'[d] = calls[d]
  BY <1>1, <1>3 DEF Types
<1>10. CallFits(c)'
  <2>1. <<q.token, Filed(q.hint)>> \in denied'
    BY <1>1, <1>5
  <2> QED
    BY <1>1, <1>2, <1>5, <1>9, <2>1 DEF CallFits, Counted, history
<1> QED
  BY <1>1, <1>6, <1>7, <1>8, <1>9, <1>10, CallStep

LEMMA AnswerRevokeStep == ASSUME SInv, NEW c \in Requests, AnswerRevoke(c) PROVE SInv'
<1> DEFINE q == [calls[c] EXCEPT !.step = "answered"]
           r == <<calls[c].token, calls[c].hint>>
<1>1. /\ calls[c].step = "answer" /\ UNCHANGED <<server, browser, at, now, exposed>>
      /\ revoked' = revoked \cup {r} /\ calls' = [calls EXCEPT ![c] = q]
  BY DEF AnswerRevoke
<1>2. calls[c] \in CallRecords /\ CallFits(c) /\ calls[c].op = "revoke"
  BY <1>1, CallNow DEF CallFits
<1>3. r[1] \in 1 .. Len(tokens) /\ r[2] \in Hints /\ Counted(r[1], r[2]) /\ Types /\ ServerFits
  BY <1>1, <1>2, CallNow DEF CallRecords, SInv, CallFits
<1>4. /\ q \in CallRecords /\ q.step = "answered" /\ q.op = "revoke" /\ q.token = calls[c].token
      /\ q.gone = calls[c].gone /\ q.demoted = calls[c].demoted /\ q.out = calls[c].out
  BY <1>2, StepOf DEF CallSteps
<1> HIDE DEF q
<1>5. Types'
  <2>1. r \in Nat \X Hints
    BY <1>3
  <2> QED
    BY <1>1, <1>3, <1>4, <2>1 DEF Types, server, browser
<1>6. Onward
  BY <1>1, <1>3 DEF Types, Onward, server, browser
<1>7. ServerFits'
  BY <1>1, <1>3 DEF ServerFits, Counted, server, browser
<1>8. calls'[c] = q /\ \A d \in Requests \ {c} : calls'[d] = calls[d]
  BY <1>1, <1>3 DEF Types
<1>9. CallFits(c)'
  BY <1>1, <1>2, <1>4, <1>8 DEF CallFits, server
<1> QED
  BY <1>1, <1>5, <1>6, <1>7, <1>8, <1>9, CallStep

LEMMA RecordTokenStep == ASSUME SInv, NEW c \in Requests, RecordToken(c) PROVE SInv'
<1> DEFINE q == [calls[c] EXCEPT !.step = "answered"]
           r == [kind |-> "client", owner |-> None, until |-> now + TokenTtl, admin |-> FALSE]
<1>1. /\ calls[c].step = "sign" /\ UNCHANGED <<active, admins, sessions, codes, denied, browser, at, now, history>>
      /\ tokens' = Append(tokens, r) /\ calls' = [calls EXCEPT ![c] = q]
  BY DEF RecordToken
<1>2. calls[c] \in CallRecords /\ CallFits(c) /\ calls[c].op = "issue" /\ Types
  BY <1>1, CallNow DEF CallFits
<1>3. /\ q \in CallRecords /\ q.step = "answered" /\ q.op = "issue" /\ q.token = calls[c].token
      /\ q.gone = calls[c].gone /\ q.demoted = calls[c].demoted /\ q.out = calls[c].out
  BY <1>2, StepOf DEF CallSteps
<1> HIDE DEF q
<1>4. r \in TokenRecords
  BY <1>2, LifetimesAssumption DEF TokenRecords, Types
<1> HIDE DEF r
<1>5. /\ tokens' \in Seq(TokenRecords) /\ Len(tokens) \in Nat /\ Len(tokens') = Len(tokens) + 1
      /\ \A j \in 1 .. Len(tokens) : tokens'[j] = tokens[j]
  BY <1>1, <1>2, <1>4 DEF Types
<1>6. Types'
  BY <1>1, <1>2, <1>3, <1>5 DEF Types, browser, history
<1>7. Onward
  BY <1>1, <1>2, <1>5 DEF Types, Onward, browser, history
<1>8. ServerFits'
  <2>1. jar'.auth <= Len(sessions') /\ jar'.demo <= Len(tokens') /\ jar'.admin <= Len(tokens') /\ jar'.state.attempt <= attempts'
    BY <1>1, <1>5, JarNow DEF browser, Jars
  <2> QED
    BY <1>1, <1>6, <1>7, <2>1, ServerStays DEF history
<1>9. calls'[c] = q /\ \A d \in Requests \ {c} : calls'[d] = calls[d]
  BY <1>1, <1>2 DEF Types
<1>10. CallFits(c)'
  <2>1. calls[c].token \in Nat /\ calls[c].token <= Len(tokens')
    BY <1>1, <1>2, <1>5 DEF CallFits, CallRecords
  <2> QED
    BY <1>1, <1>2, <1>3, <1>9, <2>1 DEF CallFits, history
<1> QED
  BY <1>1, <1>6, <1>7, <1>8, <1>9, <1>10, CallStep

-------------------------------------------------------------------------------
(* Steps of the browser, the database administrator and the clock.           *)

LEMMA LogoutStep == ASSUME SInv, Logout PROVE SInv'
<1>1. UNCHANGED <<server, place, attempts, at, calls, now, history>>
  BY DEF Logout
<1>2. jar' \in Jars /\ jar'.auth = jar.auth /\ jar'.state = jar.state /\ jar'.demo <= Len(tokens) /\ jar'.admin <= Len(tokens)
  <2>1. 0 <= Len(tokens)
    BY DEF SInv, Types
  <2>2. CASE jar' = [jar EXCEPT !.demo = 0]
    BY <2>1, <2>2, JarNow DEF Jars
  <2>3. CASE jar' = [jar EXCEPT !.admin = 0]
    BY <2>1, <2>3, JarNow DEF Jars
  <2> QED
    BY <2>2, <2>3 DEF Logout
<1>3. Types'
  BY <1>1, <1>2 DEF SInv, Types, Jars, server, history
<1>4. Onward
  BY <1>1 DEF SInv, Types, Onward, server, history
<1>5. ServerFits'
  BY <1>1, <1>2 DEF SInv, ServerFits, Counted, server, history
<1> QED
  BY <1>1, <1>3, <1>4, <1>5, OtherStep

LEMMA MoveStep == ASSUME SInv, Move PROVE SInv'
<1>1. UNCHANGED <<server, jar, attempts, at, calls, now, history>> /\ place' \in Places
  BY DEF Move
<1>2. Types'
  BY <1>1 DEF SInv, Types, server, history
<1>3. Onward
  BY <1>1 DEF SInv, Types, Onward, server, history
<1>4. ServerFits'
  BY <1>1 DEF SInv, ServerFits, Counted, server, history
<1> QED
  BY <1>1, <1>2, <1>3, <1>4, OtherStep

LEMMA RowsStep == ASSUME SInv, (\E x \in People : Deactivate(x)) \/ (\E o \in Operators : Demote(o)) PROVE SInv'
<1>1. /\ UNCHANGED <<sessions, codes, tokens, denied, browser, at, calls, now, history>>
      /\ active' \subseteq active /\ admins' \subseteq admins
  BY DEF Deactivate, Demote
<1>2. Types'
  BY <1>1 DEF SInv, Types, browser, history
<1>3. Onward
  BY <1>1 DEF SInv, Types, Onward, browser, history
<1>4. ServerFits'
  BY <1>1 DEF SInv, ServerFits, Counted, browser, history
<1> QED
  BY <1>1, <1>2, <1>3, <1>4, OtherStep

LEMMA TickStep == ASSUME SInv, Tick PROVE SInv'
<1>1. UNCHANGED <<server, browser, at, calls, history>> /\ now' = now + 1
  BY DEF Tick
<1>2. Types'
  BY <1>1 DEF SInv, Types, server, browser, history
<1>3. Onward
  BY <1>1 DEF SInv, Types, Onward, server, browser, history
<1>4. ServerFits'
  <2>1. jar'.auth <= Len(sessions') /\ jar'.demo <= Len(tokens') /\ jar'.admin <= Len(tokens') /\ jar'.state.attempt <= attempts'
    BY <1>1, JarNow DEF server, browser
  <2> QED
    BY <1>1, <1>2, <1>3, <2>1, ServerStays DEF server, history
<1> QED
  BY <1>1, <1>2, <1>3, <1>4, OtherStep

LEMMA StutterStep == ASSUME SInv, UNCHANGED vars PROVE SInv'
<1>1. UNCHANGED <<server, browser, at, calls, now, history>>
  BY DEF vars
<1>2. Types'
  BY <1>1 DEF SInv, Types, server, browser, history
<1>3. Onward
  BY <1>1 DEF SInv, Types, Onward, server, browser, history
<1>4. ServerFits'
  BY <1>1 DEF SInv, ServerFits, Counted, server, browser, history
<1> QED
  BY <1>1, <1>2, <1>3, <1>4, OtherStep

LEMMA StepSInv == SInv /\ [Next]_vars => SInv'
<1> SUFFICES ASSUME SInv, [Next]_vars PROVE SInv'
  OBVIOUS
<1>1. ASSUME NEW w \in Walkers, Handle(w) PROVE SInv'
  BY <1>1, ParseStep, DropStep, FindOperatorStep, CreateSessionStep, InsertCodeStep, CheckStateStep,
     ExchangeStep, ArriveStep DEF Handle
<1>2. ASSUME NEW w \in Walkers, Choose(w) PROVE SInv'
  BY <1>2, StartLoginStep, AllowStep, DenyStep, ReloadStep, PostPasswordStep, ConsoleLoginStep DEF Choose
<1>3. ASSUME NEW c \in Requests, Read(c) PROVE SInv'
  BY <1>3, PresentStep, ProxyStep, FindTargetStep, VerifyStep, ReadRecordStep, ReadRevocationStep,
     FindPersonStep DEF Read
<1>4. ASSUME NEW c \in Requests, Write(c) PROVE SInv'
  BY <1>4, RevokeStep, ResolveStep, DenyTokenStep, AnswerRevokeStep, AskForTokenStep, FindClientStep,
     RecordTokenStep DEF Write, Hints
<1>5. CASE (\E x \in People : Deactivate(x)) \/ (\E o \in Operators : Demote(o))
  BY <1>5, RowsStep
<1>6. CASE Logout \/ Move \/ Tick
  BY <1>6, LogoutStep, MoveStep, TickStep
<1>7. CASE UNCHANGED vars
  BY <1>7, StutterStep
<1> QED
  BY <1>1, <1>2, <1>3, <1>4, <1>5, <1>6, <1>7 DEF Next, Requests, People

-------------------------------------------------------------------------------
(* What the invariant says to a reader.                                      *)

LEMMA SInvGone == SInv => ReadersAskAnew
<1> SUFFICES ASSUME SInv PROVE ReadersAskAnew
  OBVIOUS
<1>1. NothingForTheGone
  BY DEF SInv, PageFits, CallFits, NothingForTheGone, Requests
<1>2. RowsReadCount
  <2> SUFFICES ASSUME NEW c \in Readers, calls[c].step = "accepted"
               PROVE  /\ calls[c].op = "guard" => Token(c).owner \notin calls[c].demoted
                      /\ calls[c].op = "userinfo" => Token(c).owner \notin calls[c].gone
                      /\ calls[c].op = "verify" => Target \notin calls[c].gone
    BY DEF RowsReadCount
  <2>1. CallFits(c)
    BY DEF SInv, Requests
  <2> QED
    BY <2>1 DEF CallFits, Token
<1>3. RevocationsAreFound
  <2> SUFFICES ASSUME NEW c \in Readers, calls[c].step = "accepted", NEW r \in calls[c].out, r[1] = calls[c].token
               PROVE  Token(c).kind = "target" \/ (r[2] = "refresh_token" /\ calls[c].op # "introspect")
    BY DEF RevocationsAreFound
  <2>1. CallFits(c)
    BY DEF SInv, Requests
  <2> QED
    BY <2>1 DEF CallFits, Token
<1> QED
  BY <1>1, <1>2, <1>3 DEF ReadersAskAnew

LEMMA SInvTyped == SInv => TypeOK
<1> SUFFICES ASSUME SInv PROVE TypeOK
  OBVIOUS
<1>1. Types /\ ServerFits
  BY DEF SInv
<1>2. ASSUME NEW s \in DOMAIN sessions
      PROVE  sessions[s].owner \in Operators /\ sessions[s].bound \in Places \cup {Server} /\ sessions[s].live \in BOOLEAN
  <2>1. sessions[s] \in SessionRecords
    BY <1>1, <1>2 DEF Types
  <2> QED
    BY <2>1 DEF SessionRecords
<1>3. ASSUME NEW k \in DOMAIN codes PROVE codes[k].owner \in Operators /\ codes[k].used \in BOOLEAN
  <2>1. codes[k] \in CodeRecords
    BY <1>1, <1>3 DEF Types
  <2> QED
    BY <2>1 DEF CodeRecords
<1>4. ASSUME NEW t \in DOMAIN tokens PROVE tokens[t].owner \in Operators \cup {None} /\ tokens[t].until \in Nat
  <2>1. tokens[t] \in TokenRecords
    BY <1>1, <1>4 DEF Types
  <2> QED
    BY <2>1 DEF TokenRecords
<1>5. denied \subseteq (DOMAIN tokens) \X {"access_token", "refresh_token"}
  <2>1. DOMAIN tokens = 1 .. Len(tokens)
    BY <1>1 DEF Types
  <2> QED
    BY <1>1, <2>1 DEF ServerFits
<1>6. /\ jar.auth \in 0 .. Len(sessions) /\ {jar.demo, jar.admin} \subseteq 0 .. Len(tokens)
      /\ jar.state.attempt \in 0 .. attempts
  BY <1>1 DEF Types, ServerFits, States
<1>7. active \subseteq Operators \cup {Target, Client} /\ admins \subseteq Operators
  BY <1>1 DEF Types, People
<1> QED
  BY <1>2, <1>3, <1>4, <1>5, <1>6, <1>7 DEF TypeOK

LEMMA SInvTabs == SInv => TabsAreSafe
<1> SUFFICES ASSUME SInv PROVE TabsAreSafe
  OBVIOUS
<1>1. StateSparesTheCode
  <2> SUFFICES ASSUME NEW w \in Tabs, at[w].page = "exchange" PROVE codes[at[w].code].attempt = at[w].saved.attempt
    BY DEF StateSparesTheCode
  <2>1. w \in Walkers /\ PageFits(w)
    BY DEF SInv, Walkers
  <2> QED
    BY <2>1 DEF PageFits, Coded
<1>2. ForeignSessionDies
  BY DEF SInv, PageFits, Asked3, ForeignSessionDies
<1> QED
  BY <1>1, <1>2, SInvTyped DEF TabsAreSafe

LEMMA SpecSInv == Spec => []SInv
BY InitSInv, StepSInv, PTL DEF Spec

(* For any operators, tabs, consoles, requests, tokens and lifetimes: no code *)
(* is made for an operator, and no token for a client, who was deactivated    *)
(* before the request that asks for it; a request that begins after the role  *)
(* is taken from an administrator is turned away by the guard, after the      *)
(* operator is deactivated by userinfo, after the target is by the verifier;  *)
(* and a revocation answered before it began is found by introspection, and   *)
(* by guard and userinfo unless it was filed under refresh_token.             *)
THEOREM AlwaysAskedAnew == Spec => []ReadersAskAnew
BY SpecSInv, SInvGone, PTL

(* For any number of tabs that share the cookies of one browser: the code a   *)
(* callback redeems is of the attempt whose verifier it sends, and a session  *)
(* turned away from elsewhere identifies nobody in a later request            *)
(* (demo-web's callback, LoginSessionService.parse).                          *)
THEOREM TabsStaySafe == Spec => []TabsAreSafe
BY SpecSInv, SInvTabs, PTL
===============================================================================
