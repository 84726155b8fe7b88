-------------------------- MODULE TargetServiceProofs --------------------------
(***************************************************************************)
(* Proofs about ExchangeClient and TargetService, for any number of calls, *)
(* visits and keys and any times of jose and the verifier.                 *)
(***************************************************************************)
EXTENDS TargetService, TLAPS

(* What a call, its timer, its listeners and its child have to do with each  *)
(* other at each step.                                                       *)
Tidy(c) ==
  /\ call[c].step = "done" <=> call[c].result # None
  /\ call[c].step \notin {"idle", "done"} => call[c].hop \in {1, 2}
  /\ c \in timers => call[c].step \in {"sent", "answered", "failed"} /\ call[c].kind # "demo"
  /\ <<c, "request">> \in heard => call[c].step \in {"sent", "answered", "failed"}
  /\ <<c, "command">> \in heard => call[c].step = "running"
  /\ call[c].signal /\ call[c].step = "sent" => ~aborted /\ <<c, "request">> \in heard

(* A child that may be told to stop is, or its call still listens.           *)
Reached(c) ==
  /\ child[c].state # "none" => call[c].step \in {"running", "done"}
  /\ child[c].state \in {"starting", "alive"} /\ call[c].signal /\ ~child[c].told =>
       ~aborted /\ <<c, "command">> \in heard
  /\ child[c].state = "ended" \/ (child[c].state # "none" /\ ~child[c].listening) => call[c].step = "done"

(* The one cause a request failed for is kept till the call is over.         *)
Caused(c) ==
  /\ call[c].late => call[c].step = "failed"
  /\ call[c].cause # None => call[c].step \in {"failed", "done"}
  /\ call[c].step = "failed" => call[c].cause # None /\ (call[c].late <=> call[c].cause = "timer")
  /\ call[c].cause = "timer" => call[c].kind # "demo"
  /\ call[c].step = "done" => (call[c].result = "timeout" <=> call[c].cause = "timer")

ClientTypes ==
  /\ call \in [Calls -> CallRecords] /\ child \in [Calls -> ChildRecords]
  /\ timers \subseteq Calls /\ heard \subseteq Calls \X {"request", "command"}
  /\ aborted \in BOOLEAN /\ host \in {"up", "down"} /\ signing \in Keys /\ pool \in Pools

ClientInv ==
  /\ ClientTypes /\ stdin \subseteq Calls
  /\ \A c \in Calls : Tidy(c) /\ Reached(c) /\ Caused(c)

-------------------------------------------------------------------------------
(* The key set: what it and the fetch under way hold was published not long  *)
(* before, and whoever waits for a fetch needs it.                           *)
Published(k, since) == k \in published \/ (left[k] \in Nat /\ since <= left[k])

SetIsRecent ==
  /\ \A k \in jwks.keys : k \in published \/ (left[k] \in Nat /\ jwks.at <= left[k] + FetchTime)
  /\ \A k \in fetching.keys : Published(k, fetching.since)
  /\ \A k \in published : left[k] = None
  /\ jwks.at <= now
  /\ fetching # NoFetch => fetching.since <= now /\ now <= fetching.since + FetchTime

VisitFits(v) ==
  /\ visit[v].step = "answered" <=> visit[v].answer # None
  /\ visit[v].step = "wait" =>
       fetching.step # "none" /\ visit[v].missed /\ ~(Fresh /\ visit[v].token.by \in jwks.keys)
  /\ visit[v].step = "arrived" => ~visit[v].missed
  /\ visit[v].step = "key" /\ visit[v].missed => jwks.had /\ jwks.at = now
  /\ visit[v].step \in {"key", "wait"} => visit[v].token.by \in Keys

VisitsFit == \A v \in Visits : VisitFits(v)

ServiceTypes ==
  /\ visit \in [Visits -> VisitRecords]
  /\ jwks \in [keys : SUBSET Keys, at : Nat, had : BOOLEAN]
  /\ fetching \in [step : {"none", "sent", "read", "body"}, keys : SUBSET Keys, since : Nat]
  /\ fetching.step = "none" => fetching = NoFetch
  /\ published \in SUBSET Keys /\ signing \in published
  /\ left \in [Keys -> Nat \cup {None}]
  /\ cookie \in Tokens /\ cookie.by \in {"local", None} /\ now \in Nat

ServiceInv == ServiceTypes /\ SetIsRecent /\ VisitsFit
Inv == ClientInv /\ ServiceInv

-------------------------------------------------------------------------------
(* The steps of a call                                                       *)

ClientStep(c) ==
  \/ \E kind \in {"exchange", "command"}, signal \in BOOLEAN : Begin(c, kind, signal)
  \/ \E hop \in 1 .. 2 : BeginDemo(c, hop)
  \/ Serve(c) \/ Answer(c) \/ Break(c) \/ Timeout(c) \/ Continue(c)
  \/ SpawnFails(c) \/ ChildRuns(c) \/ StdinTaken(c) \/ StdinFails(c) \/ ChildEnds(c)

(* A step of one call leaves every other call, its timer, its listeners and  *)
(* its child alone.                                                          *)
Elsewhere(b) ==
  /\ call'[b] = call[b] /\ child'[b] = child[b] /\ (b \in timers' <=> b \in timers)
  /\ <<b, "request">> \in heard' <=> <<b, "request">> \in heard
  /\ <<b, "command">> \in heard' <=> <<b, "command">> \in heard

Fit(c) == Tidy(c) /\ Reached(c) /\ Caused(c)

LEMMA StringsDiffer ==
  None \notin Causes \cup Results \cup {"exchange", "command", "demo", "ok", "refused", "garbled"}
BY ClientAssumption

LEMMA OthersFit ==
  ASSUME NEW b \in Calls, Fit(b), Elsewhere(b), aborted' = aborted
  PROVE  Fit(b)'
BY DEF Fit, Tidy, Reached, Caused, Elsewhere

LEMMA CallFields ==
  ASSUME NEW r \in CallRecords
  PROVE  /\ r.kind \in {None, "exchange", "command", "demo"} /\ r.signal \in BOOLEAN /\ r.step \in Steps
         /\ r.hop \in 0 .. 2 /\ r.served \in {None, "ok", "refused"} /\ r.bearer \in BOOLEAN /\ r.late \in BOOLEAN
         /\ r.cause \in Causes \cup {None} /\ r.payload \in {None, "ok", "refused", "garbled"}
         /\ r.key \in Keys \cup {None} /\ r.result \in Results \cup {None}
BY DEF CallRecords

LEMMA IdleRecord == Idle \in CallRecords
BY DEF Idle, CallRecords, Steps

LEMMA DoneRecord ==
  ASSUME NEW r \in CallRecords, NEW result \in Results
  PROVE  /\ Done(r, result) \in CallRecords
         /\ Done(r, result).kind = r.kind /\ Done(r, result).signal = r.signal
         /\ Done(r, result).cause = r.cause /\ Done(r, result).step = "done"
         /\ Done(r, result).result = result /\ Done(r, result).late = FALSE
<1>1. Done(r, result) \in CallRecords
  BY CallFields, IdleRecord DEF Done, CallRecords, Steps
<1>2. /\ Done(r, result).kind = r.kind /\ Done(r, result).signal = r.signal
      /\ Done(r, result).cause = r.cause /\ Done(r, result).step = "done"
      /\ Done(r, result).result = result /\ Done(r, result).late = FALSE
  BY DEF Done, Idle
<1>. QED BY <1>1, <1>2

LEMMA BeginStep ==
  ASSUME ClientTypes, NEW c \in Calls, Fit(c),
         \/ \E kind \in {"exchange", "command"}, signal \in BOOLEAN : Begin(c, kind, signal)
         \/ \E hop \in 1 .. 2 : BeginDemo(c, hop)
  PROVE  ClientTypes' /\ Fit(c)' /\ \A b \in Calls \ {c} : Elsewhere(b)
<1>1. PICK r \in CallRecords :
        /\ call' = [call EXCEPT ![c] = r]
        /\ r.step = "open" /\ r.late = FALSE /\ r.cause = None /\ r.result = None /\ r.hop \in {1, 2}
        /\ call[c].step = "idle" /\ UNCHANGED <<timers, heard, aborted, child, host, signing, pool>>
  <2>1. ASSUME NEW kind \in {"exchange", "command"}, NEW signal \in BOOLEAN, Begin(c, kind, signal)
        PROVE  \E r \in CallRecords :
                 /\ call' = [call EXCEPT ![c] = r]
                 /\ r.step = "open" /\ r.late = FALSE /\ r.cause = None /\ r.result = None /\ r.hop \in {1, 2}
    <3> DEFINE r == [Idle EXCEPT !.kind = kind, !.signal = signal, !.step = "open", !.hop = 1]
    <3>1. r \in CallRecords
      BY IdleRecord, 1 \in 0 .. 2 DEF CallRecords, Steps
    <3>2. r.step = "open" /\ r.late = FALSE /\ r.cause = None /\ r.result = None /\ r.hop \in {1, 2}
      BY DEF Idle
    <3>3. call' = [call EXCEPT ![c] = r]
      BY <2>1 DEF Begin
    <3> HIDE DEF r
    <3>. QED BY <3>1, <3>2, <3>3
  <2>2. ASSUME NEW hop \in 1 .. 2, BeginDemo(c, hop)
        PROVE  \E r \in CallRecords :
                 /\ call' = [call EXCEPT ![c] = r]
                 /\ r.step = "open" /\ r.late = FALSE /\ r.cause = None /\ r.result = None /\ r.hop \in {1, 2}
    <3> DEFINE r == [Idle EXCEPT !.kind = "demo", !.step = "open", !.hop = hop, !.bearer = hop = 1]
    <3>1. r \in CallRecords
      <4>1. hop \in 0 .. 2 /\ (hop = 1) \in BOOLEAN
        OBVIOUS
      <4>. QED BY <4>1, IdleRecord DEF CallRecords, Steps
    <3>2. r.step = "open" /\ r.late = FALSE /\ r.cause = None /\ r.result = None /\ r.hop \in {1, 2}
      BY hop \in {1, 2} DEF Idle
    <3>3. call' = [call EXCEPT ![c] = r]
      BY <2>2 DEF BeginDemo
    <3> HIDE DEF r
    <3>. QED BY <3>1, <3>2, <3>3
  <2>3. call[c].step = "idle" /\ UNCHANGED <<timers, heard, aborted, child, host, signing, pool>>
    BY DEF Begin, BeginDemo
  <2>. QED BY <2>1, <2>2, <2>3
<1>2. call'[c] = r /\ call' \in [Calls -> CallRecords] /\ \A b \in Calls \ {c} : call'[b] = call[b]
  BY <1>1 DEF ClientTypes
<1>3. ClientTypes'
  BY <1>1, <1>2 DEF ClientTypes
<1>4. \A b \in Calls \ {c} : Elsewhere(b)
  BY <1>1, <1>2 DEF Elsewhere
<1>5. Fit(c)'
  BY <1>1, <1>2, StringsDiffer DEF Fit, Tidy, Reached, Caused, Causes
<1>. QED BY <1>3, <1>4, <1>5

LEMMA RequestStep ==
  ASSUME ClientTypes, NEW c \in Calls, Fit(c), Serve(c) \/ Answer(c) \/ Break(c) \/ Timeout(c)
  PROVE  ClientTypes' /\ Fit(c)' /\ \A b \in Calls \ {c} : Elsewhere(b)
<1>1. call[c] \in CallRecords
  BY DEF ClientTypes
<1>2. PICK r \in CallRecords :
        /\ call' = [call EXCEPT ![c] = r]
        /\ r.kind = call[c].kind /\ r.signal = call[c].signal /\ r.result = call[c].result
        /\ r.hop = call[c].hop
        /\ UNCHANGED <<heard, aborted, child, host, signing, pool>>
        /\ call[c].step = "sent"
        /\ \/ /\ timers' = timers /\ r.step \in {"sent", "answered"}
              /\ r.late = call[c].late /\ r.cause = call[c].cause
           \/ /\ timers' = timers /\ r.step = "failed"
              /\ r.late = call[c].late /\ r.cause = "network"
           \/ /\ timers' = timers \ {c} /\ c \in timers /\ r.step = "failed"
              /\ r.late = TRUE /\ r.cause = "timer"
  <2>2. CASE Serve(c)
    <3>1. PICK outcome \in {"ok", "refused"}, key \in Keys \cup {None} :
            call' = [call EXCEPT ![c].served = outcome, ![c].key = key]
      BY <2>2 DEF Serve, ClientTypes
    <3> DEFINE r == [call[c] EXCEPT !.served = outcome, !.key = key]
    <3>2. r \in CallRecords /\ call' = [call EXCEPT ![c] = r]
      BY <1>1, <3>1 DEF CallRecords, ClientTypes
    <3>3. /\ r.kind = call[c].kind /\ r.signal = call[c].signal /\ r.result = call[c].result
          /\ r.hop = call[c].hop /\ r.step = call[c].step /\ r.late = call[c].late /\ r.cause = call[c].cause
      BY <1>1 DEF CallRecords
    <3> HIDE DEF r
    <3>. QED BY <2>2, <3>2, <3>3 DEF Serve
  <2>3. CASE Answer(c)
    <3>1. PICK payload \in {None, "ok", "refused", "garbled"} :
            call' = [call EXCEPT ![c] = [@ EXCEPT !.step = "answered", !.payload = payload]]
      BY <1>1, <2>3, CallFields DEF Answer
    <3>2. [call[c] EXCEPT !.step = "answered", !.payload = payload] \in CallRecords
      BY <1>1 DEF CallRecords, Steps
    <3>. QED BY <1>1, <2>3, <3>1, <3>2 DEF Answer, CallRecords, ClientTypes
  <2>4. CASE Break(c)
    <3>1. [call[c] EXCEPT !.step = "failed", !.cause = "network"] \in CallRecords
      BY <1>1 DEF CallRecords, Steps, Causes
    <3>. QED BY <1>1, <2>4, <3>1 DEF Break, CallRecords, ClientTypes
  <2>5. CASE Timeout(c)
    <3>1. [call[c] EXCEPT !.late = TRUE, !.step = "failed", !.cause = "timer"] \in CallRecords
      BY <1>1 DEF CallRecords, Steps, Causes
    <3>2. call[c].step = "sent"
      BY <2>5 DEF Timeout, Continuing, Fit, Tidy
    <3>. QED BY <1>1, <2>5, <3>1, <3>2 DEF Timeout, CallRecords, ClientTypes
  <2>. QED BY <2>2, <2>3, <2>4, <2>5
<1>3. /\ call' \in [Calls -> CallRecords] /\ call'[c] = r /\ \A b \in Calls \ {c} : call'[b] = call[b]
      /\ timers' \subseteq Calls
  BY <1>2 DEF ClientTypes
<1>5. ClientTypes'
  BY <1>2, <1>3 DEF ClientTypes
<1>6. \A b \in Calls \ {c} : Elsewhere(b)
  BY <1>2, <1>3 DEF Elsewhere
<1>7. Fit(c)'
  BY <1>1, <1>2, <1>3, StringsDiffer DEF Fit, Tidy, Reached, Caused, Causes
<1>. QED BY <1>5, <1>6, <1>7

LEMMA OpenStep ==
  ASSUME ClientTypes, NEW c \in Calls, Fit(c), Open(c)
  PROVE  ClientTypes' /\ Fit(c)' /\ \A b \in Calls \ {c} : Elsewhere(b)
<1>1. call[c] \in CallRecords /\ call[c].step = "open"
  BY DEF ClientTypes, Open
<1>2. PICK r \in CallRecords :
        /\ call' = [call EXCEPT ![c] = r]
        /\ r.kind = call[c].kind /\ r.signal = call[c].signal /\ r.result = call[c].result /\ r.hop = call[c].hop
        /\ r.late = FALSE
        /\ \/ Aborted(c) /\ r.step = "failed" /\ r.cause = "abort" /\ heard' = heard
           \/ /\ ~Aborted(c) /\ r.step = "sent" /\ r.cause = call[c].cause
              /\ heard' = IF call[c].signal THEN heard \cup {<<c, "request">>} ELSE heard
  <2>1. CASE Aborted(c)
    <3> DEFINE r == [call[c] EXCEPT !.step = "failed", !.cause = "abort"]
    <3>1. r \in CallRecords
      BY <1>1 DEF CallRecords, Steps, Causes
    <3>2. /\ r.kind = call[c].kind /\ r.signal = call[c].signal /\ r.result = call[c].result /\ r.hop = call[c].hop
          /\ r.late = call[c].late /\ r.step = "failed" /\ r.cause = "abort"
      BY <1>1 DEF CallRecords
    <3>3. call[c].late = FALSE
      BY <1>1, CallFields DEF Fit, Caused
    <3>4. call' = [call EXCEPT ![c] = r] /\ heard' = heard
      BY <2>1 DEF Open
    <3> HIDE DEF r
    <3>. QED BY <2>1, <3>1, <3>2, <3>3, <3>4
  <2>2. CASE ~Aborted(c)
    <3> DEFINE r == Sent(call[c])
    <3>1. r \in CallRecords
      BY <1>1 DEF Sent, CallRecords, Steps
    <3>2. /\ r.kind = call[c].kind /\ r.signal = call[c].signal /\ r.result = call[c].result /\ r.hop = call[c].hop
          /\ r.late = FALSE /\ r.step = "sent" /\ r.cause = call[c].cause
      BY <1>1 DEF Sent, CallRecords
    <3>3. call' = [call EXCEPT ![c] = r] /\ heard' = IF call[c].signal THEN heard \cup {<<c, "request">>} ELSE heard
      BY <2>2 DEF Open
    <3> HIDE DEF r
    <3>. QED BY <2>2, <3>1, <3>2, <3>3
  <2>. QED BY <2>1, <2>2
<1>3. /\ timers' = IF call[c].kind = "demo" THEN timers ELSE timers \cup {c}
      /\ UNCHANGED <<aborted, child, host, signing, pool>>
  BY DEF Open
<1>4. /\ call' \in [Calls -> CallRecords] /\ call'[c] = r /\ \A b \in Calls \ {c} : call'[b] = call[b]
      /\ timers' \subseteq Calls /\ heard' \subseteq Calls \X {"request", "command"}
  BY <1>2, <1>3 DEF ClientTypes
<1>5. ClientTypes'
  BY <1>3, <1>4 DEF ClientTypes
<1>6. \A b \in Calls \ {c} : Elsewhere(b)
  BY <1>2, <1>3, <1>4 DEF Elsewhere
<1>7. Fit(c)'
  <2>1. /\ c \notin timers /\ <<c, "command">> \notin heard /\ call[c].cause = None /\ child[c].state = "none"
        /\ call[c].result = None /\ call[c].hop \in {1, 2}
    BY <1>1, <1>3 DEF Fit, Tidy, Reached, Caused, ClientTypes, ChildRecords
  <2>2. /\ <<c, "command">> \notin heard' /\ call'[c].signal \in BOOLEAN /\ aborted \in BOOLEAN
        /\ call'[c].signal /\ call'[c].step = "sent" => ~aborted /\ <<c, "request">> \in heard'
    BY <1>1, <1>2, <1>4, <2>1, CallFields DEF Aborted, ClientTypes
  <2>3. Tidy(c)'
    BY <1>2, <1>3, <1>4, <2>1, <2>2 DEF Tidy
  <2>4. Reached(c)'
    BY <1>3, <2>1 DEF Reached
  <2>5. Caused(c)'
    BY <1>2, <1>4, <2>1, StringsDiffer DEF Caused, Causes
  <2>. QED BY <2>3, <2>4, <2>5 DEF Fit
<1>. QED BY <1>5, <1>6, <1>7

(* What is made of a payload: the next request, the command, or the end.     *)
Onward(q, r) ==
  /\ r \in CallRecords /\ r.kind = q.kind /\ r.signal = q.signal /\ r.cause = q.cause
  /\ r.step \in {"open", "spawn", "done"} /\ r.late = FALSE
  /\ r.step = "done" => r.result \in Results \ {"timeout"}
  /\ r.step # "done" => r.result = None /\ r.hop \in {1, 2}

LEMMA TakenOnward ==
  ASSUME NEW q \in CallRecords, q.step = "answered", q.result = None, q.hop \in {1, 2}, q.late = FALSE
  PROVE  Onward(q, TakenBySdk(q)) /\ Onward(q, TakenByDemo(q))
<1>1. \A p \in CallRecords : \A result \in Results \ {"timeout"} :
        p.kind = q.kind /\ p.signal = q.signal /\ p.cause = q.cause => Onward(q, Done(p, result))
  BY DoneRecord DEF Onward
<1>2. {"refused", "invalid", "token"} \subseteq Results \ {"timeout"}
  BY DEF Results
<1>3. Onward(q, [q EXCEPT !.step = "open", !.hop = 2]) /\ Onward(q, [q EXCEPT !.step = "spawn"])
  <2>1. [q EXCEPT !.step = "open", !.hop = 2] \in CallRecords /\ [q EXCEPT !.step = "spawn"] \in CallRecords
    BY 2 \in 0 .. 2 DEF CallRecords, Steps
  <2>. QED BY <2>1 DEF Onward, CallRecords
<1>4. Onward(q, [q EXCEPT !.step = "open", !.hop = 2, !.bearer = q.payload = "ok"])
  <2>1. \A b \in BOOLEAN : [q EXCEPT !.step = "open", !.hop = 2, !.bearer = b] \in CallRecords
    <3>1. [q EXCEPT !.step = "open", !.hop = 2] \in CallRecords
      BY 2 \in 0 .. 2 DEF CallRecords, Steps
    <3>2. ASSUME NEW p \in CallRecords, NEW b, b \in BOOLEAN PROVE [p EXCEPT !.bearer = b] \in CallRecords
      BY <3>2 DEF CallRecords
    <3>. QED BY <3>1, <3>2
  <2>2. (q.payload = "ok") \in BOOLEAN
    OBVIOUS
  <2>3. [q EXCEPT !.step = "open", !.hop = 2, !.bearer = q.payload = "ok"] \in CallRecords
    BY <2>1, <2>2
  <2>. QED BY <2>3 DEF Onward, CallRecords
<1>5. Onward(q, TakenBySdk(q))
  BY <1>1, <1>2, <1>3 DEF TakenBySdk
<1>6. ASSUME NEW k \in Keys \cup {None} PROVE Onward(q, Done([q EXCEPT !.key = k], "token"))
  <2>1. [q EXCEPT !.key = k] \in CallRecords
    BY DEF CallRecords
  <2>2. /\ [q EXCEPT !.key = k].kind = q.kind /\ [q EXCEPT !.key = k].signal = q.signal
        /\ [q EXCEPT !.key = k].cause = q.cause
    BY DEF CallRecords
  <2>. QED BY <1>1, <1>2, <2>1, <2>2
<1>7. Onward(q, TakenByDemo(q))
  <2>1. CASE q.payload = "refused"
    BY <1>1, <1>2, <2>1 DEF TakenByDemo
  <2>2. CASE q.payload # "refused" /\ q.hop = 1
    <3>1. TakenByDemo(q) = [q EXCEPT !.step = "open", !.hop = 2, !.bearer = q.payload = "ok"]
      BY <2>2 DEF TakenByDemo
    <3>. QED BY <1>4, <3>1
  <2>3. CASE q.payload # "refused" /\ q.hop # 1
    <3>1. TakenByDemo(q) = Done([q EXCEPT !.key = IF q.payload = "ok" THEN q.key ELSE None], "token")
      BY <2>3 DEF TakenByDemo
    <3>2. (IF q.payload = "ok" THEN q.key ELSE None) \in Keys \cup {None}
      BY CallFields
    <3>. QED BY <1>6, <3>1, <3>2
  <2>. QED BY <2>1, <2>2, <2>3
<1>. QED BY <1>5, <1>7

LEMMA TakeStep ==
  ASSUME ClientTypes, NEW c \in Calls, Fit(c), Take(c)
  PROVE  ClientTypes' /\ Fit(c)' /\ \A b \in Calls \ {c} : Elsewhere(b)
<1>1. /\ call[c] \in CallRecords /\ call[c].step = "answered" /\ call[c].late = FALSE /\ call[c].hop \in {1, 2}
      /\ call[c].result = None /\ call[c].cause = None
      /\ <<c, "command">> \notin heard /\ child[c].state = "none"
  <2>1. call[c] \in CallRecords /\ call[c].step = "answered" /\ child[c] \in ChildRecords
    BY DEF ClientTypes, Take
  <2>. QED BY <2>1, CallFields DEF Fit, Tidy, Reached, Caused, ChildRecords
<1>2. PICK r : call' = [call EXCEPT ![c] = r] /\ Onward(call[c], r)
  BY <1>1, TakenOnward DEF Take
<1>3. /\ timers' = timers \ {c} /\ heard' = heard \ {<<c, "request">>}
      /\ UNCHANGED <<aborted, child, host, signing, pool>>
  BY DEF Take, Cleanup
<1>4. call' \in [Calls -> CallRecords] /\ call'[c] = r /\ \A b \in Calls \ {c} : call'[b] = call[b]
  BY <1>2 DEF ClientTypes, Onward
<1>5. ClientTypes'
  BY <1>3, <1>4 DEF ClientTypes
<1>6. \A b \in Calls \ {c} : Elsewhere(b)
  BY <1>3, <1>4 DEF Elsewhere
<1>7. Fit(c)'
  BY <1>1, <1>2, <1>3, <1>4, StringsDiffer DEF Fit, Tidy, Reached, Caused, Causes, Results, Onward
<1>. QED BY <1>5, <1>6, <1>7

(* The error a caller is told names the timer when it was the timer.         *)
LEMMA CatchStep ==
  ASSUME ClientTypes, NEW c \in Calls, Fit(c), Catch(c)
  PROVE  ClientTypes' /\ Fit(c)' /\ \A b \in Calls \ {c} : Elsewhere(b)
<1>1. /\ call[c] \in CallRecords /\ call[c].step = "failed"
      /\ call[c].late <=> call[c].cause = "timer"
      /\ call[c].cause = "timer" => call[c].kind # "demo"
      /\ <<c, "command">> \notin heard /\ child[c].state = "none"
  <2>1. call[c] \in CallRecords /\ call[c].step = "failed" /\ child[c] \in ChildRecords
    BY DEF ClientTypes, Catch
  <2>. QED BY <2>1, CallFields DEF Fit, Tidy, Reached, Caused, ChildRecords
<1>2. Blame(c) \in Results /\ (Blame(c) = "timeout" <=> call[c].cause = "timer")
  <2>1. CASE call[c].kind = "demo"
    BY <1>1, <2>1 DEF Blame, Results
  <2>2. CASE call[c].kind # "demo" /\ call[c].late
    BY <1>1, <2>2 DEF Blame, Results
  <2>3. CASE call[c].kind # "demo" /\ ~call[c].late
    BY <1>1, <2>3 DEF Blame, Results
  <2>. QED BY <2>1, <2>2, <2>3
<1>3. PICK r \in CallRecords :
        /\ call' = [call EXCEPT ![c] = r]
        /\ r.kind = call[c].kind /\ r.signal = call[c].signal /\ r.cause = call[c].cause
        /\ r.step = "done" /\ r.result = Blame(c) /\ r.late = FALSE
  <2> DEFINE r == Done(call[c], Blame(c))
  <2>1. /\ r \in CallRecords /\ r.kind = call[c].kind /\ r.signal = call[c].signal /\ r.cause = call[c].cause
        /\ r.step = "done" /\ r.result = Blame(c) /\ r.late = FALSE
    BY <1>1, <1>2, DoneRecord
  <2>2. call' = [call EXCEPT ![c] = r]
    BY DEF Catch
  <2> HIDE DEF r
  <2>. QED BY <2>1, <2>2
<1>4. /\ timers' = timers \ {c} /\ heard' = heard \ {<<c, "request">>}
      /\ UNCHANGED <<aborted, child, host, signing, pool>>
  BY DEF Catch, Cleanup
<1>5. call' \in [Calls -> CallRecords] /\ call'[c] = r /\ \A b \in Calls \ {c} : call'[b] = call[b]
  BY <1>3 DEF ClientTypes
<1>6. ClientTypes'
  BY <1>4, <1>5 DEF ClientTypes
<1>7. \A b \in Calls \ {c} : Elsewhere(b)
  BY <1>4, <1>5 DEF Elsewhere
<1>8. Fit(c)'
  BY <1>1, <1>2, <1>3, <1>4, <1>5, StringsDiffer DEF Fit, Tidy, Reached, Caused
<1>. QED BY <1>6, <1>7, <1>8

(* A child is told, or listened for, from the start.                         *)
LEMMA SpawnStep ==
  ASSUME ClientTypes, NEW c \in Calls, Fit(c), Spawn(c)
  PROVE  ClientTypes' /\ Fit(c)' /\ \A b \in Calls \ {c} : Elsewhere(b)
<1>1. /\ call[c] \in CallRecords /\ call[c].step = "spawn"
      /\ call[c].late = FALSE /\ call[c].result = None /\ call[c].cause = None /\ call[c].hop \in {1, 2}
      /\ c \notin timers /\ <<c, "command">> \notin heard /\ <<c, "request">> \notin heard
      /\ Aborted(c) \in BOOLEAN /\ aborted \in BOOLEAN /\ call[c].signal \in BOOLEAN
  <2>1. call[c] \in CallRecords /\ call[c].step = "spawn" /\ aborted \in BOOLEAN
    BY DEF ClientTypes, Spawn
  <2>. QED BY <2>1, CallFields DEF Fit, Tidy, Reached, Caused, Aborted
<1>2. PICK r \in CallRecords :
        /\ call' = [call EXCEPT ![c] = r]
        /\ r.kind = call[c].kind /\ r.signal = call[c].signal /\ r.cause = None /\ r.late = FALSE
        /\ IF Aborted(c) THEN r.step = "done" /\ r.result = "stopped"
           ELSE r.step = "running" /\ r.result = None /\ r.hop = call[c].hop
  <2>1. CASE Aborted(c)
    <3> DEFINE r == Done(call[c], "stopped")
    <3>1. call' = [call EXCEPT ![c] = r]
      BY <2>1 DEF Spawn
    <3>2. "stopped" \in Results
      BY DEF Results
    <3>3. /\ r \in CallRecords /\ r.kind = call[c].kind /\ r.signal = call[c].signal
          /\ r.cause = call[c].cause /\ r.late = FALSE /\ r.step = "done" /\ r.result = "stopped"
      BY <1>1, <3>2, DoneRecord
    <3> HIDE DEF r
    <3>. QED BY <1>1, <2>1, <3>1, <3>3
  <2>2. CASE ~Aborted(c)
    <3>1. [call[c] EXCEPT !.step = "running"] \in CallRecords
      BY <1>1 DEF CallRecords, Steps
    <3>. QED BY <1>1, <2>2, <3>1 DEF Spawn, CallRecords
  <2>. QED BY <2>1, <2>2
<1>3. PICK d \in ChildRecords :
        /\ child' = [child EXCEPT ![c] = d] /\ d.state = "starting"
        /\ d.told <=> Aborted(c)
        /\ d.listening <=> ~Aborted(c)
  <2> DEFINE d == [state |-> "starting", told |-> Aborted(c), listening |-> ~Aborted(c)]
  <2>1. d \in ChildRecords
    BY <1>1 DEF ChildRecords
  <2>2. d.state = "starting" /\ (d.told <=> Aborted(c)) /\ (d.listening <=> ~Aborted(c))
    BY <1>1
  <2>3. child' = [child EXCEPT ![c] = d]
    BY DEF Spawn
  <2> HIDE DEF d
  <2>. QED BY <2>1, <2>2, <2>3
<1>4. /\ heard' = IF call[c].signal /\ ~Aborted(c) THEN heard \cup {<<c, "command">>} ELSE heard
      /\ UNCHANGED <<timers, aborted, host, signing, pool>>
  BY DEF Spawn
<1>5. /\ call' \in [Calls -> CallRecords] /\ call'[c] = r /\ \A b \in Calls \ {c} : call'[b] = call[b]
      /\ child' \in [Calls -> ChildRecords] /\ child'[c] = d /\ \A b \in Calls \ {c} : child'[b] = child[b]
      /\ heard' \subseteq Calls \X {"request", "command"}
  BY <1>2, <1>3, <1>4 DEF ClientTypes
<1>6. ClientTypes'
  BY <1>4, <1>5 DEF ClientTypes
<1>7. \A b \in Calls \ {c} : Elsewhere(b)
  BY <1>4, <1>5 DEF Elsewhere
<1>8. Tidy(c)'
  <2>1. Aborted(c) => <<c, "command">> \notin heard'
    BY <1>1, <1>4
  <2>2. c \notin timers' /\ <<c, "request">> \notin heard'
    BY <1>1, <1>4
  <2>. QED BY <1>1, <1>2, <1>5, <2>1, <2>2, StringsDiffer DEF Tidy, Results
<1>9. Reached(c)'
  BY <1>1, <1>2, <1>3, <1>4, <1>5 DEF Reached, Aborted
<1>10. Caused(c)'
  BY <1>1, <1>2, <1>5, StringsDiffer DEF Caused, Causes
<1>. QED BY <1>6, <1>7, <1>8, <1>9, <1>10 DEF Fit

(* The events of a child, which end the call if it waits for the child.      *)
LEMMA ChildStep ==
  ASSUME ClientTypes, NEW c \in Calls, Fit(c), SpawnFails(c) \/ ChildRuns(c) \/ ChildEnds(c)
  PROVE  ClientTypes' /\ Fit(c)' /\ \A b \in Calls \ {c} : Elsewhere(b)
<1>1. /\ call[c] \in CallRecords /\ child[c] \in ChildRecords /\ child[c].state \in {"starting", "alive"}
      /\ call[c].step \in {"running", "done"}
      /\ <<c, "request">> \notin heard /\ c \notin timers
  <2>1. call[c] \in CallRecords /\ child[c] \in ChildRecords /\ child[c].state \in {"starting", "alive"}
    BY DEF ClientTypes, SpawnFails, ChildRuns, ChildEnds
  <2>. QED BY <2>1 DEF Fit, Tidy, Reached
<1>2. PICK d \in ChildRecords :
        /\ child' = [child EXCEPT ![c] = d] /\ d.told = child[c].told /\ d.listening = child[c].listening
        /\ d.state \in {"alive", "ended"}
        /\ d.state = "alive" => call' = call /\ heard' = heard /\ host' = host
  <2>1. ASSUME NEW state \in {"alive", "ended"}
        PROVE  /\ [child[c] EXCEPT !.state = state] \in ChildRecords
               /\ [child[c] EXCEPT !.state = state].told = child[c].told
               /\ [child[c] EXCEPT !.state = state].listening = child[c].listening
               /\ [child[c] EXCEPT !.state = state].state = state
    BY <1>1 DEF ChildRecords
  <2>2. \E state \in {"alive", "ended"} :
          /\ child' = [child EXCEPT ![c] = [child[c] EXCEPT !.state = state]]
          /\ state = "alive" => call' = call /\ heard' = heard /\ host' = host
    BY DEF SpawnFails, ChildRuns, ChildEnds
  <2>. QED BY <2>1, <2>2
<1>3. PICK r \in CallRecords :
        /\ call' = [call EXCEPT ![c] = r]
        /\ \/ r = call[c] /\ heard' = heard /\ (d.state = "ended" => call[c].step = "done" \/ ~child[c].listening)
           \/ /\ r.kind = call[c].kind /\ r.signal = call[c].signal /\ r.cause = call[c].cause
              /\ r.step = "done" /\ r.result \in {"spawn error", "exit"} /\ r.late = FALSE
              /\ call[c].step = "running" /\ d.state = "ended"
              /\ heard' = heard \ {<<c, "command">>}
  <2>1. ASSUME NEW result \in {"spawn error", "exit"}, Settles(c, result)
        PROVE  \E r \in CallRecords :
                 /\ call' = [call EXCEPT ![c] = r]
                 /\ \/ r = call[c] /\ heard' = heard /\ call[c].step = "done"
                    \/ /\ r.kind = call[c].kind /\ r.signal = call[c].signal /\ r.cause = call[c].cause
                       /\ r.step = "done" /\ r.result = result /\ r.late = FALSE /\ call[c].step = "running"
                       /\ heard' = heard \ {<<c, "command">>}
    <3>1. CASE call[c].step = "running"
      <4> DEFINE r == Done(call[c], result)
      <4>1. result \in Results
        BY DEF Results
      <4>2. /\ r \in CallRecords /\ r.kind = call[c].kind /\ r.signal = call[c].signal
            /\ r.cause = call[c].cause /\ r.late = FALSE /\ r.step = "done" /\ r.result = result
        BY <1>1, <4>1, DoneRecord
      <4>3. call' = [call EXCEPT ![c] = r] /\ heard' = heard \ {<<c, "command">>}
        BY <2>1, <3>1 DEF Settles
      <4> HIDE DEF r
      <4>. QED BY <3>1, <4>2, <4>3
    <3>2. CASE call[c].step = "done"
      BY <1>1, <2>1, <3>2 DEF Settles, ClientTypes
    <3>. QED BY <1>1, <3>1, <3>2
  <2>2. \/ call' = call /\ heard' = heard /\ (d.state = "ended" => ~child[c].listening)
        \/ d.state = "ended" /\ \E result \in {"spawn error", "exit"} : Settles(c, result)
    <3>1. CASE d.state = "alive"
      BY <1>2, <3>1
    <3>2. CASE d.state = "ended"
      <4>1. ~ChildRuns(c)
        BY <1>2, <3>2 DEF ChildRuns, ClientTypes, ChildRecords
      <4>. QED BY <3>2, <4>1 DEF SpawnFails, ChildEnds
    <3>. QED BY <1>2, <3>1, <3>2
  <2>3. CASE call' = call /\ heard' = heard /\ (d.state = "ended" => ~child[c].listening)
    BY <1>1, <2>3 DEF ClientTypes
  <2>4. CASE d.state = "ended" /\ \E result \in {"spawn error", "exit"} : Settles(c, result)
    BY <2>1, <2>4
  <2>. QED BY <2>2, <2>3, <2>4
<1>4. UNCHANGED <<timers, aborted, signing, pool>> /\ host' \in {"up", "down"}
  BY DEF SpawnFails, ChildRuns, ChildEnds, ClientTypes
<1>5. /\ call' \in [Calls -> CallRecords] /\ call'[c] = r /\ \A b \in Calls \ {c} : call'[b] = call[b]
      /\ child' \in [Calls -> ChildRecords] /\ child'[c] = d /\ \A b \in Calls \ {c} : child'[b] = child[b]
      /\ heard' \subseteq Calls \X {"request", "command"}
  BY <1>2, <1>3 DEF ClientTypes
<1>6. ClientTypes'
  BY <1>4, <1>5 DEF ClientTypes
<1>7. \A b \in Calls \ {c} : Elsewhere(b)
  BY <1>3, <1>4, <1>5 DEF Elsewhere
<1>8. Tidy(c)'
  BY <1>1, <1>3, <1>4, <1>5, StringsDiffer DEF Fit, Tidy, Results
<1>9. Reached(c)'
  BY <1>1, <1>2, <1>3, <1>4, <1>5 DEF Fit, Reached
<1>10. Caused(c)'
  BY <1>1, <1>3, <1>5, StringsDiffer DEF Fit, Caused, Causes
<1>. QED BY <1>6, <1>7, <1>8, <1>9, <1>10 DEF Fit

(* What the caller's abort does to one call.                                 *)
Stopped(c) ==
  \/ /\ <<c, "request">> \in heard /\ call[c].step = "sent" /\ child'[c] = child[c]
     /\ call'[c] = [call[c] EXCEPT !.step = "failed", !.cause = "abort"]
  \/ /\ <<c, "command">> \in heard /\ call[c].step = "running"
     /\ call'[c] = Done(call[c], "stopped") /\ child'[c] = [child[c] EXCEPT !.told = TRUE]
  \/ /\ call[c].step = "sent" => <<c, "request">> \notin heard
     /\ <<c, "command">> \notin heard /\ call'[c] = call[c] /\ child'[c] = child[c]

(* Nobody who listens is passed over.                                        *)
LEMMA AbortStep ==
  ASSUME ClientTypes, \A c \in Calls : Fit(c), Abort
  PROVE  ClientTypes' /\ \A c \in Calls : Fit(c)'
<1>1. /\ ~aborted /\ aborted' = TRUE /\ heard' = {} /\ UNCHANGED <<timers, host, signing, pool>>
  BY DEF Abort
<1>2. ASSUME NEW c \in Calls PROVE Stopped(c)
  <2>1. <<c, "command">> \in heard => call[c].step = "running"
    BY DEF Fit, Tidy
  <2>. QED BY <2>1 DEF Abort, Stopped
<1>3. ASSUME NEW c \in Calls PROVE call'[c] \in CallRecords /\ child'[c] \in ChildRecords /\ Fit(c)'
  <2>1. call[c] \in CallRecords /\ child[c] \in ChildRecords /\ Stopped(c) /\ Fit(c)
    BY <1>2 DEF ClientTypes
  <2>2. CASE /\ <<c, "request">> \in heard /\ call[c].step = "sent" /\ child'[c] = child[c]
             /\ call'[c] = [call[c] EXCEPT !.step = "failed", !.cause = "abort"]
    <3>1. call'[c] \in CallRecords
      BY <2>1, <2>2 DEF CallRecords, Steps, Causes
    <3>2. /\ call'[c].kind = call[c].kind /\ call'[c].signal = call[c].signal /\ call'[c].result = call[c].result
          /\ call'[c].hop = call[c].hop /\ call'[c].late = FALSE
          /\ call'[c].step = "failed" /\ call'[c].cause = "abort"
      BY <2>1, <2>2, CallFields DEF CallRecords, Fit, Caused
    <3>3. child[c].state = "none" /\ child'[c] \in ChildRecords
      BY <2>1, <2>2 DEF Fit, Reached, ChildRecords
    <3>4. Tidy(c)'
      BY <1>1, <2>1, <2>2, <3>2 DEF Fit, Tidy
    <3>5. Reached(c)'
      BY <2>2, <3>3 DEF Reached
    <3>6. Caused(c)'
      BY <3>2, StringsDiffer DEF Caused, Causes
    <3>. QED BY <3>1, <3>3, <3>4, <3>5, <3>6 DEF Fit
  <2>3. CASE /\ <<c, "command">> \in heard /\ call[c].step = "running"
             /\ call'[c] = Done(call[c], "stopped") /\ child'[c] = [child[c] EXCEPT !.told = TRUE]
    <3>1. /\ call'[c] \in CallRecords /\ call'[c].kind = call[c].kind /\ call'[c].signal = call[c].signal
          /\ call'[c].cause = call[c].cause /\ call'[c].step = "done" /\ call'[c].result = "stopped"
          /\ call'[c].late = FALSE
      <4>1. "stopped" \in Results
        BY DEF Results
      <4>2. /\ Done(call[c], "stopped") \in CallRecords
            /\ Done(call[c], "stopped").kind = call[c].kind /\ Done(call[c], "stopped").signal = call[c].signal
            /\ Done(call[c], "stopped").cause = call[c].cause /\ Done(call[c], "stopped").step = "done"
            /\ Done(call[c], "stopped").result = "stopped" /\ Done(call[c], "stopped").late = FALSE
        BY <2>1, <4>1, DoneRecord
      <4>. QED BY <2>3, <4>2
    <3>2. /\ child'[c] \in ChildRecords /\ child'[c].state = child[c].state /\ child'[c].told = TRUE
          /\ child'[c].listening = child[c].listening
      BY <2>1, <2>3 DEF ChildRecords
    <3>3. call[c].cause = None /\ c \notin timers
      BY <2>1, <2>3 DEF Fit, Tidy, Caused
    <3>4. Tidy(c)'
      BY <1>1, <3>1, <3>3, StringsDiffer DEF Tidy, Results
    <3>5. Reached(c)'
      BY <1>1, <2>1, <3>1, <3>2 DEF Fit, Reached
    <3>6. Caused(c)'
      BY <3>1, <3>3, StringsDiffer DEF Caused, Causes
    <3>. QED BY <3>1, <3>2, <3>4, <3>5, <3>6 DEF Fit
  <2>4. CASE /\ call[c].step = "sent" => <<c, "request">> \notin heard
             /\ <<c, "command">> \notin heard /\ call'[c] = call[c] /\ child'[c] = child[c]
    <3>1. Tidy(c)'
      BY <1>1, <2>1, <2>4 DEF Fit, Tidy
    <3>2. Reached(c)'
      BY <1>1, <2>1, <2>4 DEF Fit, Reached
    <3>3. Caused(c)'
      BY <2>1, <2>4 DEF Fit, Caused
    <3>. QED BY <2>1, <2>4, <3>1, <3>2, <3>3 DEF Fit
  <2>. QED BY <2>1, <2>2, <2>3, <2>4 DEF Stopped
<1>4. call' \in [Calls -> CallRecords] /\ child' \in [Calls -> ChildRecords]
  <2> DEFINE After(c) == CASE <<c, "request">> \in heard /\ call[c].step = "sent" -> [call[c] EXCEPT !.step = "failed", !.cause = "abort"]
                           [] <<c, "command">> \in heard -> Done(call[c], "stopped")
                           [] OTHER -> call[c]
             Told(c) == IF <<c, "command">> \in heard THEN [child[c] EXCEPT !.told = TRUE] ELSE child[c]
  <2>1. call' = [c \in Calls |-> After(c)] /\ child' = [c \in Calls |-> Told(c)]
    BY Zenon DEF Abort
  <2> HIDE DEF After, Told
  <2>. QED BY <1>3, <2>1
<1>5. ClientTypes'
  BY <1>1, <1>4 DEF ClientTypes
<1>. QED BY <1>3, <1>5

LEMMA CallStep ==
  ASSUME ClientTypes, NEW c \in Calls, Fit(c), ClientStep(c)
  PROVE  ClientTypes' /\ aborted' = aborted /\ Fit(c)' /\ \A b \in Calls \ {c} : Elsewhere(b)
<1>1. aborted' = aborted
  BY DEF ClientStep, Begin, BeginDemo, Serve, Answer, Break, Timeout, Continue, Open, Take, Catch, Spawn,
         SpawnFails, ChildRuns, StdinTaken, StdinFails, ChildEnds
<1>2. CASE \/ \E kind \in {"exchange", "command"}, signal \in BOOLEAN : Begin(c, kind, signal)
           \/ \E hop \in 1 .. 2 : BeginDemo(c, hop)
  BY <1>1, <1>2, BeginStep
<1>3. CASE Serve(c) \/ Answer(c) \/ Break(c) \/ Timeout(c)
  BY <1>1, <1>3, RequestStep
<1>4. CASE Continue(c)
  BY <1>1, <1>4, OpenStep, TakeStep, CatchStep, SpawnStep DEF Continue
<1>5. CASE SpawnFails(c) \/ ChildRuns(c) \/ ChildEnds(c)
  BY <1>1, <1>5, ChildStep
<1>6. CASE StdinTaken(c) \/ StdinFails(c)
  <2>1. UNCHANGED <<call, timers, heard, aborted, child, signing, pool>> /\ host' \in {"up", "down"}
    BY <1>6 DEF StdinTaken, StdinFails, ClientTypes
  <2>2. ClientTypes'
    BY <2>1 DEF ClientTypes
  <2>3. Fit(c)'
    BY <2>1 DEF Fit, Tidy, Reached, Caused
  <2>4. \A b \in Calls : Elsewhere(b)
    BY <2>1 DEF Elsewhere
  <2>. QED BY <2>1, <2>2, <2>3, <2>4
<1>. QED BY <1>2, <1>3, <1>4, <1>5, <1>6 DEF ClientStep

(* Input is written to the children of calls only.                          *)
LEMMA StdinStep ==
  ASSUME stdin \subseteq Calls, ClientNext
  PROVE  stdin' \subseteq Calls
<1>1. ASSUME NEW c \in Calls, ClientStep(c) PROVE stdin' \subseteq Calls
  BY <1>1 DEF ClientStep, Begin, BeginDemo, Serve, Answer, Break, Timeout, Continue, Open, Take, Catch, Spawn, Feeds,
              SpawnFails, ChildRuns, StdinTaken, StdinFails, ChildEnds
<1>2. CASE Abort
  BY <1>2 DEF Abort
<1>. QED BY <1>1, <1>2 DEF ClientNext, ClientStep

LEMMA ClientKept ==
  ASSUME ClientInv, ClientNext
  PROVE  ClientInv'
<1>1. ClientTypes /\ \A c \in Calls : Fit(c)
  BY DEF ClientInv, Fit
<1>2. ClientTypes' /\ \A c \in Calls : Fit(c)'
  <2>1. CASE \E c \in Calls : ClientStep(c)
    <3>1. PICK c \in Calls : ClientStep(c)
      BY <2>1
    <3>2. ClientTypes' /\ aborted' = aborted /\ Fit(c)' /\ \A b \in Calls \ {c} : Elsewhere(b)
      BY <1>1, <3>1, CallStep
    <3>. QED BY <1>1, <3>2, OthersFit
  <2>2. CASE Abort
    BY <1>1, <2>2, AbortStep
  <2>. QED BY <2>1, <2>2 DEF ClientNext, ClientStep
<1>. QED BY <1>2, StdinStep DEF ClientInv, Fit

LEMMA ClientUnchanged ==
  ASSUME ClientInv, UNCHANGED <<clientVars, signing, pool>>
  PROVE  ClientInv'
BY DEF ClientInv, ClientTypes, Tidy, Reached, Caused, Aborted, clientVars

-------------------------------------------------------------------------------
(* The steps of the service                                                  *)

LEMMA VisitFields ==
  ASSUME NEW r \in VisitRecords
  PROVE  /\ r.path \in Paths \cup {None} /\ r.token \in Tokens /\ r.missed \in BOOLEAN
         /\ r.step \in {"none", "arrived", "key", "wait", "handle", "answered"} /\ r.answer \in Answers \cup {None}
         /\ r.token.by \in Keys \cup {"local", None}
BY DEF VisitRecords, Tokens

LEMMA NoneDiffers ==
  /\ None \notin Answers /\ None # "local" /\ None \notin Nat /\ None \notin Keys /\ "local" \notin Keys
  /\ {"missing_token", "token_invalid", "invalid_token", "jwks_fetch_failed"} \subseteq Answers
<1>1. /\ None \notin Answers /\ None # "local" /\ None \notin Nat /\ None \notin Keys /\ "local" \notin Keys
  BY ServiceAssumption
<1>2. {"missing_token", "token_invalid", "invalid_token", "jwks_fetch_failed"} \subseteq Answers
  BY DEF Answers
<1>. QED BY <1>1, <1>2

LEMMA NoVisitRecord == NoToken \in Tokens /\ NoVisit \in VisitRecords
BY 0 \in Nat DEF NoToken, NoVisit, VisitRecords, Tokens

LEMMA ArrivedRecord ==
  ASSUME NEW path \in Paths, NEW token \in Tokens
  PROVE  LET r == [NoVisit EXCEPT !.path = path, !.token = token, !.step = "arrived"] IN
         r \in VisitRecords /\ r.step = "arrived" /\ r.missed = FALSE /\ r.answer = None
<1> DEFINE r == [NoVisit EXCEPT !.path = path, !.token = token, !.step = "arrived"]
<1>1. r \in VisitRecords
  BY NoVisitRecord DEF VisitRecords
<1>2. r.step = "arrived" /\ r.missed = FALSE /\ r.answer = None
  BY DEF NoVisit
<1>. QED BY <1>1, <1>2

LEMMA AnsweredRecord ==
  ASSUME NEW q \in VisitRecords, NEW answer \in Answers
  PROVE  LET r == [NoVisit EXCEPT !.path = q.path, !.step = "answered", !.answer = answer] IN
         r \in VisitRecords /\ r.step = "answered" /\ r.missed = FALSE /\ r.answer = answer
<1> DEFINE r == [NoVisit EXCEPT !.path = q.path, !.step = "answered", !.answer = answer]
<1>1. r \in VisitRecords
  BY NoVisitRecord DEF VisitRecords
<1>2. r.step = "answered" /\ r.missed = FALSE /\ r.answer = answer
  BY DEF NoVisit
<1>. QED BY <1>1, <1>2

LEMMA HandleRecord ==
  ASSUME NEW q \in VisitRecords
  PROVE  /\ [q EXCEPT !.step = "handle"] \in VisitRecords
         /\ [q EXCEPT !.step = "handle"].step = "handle" /\ [q EXCEPT !.step = "handle"].answer = q.answer
         /\ [q EXCEPT !.step = "handle", !.token = NoToken] \in VisitRecords
         /\ [q EXCEPT !.step = "handle", !.token = NoToken].step = "handle"
         /\ [q EXCEPT !.step = "handle", !.token = NoToken].answer = q.answer
         /\ [q EXCEPT !.step = "handle", !.token = NoToken].token = NoToken
BY NoVisitRecord DEF VisitRecords

(* A visitor without a valid token is answered, or goes on with none.        *)
TurnedAway(r, answer) ==
  /\ r \in VisitRecords
  /\ \/ r.step = "answered" /\ r.answer = answer
     \/ r.step = "handle" /\ r.answer = None /\ r.token = NoToken

LEMMA UnknownStep ==
  ASSUME visit \in [Visits -> VisitRecords], NEW v \in Visits, visit[v].answer = None, NEW answer \in Answers
  PROVE  \E r : Unknown(v, answer) = [visit EXCEPT ![v] = r] /\ TurnedAway(r, answer)
<1>1. visit[v] \in VisitRecords
  OBVIOUS
<1>2. CASE visit[v].path = "/"
  <2> DEFINE r == [visit[v] EXCEPT !.step = "handle", !.token = NoToken]
  <2>1. Unknown(v, answer) = [visit EXCEPT ![v] = r]
    BY <1>1, <1>2 DEF Unknown
  <2>2. TurnedAway(r, answer)
    BY <1>1, HandleRecord DEF TurnedAway
  <2> HIDE DEF r
  <2>. QED BY <2>1, <2>2
<1>3. CASE visit[v].path # "/"
  <2> DEFINE r == [NoVisit EXCEPT !.path = visit[v].path, !.step = "answered", !.answer = answer]
  <2>1. Unknown(v, answer) = [visit EXCEPT ![v] = r]
    BY <1>3 DEF Unknown, Answered
  <2>2. TurnedAway(r, answer)
    BY <1>1, AnsweredRecord DEF TurnedAway
  <2> HIDE DEF r
  <2>. QED BY <2>1, <2>2
<1>. QED BY <1>2, <1>3

(* What the steps of a visit other than its look at the key set may do.      *)
Proceeds(v, r) ==
  /\ visit[v].step \in {"none", "arrived", "handle"}
  /\ visit' = [visit EXCEPT ![v] = r] /\ r \in VisitRecords
  /\ r.step \in {"arrived", "key", "handle", "answered"} /\ (r.step = "answered" <=> r.answer # None)
  /\ r.answer \notin {"jwks_fetch_failed", "invalid_token"}
  /\ r.step \in {"arrived", "key"} => r.missed = FALSE
  /\ r.step = "key" => r.token.by \in Keys

LEMMA ArriveStep ==
  ASSUME ServiceInv, NEW v \in Visits, NEW path \in Paths, NEW token \in Tokens,
         Arrives(v, path, token), visit[v].step = "none"
  PROVE  \E r : Proceeds(v, r)
<1> DEFINE r == [NoVisit EXCEPT !.path = path, !.token = token, !.step = "arrived"]
<1>1. r \in VisitRecords /\ r.step = "arrived" /\ r.missed = FALSE /\ r.answer = None
  BY ArrivedRecord
<1>2. visit' = [visit EXCEPT ![v] = r]
  BY DEF Arrives
<1> HIDE DEF r
<1>3. Proceeds(v, r)
  BY <1>1, <1>2, NoneDiffers DEF Proceeds
<1>. QED BY <1>3

LEMMA KeyRecord ==
  ASSUME NEW q \in VisitRecords
  PROVE  /\ [q EXCEPT !.step = "key"] \in VisitRecords
         /\ [q EXCEPT !.step = "key"].step = "key" /\ [q EXCEPT !.step = "key"].answer = q.answer
         /\ [q EXCEPT !.step = "key"].missed = q.missed /\ [q EXCEPT !.step = "key"].token = q.token
BY DEF VisitRecords

LEMMA VisitStep ==
  ASSUME ClientTypes, ServiceInv, NEW v \in Visits,
         \/ \E path \in Paths, token \in pool.tokens : Visit(v, path, token)
         \/ \E c \in Calls : Presents(v, c)
         \/ PreHandle(v) \/ Handle(v)
  PROVE  \E r : Proceeds(v, r)
<1>1. visit[v] \in VisitRecords /\ now \in Nat /\ cookie \in Tokens
  BY DEF ServiceInv, ServiceTypes
<1>2. ASSUME NEW path \in Paths, NEW token \in pool.tokens, Visit(v, path, token) PROVE \E r : Proceeds(v, r)
  <2>1. token \in Tokens
    BY ServiceAssumption DEF ClientTypes
  <2>2. (IF token = NoToken THEN cookie ELSE token) \in Tokens
    BY <1>1, <2>1
  <2>. QED BY <1>2, <2>2, ArriveStep DEF Visit
<1>3. ASSUME NEW c \in Calls, Presents(v, c) PROVE \E r : Proceeds(v, r)
  <2> DEFINE k == call[c].key
             token == IF k = None THEN NoToken ELSE [by |-> k, fits |-> TRUE, until |-> now + Lifetime]
  <2>1. k \in Keys \cup {None}
    BY CallFields DEF ClientTypes
  <2>2. now + Lifetime \in Nat
    BY <1>1, ServiceAssumption
  <2>3. token \in Tokens
    BY <2>1, <2>2, NoVisitRecord DEF Tokens
  <2>4. Arrives(v, "/api/resources", token) /\ visit[v].step = "none"
    BY <1>3 DEF Presents
  <2>5. "/api/resources" \in Paths
    BY DEF Paths
  <2> HIDE DEF token
  <2>. QED BY <2>3, <2>4, <2>5, ArriveStep
<1>4. ASSUME visit[v].step \in {"arrived", "handle"}, NEW answer \in Answers \ {"jwks_fetch_failed", "invalid_token"},
             visit' = Answered(v, answer)
      PROVE  \E r : Proceeds(v, r)
  <2> DEFINE r == [NoVisit EXCEPT !.path = visit[v].path, !.step = "answered", !.answer = answer]
  <2>1. r \in VisitRecords /\ r.step = "answered" /\ r.answer = answer
    BY <1>1, AnsweredRecord
  <2>2. visit' = [visit EXCEPT ![v] = r]
    BY <1>4 DEF Answered
  <2> HIDE DEF r
  <2>10. Proceeds(v, r)
    BY <1>4, <2>1, <2>2, NoneDiffers DEF Proceeds
  <2>. QED BY <2>10
<1>5. visit[v].step \in {"arrived", "handle", "key"} => visit[v].answer = None
  BY <1>1, VisitFields DEF ServiceInv, VisitsFit, VisitFits
<1>6. ASSUME visit[v].step = "arrived", visit' = [visit EXCEPT ![v].step = "handle"]
      PROVE  \E r : Proceeds(v, r)
  <2> DEFINE r == [visit[v] EXCEPT !.step = "handle"]
  <2>1. r \in VisitRecords /\ r.step = "handle" /\ r.answer = None
    BY <1>1, <1>5, <1>6, HandleRecord
  <2>2. visit' = [visit EXCEPT ![v] = r]
    BY <1>6
  <2> HIDE DEF r
  <2>10. Proceeds(v, r)
    BY <1>6, <2>1, <2>2, NoneDiffers DEF Proceeds
  <2>. QED BY <2>10
<1>7. ASSUME visit[v].step = "arrived", NEW answer \in {"missing_token", "token_invalid"}, visit' = Unknown(v, answer)
      PROVE  \E r : Proceeds(v, r)
  <2>1. PICK r : visit' = [visit EXCEPT ![v] = r] /\ TurnedAway(r, answer)
    BY <1>5, <1>7, UnknownStep, NoneDiffers DEF ServiceInv, ServiceTypes
  <2>10. Proceeds(v, r)
    BY <1>7, <2>1, NoneDiffers DEF Proceeds, TurnedAway
  <2>. QED BY <2>10
<1>8. ASSUME visit[v].step = "arrived", visit[v].token.by \in Keys, visit' = [visit EXCEPT ![v].step = "key"]
      PROVE  \E r : Proceeds(v, r)
  <2> DEFINE r == [visit[v] EXCEPT !.step = "key"]
  <2>1. ~visit[v].missed /\ visit[v].missed \in BOOLEAN
    BY <1>1, <1>8, VisitFields DEF ServiceInv, VisitsFit, VisitFits
  <2>2. r \in VisitRecords /\ r.step = "key" /\ r.answer = None /\ r.missed = FALSE /\ r.token = visit[v].token
    BY <1>1, <1>5, <1>8, <2>1, KeyRecord
  <2>3. visit' = [visit EXCEPT ![v] = r]
    BY <1>8
  <2> HIDE DEF r
  <2>10. Proceeds(v, r)
    BY <1>8, <2>2, <2>3, NoneDiffers DEF Proceeds
  <2>. QED BY <2>10
<1>9. CASE PreHandle(v)
  <2>1. CASE visit[v].path = "/login"
    BY <1>6, <1>9, <2>1 DEF PreHandle
  <2>2. CASE visit[v].path # "/login" /\ visit[v].token.by = None
    BY <1>7, <1>9, <2>2, NoneDiffers DEF PreHandle
  <2>3. CASE visit[v].path # "/login" /\ visit[v].token.by = "local"
    <3>1. visit[v].token.by # None
      BY <2>3, NoneDiffers
    <3>. QED BY <1>6, <1>7, <1>9, <2>3, <3>1 DEF PreHandle
  <2>4. CASE visit[v].path # "/login" /\ visit[v].token.by \notin {"local", None}
    <3>1. visit[v].token.by \in Keys
      BY <1>1, <2>4, VisitFields
    <3>. QED BY <1>8, <1>9, <2>4, <3>1 DEF PreHandle
  <2>. QED BY <2>1, <2>2, <2>3, <2>4
<1>10. CASE Handle(v)
  <2>1. \E answer \in {"to login", "page", "data", "signed in"} : visit' = Answered(v, answer)
    BY <1>10 DEF Handle
  <2>. QED BY <1>4, <1>10, <2>1 DEF Handle, Answers
<1>. QED BY <1>2, <1>3, <1>9, <1>10

(* What a look at the key set comes to.                                      *)
Looks(v, r) ==
  /\ visit[v].step = "key" /\ visit' = [visit EXCEPT ![v] = r] /\ r \in VisitRecords
  /\ \/ /\ NeedsFetch(v)
        /\ r.step = "wait" /\ r.missed = TRUE /\ r.answer = None /\ r.token = visit[v].token
        /\ fetching' = IF fetching = NoFetch THEN [step |-> "sent", keys |-> {}, since |-> now] ELSE fetching
     \/ /\ ~NeedsFetch(v) /\ fetching' = fetching
        /\ \/ visit[v].token.by \in jwks.keys /\ r.step = "handle" /\ r.answer = None
           \/ ~(visit[v].token.by \in jwks.keys /\ Fits(visit[v].token)) /\ TurnedAway(r, "invalid_token")

LEMMA VerifyStep ==
  ASSUME ServiceInv, NEW v \in Visits, Verify(v)
  PROVE  \E r : Looks(v, r)
<1>1. visit \in [Visits -> VisitRecords] /\ visit[v] \in VisitRecords /\ visit[v].step = "key" /\ visit[v].answer = None
  <2>1. visit \in [Visits -> VisitRecords] /\ visit[v] \in VisitRecords /\ visit[v].step = "key"
    BY DEF ServiceInv, ServiceTypes, Verify
  <2>. QED BY <2>1, VisitFields DEF ServiceInv, VisitsFit, VisitFits
<1>2. CASE NeedsFetch(v)
  <2> DEFINE r == [visit[v] EXCEPT !.step = "wait", !.missed = TRUE]
  <2>1. /\ r \in VisitRecords
        /\ r.step = "wait" /\ r.missed = TRUE /\ r.answer = visit[v].answer /\ r.token = visit[v].token
    BY <1>1 DEF VisitRecords
  <2>2. /\ visit' = [visit EXCEPT ![v] = r]
        /\ fetching' = IF fetching = NoFetch THEN [step |-> "sent", keys |-> {}, since |-> now] ELSE fetching
    BY <1>1, <1>2 DEF Verify
  <2> HIDE DEF r
  <2>3. Looks(v, r)
    BY <1>1, <1>2, <2>1, <2>2 DEF Looks
  <2>. QED BY <2>3
<1>3. CASE ~NeedsFetch(v) /\ visit[v].token.by \in jwks.keys /\ Fits(visit[v].token)
  <2> DEFINE r == [visit[v] EXCEPT !.step = "handle"]
  <2>1. r \in VisitRecords /\ r.step = "handle" /\ r.answer = None
    BY <1>1, HandleRecord
  <2>2. visit' = [visit EXCEPT ![v] = r] /\ fetching' = fetching
    BY <1>1, <1>3 DEF Verify
  <2> HIDE DEF r
  <2>3. Looks(v, r)
    BY <1>1, <1>3, <2>1, <2>2 DEF Looks
  <2>. QED BY <2>3
<1>4. CASE ~NeedsFetch(v) /\ ~(visit[v].token.by \in jwks.keys /\ Fits(visit[v].token))
  <2>1. visit' = Unknown(v, "invalid_token") /\ fetching' = fetching
    BY <1>4 DEF Verify
  <2>2. PICK r : visit' = [visit EXCEPT ![v] = r] /\ TurnedAway(r, "invalid_token")
    BY <1>1, <2>1, UnknownStep, NoneDiffers
  <2>3. Looks(v, r)
    BY <1>1, <1>4, <2>1, <2>2 DEF Looks, TurnedAway
  <2>. QED BY <2>3
<1>. QED BY <1>2, <1>3, <1>4

(* The end of a fetch, for those who wait for it and for the others.         *)
LEMMA ArrivesStep ==
  ASSUME ServiceInv, FetchArrives
  PROVE  /\ visit' \in [Visits -> VisitRecords]
         /\ \A v \in Visits :
              \/ visit[v].step # "wait" /\ visit'[v] = visit[v]
              \/ /\ visit[v].step = "wait" /\ visit'[v].step = "key" /\ visit'[v].answer = visit[v].answer
                 /\ visit'[v].missed = visit[v].missed /\ visit'[v].token = visit[v].token
<1>1. ASSUME NEW v \in Visits
      PROVE  /\ visit'[v] \in VisitRecords
             /\ \/ visit[v].step # "wait" /\ visit'[v] = visit[v]
                \/ /\ visit[v].step = "wait" /\ visit'[v].step = "key" /\ visit'[v].answer = visit[v].answer
                   /\ visit'[v].missed = visit[v].missed /\ visit'[v].token = visit[v].token
  <2>1. visit[v] \in VisitRecords
    BY DEF ServiceInv, ServiceTypes
  <2>2. CASE visit[v].step = "wait"
    <3>1. visit'[v] = [visit[v] EXCEPT !.step = "key"]
      BY <2>2 DEF FetchArrives
    <3>. QED BY <2>1, <2>2, <3>1, KeyRecord
  <2>3. CASE visit[v].step # "wait"
    BY <2>1, <2>3 DEF FetchArrives
  <2>. QED BY <2>2, <2>3
<1>2. visit' = [v \in Visits |-> IF visit[v].step = "wait" THEN [visit[v] EXCEPT !.step = "key"] ELSE visit[v]]
  BY DEF FetchArrives
<1>3. visit' \in [Visits -> VisitRecords]
  <2> DEFINE After(v) == IF visit[v].step = "wait" THEN [visit[v] EXCEPT !.step = "key"] ELSE visit[v]
  <2>1. visit' = [v \in Visits |-> After(v)]
    BY <1>2
  <2> HIDE DEF After
  <2>. QED BY <1>1, <2>1
<1>. QED BY <1>1, <1>3

LEMMA FailsStep ==
  ASSUME ServiceInv, NEW answer \in {"jwks_fetch_failed", "invalid_token"}, visit' = Refused(answer)
  PROVE  /\ visit' \in [Visits -> VisitRecords]
         /\ \A v \in Visits :
              \/ visit[v].step # "wait" /\ visit'[v] = visit[v]
              \/ visit[v].step = "wait" /\ TurnedAway(visit'[v], answer)
<1>1. ASSUME NEW v \in Visits
      PROVE  /\ visit'[v] \in VisitRecords
             /\ \/ visit[v].step # "wait" /\ visit'[v] = visit[v]
                \/ visit[v].step = "wait" /\ TurnedAway(visit'[v], answer)
  <2>1. visit \in [Visits -> VisitRecords] /\ visit[v] \in VisitRecords
    BY DEF ServiceInv, ServiceTypes
  <2>2. CASE visit[v].step = "wait"
    <3>1. visit'[v] = Unknown(v, answer)[v]
      BY <2>2 DEF Refused
    <3>2. visit[v].answer = None
      BY <2>1, <2>2, VisitFields DEF ServiceInv, VisitsFit, VisitFits
    <3>3. PICK r : Unknown(v, answer) = [visit EXCEPT ![v] = r] /\ TurnedAway(r, answer)
      BY <2>1, <3>2, UnknownStep, NoneDiffers
    <3>. QED BY <2>1, <2>2, <3>1, <3>3 DEF TurnedAway
  <2>3. CASE visit[v].step # "wait"
    BY <2>1, <2>3 DEF Refused
  <2>. QED BY <2>2, <2>3
<1>2. visit' \in [Visits -> VisitRecords]
  <2> DEFINE After(v) == IF visit[v].step = "wait" THEN Unknown(v, answer)[v] ELSE visit[v]
  <2>1. visit' = [v \in Visits |-> After(v)]
    BY DEF Refused
  <2> HIDE DEF After
  <2>. QED BY <1>1, <2>1
<1>. QED BY <1>1, <1>2

(* The two ways a fetch comes to nothing.                                    *)
FetchIsLost(answer) ==
  /\ answer \in {"jwks_fetch_failed", "invalid_token"} /\ visit' = Refused(answer)
  /\ fetching # NoFetch /\ fetching' = NoFetch /\ UNCHANGED <<jwks, now>>
  /\ answer = "invalid_token" => fetching.step = "body"

LEMMA Lost == FetchFails \/ BodyFails => \E answer : FetchIsLost(answer)
<1>1. NoFetch.step = "none"
  BY DEF NoFetch
<1>2. FetchFails => FetchIsLost("jwks_fetch_failed")
  BY <1>1 DEF FetchFails, FetchIsLost
<1>3. BodyFails => FetchIsLost("invalid_token")
  BY <1>1 DEF BodyFails, FetchIsLost
<1>. QED BY <1>2, <1>3

(* How the fetch and the key set move.                                       *)
Quiet == UNCHANGED <<jwks, fetching, published, signing, left, now>>

LEMMA FetchFields ==
  ASSUME ServiceTypes
  PROVE  /\ fetching.step \in {"none", "sent", "read", "body"} /\ fetching.keys \subseteq Keys /\ fetching.since \in Nat
         /\ jwks.keys \subseteq Keys /\ jwks.at \in Nat /\ jwks.had \in BOOLEAN
         /\ now \in Nat /\ FetchTime \in Nat /\ CacheMaxAge \in Nat /\ Cooldown \in Nat /\ Cooldown > 0
         /\ fetching.step = "none" <=> fetching = NoFetch
         /\ NoFetch \in [step : {"none", "sent", "read", "body"}, keys : SUBSET Keys, since : Nat]
         /\ NoFetch.keys = {} /\ NoFetch.step = "none"
<1>1. fetching.step = "none" <=> fetching = NoFetch
  BY DEF ServiceTypes, NoFetch
<1>2. FetchTime \in Nat /\ CacheMaxAge \in Nat /\ Cooldown \in Nat /\ Cooldown > 0
  BY ServiceAssumption
<1>3. NoFetch \in [step : {"none", "sent", "read", "body"}, keys : SUBSET Keys, since : Nat]
  BY 0 \in Nat DEF NoFetch
<1>4. NoFetch.keys = {} /\ NoFetch.step = "none"
  BY DEF NoFetch
<1>. QED BY <1>1, <1>2, <1>3, <1>4 DEF ServiceTypes

LEMMA RecentVerify ==
  ASSUME ServiceTypes, SetIsRecent, NEW v \in Visits, NEW r, Looks(v, r),
         UNCHANGED <<jwks, published, signing, left, cookie, now>>
  PROVE  ServiceTypes' /\ SetIsRecent'
<1>1. visit' \in [Visits -> VisitRecords]
  BY DEF Looks, ServiceTypes
<1>2. CASE fetching' = fetching
  <2>1. ServiceTypes'
    BY <1>1, <1>2 DEF ServiceTypes
  <2>2. SetIsRecent'
    BY <1>2 DEF SetIsRecent, Published
  <2>. QED BY <2>1, <2>2
<1>3. CASE fetching' = [step |-> "sent", keys |-> {}, since |-> now]
  <2>1. /\ fetching' \in [step : {"none", "sent", "read", "body"}, keys : SUBSET Keys, since : Nat]
        /\ fetching'.step = "sent" /\ fetching'.keys = {} /\ fetching'.since = now
    BY <1>3 DEF ServiceTypes
  <2>2. ServiceTypes'
    BY <1>1, <2>1 DEF ServiceTypes
  <2>3. now <= now + FetchTime
    BY FetchFields
  <2>4. SetIsRecent'
    BY <2>1, <2>3, FetchFields DEF SetIsRecent
  <2>. QED BY <2>2, <2>4
<1>. QED BY <1>2, <1>3 DEF Looks

LEMMA RecentFetch ==
  ASSUME ServiceInv, FetchRead \/ FetchResolves \/ FetchArrives \/ FetchFails \/ BodyFails
  PROVE  ServiceTypes' /\ SetIsRecent'
<1>1. ServiceTypes /\ SetIsRecent /\ UNCHANGED <<published, signing, left, cookie, now>>
  BY DEF ServiceInv, FetchRead, FetchResolves, FetchArrives, FetchFails, BodyFails
<1>2. CASE FetchRead
  <2>1. /\ fetching' \in [step : {"none", "sent", "read", "body"}, keys : SUBSET Keys, since : Nat]
        /\ fetching'.step = "read" /\ fetching'.keys = published /\ fetching'.since = fetching.since
        /\ jwks' = jwks /\ visit' = visit /\ fetching.step = "sent"
    BY <1>1, <1>2 DEF FetchRead, ServiceTypes
  <2>2. ServiceTypes'
    BY <1>1, <2>1 DEF ServiceTypes
  <2>3. SetIsRecent'
    BY <1>1, <2>1, FetchFields DEF SetIsRecent, Published
  <2>. QED BY <2>2, <2>3
<1>3. CASE FetchArrives
  <2>1. /\ jwks' \in [keys : SUBSET Keys, at : Nat, had : BOOLEAN]
        /\ jwks'.keys = fetching.keys /\ jwks'.at = now /\ fetching' = NoFetch /\ fetching # NoFetch
    BY <1>1, <1>3, FetchFields DEF FetchArrives
  <2>2. ServiceTypes'
    BY <1>1, <1>3, <2>1, ArrivesStep, FetchFields DEF ServiceTypes
  <2>3. \A k \in jwks'.keys : k \in published \/ (left[k] \in Nat /\ now <= left[k] + FetchTime)
    BY <1>1, <2>1, FetchFields DEF SetIsRecent, Published
  <2>4. SetIsRecent'
    BY <1>1, <2>1, <2>3, FetchFields DEF SetIsRecent
  <2>. QED BY <2>2, <2>4
<1>4. CASE FetchFails \/ BodyFails
  <2>0. PICK answer : FetchIsLost(answer)
    BY <1>4, Lost
  <2>1. fetching' = NoFetch /\ jwks' = jwks /\ visit' \in [Visits -> VisitRecords]
    BY <2>0, FailsStep DEF FetchIsLost
  <2>2. ServiceTypes'
    BY <1>1, <2>1, FetchFields DEF ServiceTypes
  <2>3. SetIsRecent'
    BY <1>1, <2>1, FetchFields DEF SetIsRecent
  <2>. QED BY <2>2, <2>3
<1>5. CASE FetchResolves
  <2>1. /\ fetching' \in [step : {"none", "sent", "read", "body"}, keys : SUBSET Keys, since : Nat]
        /\ fetching'.step = "body" /\ fetching'.keys = fetching.keys /\ fetching'.since = fetching.since
        /\ jwks' = jwks /\ visit' = visit /\ fetching.step = "read"
    BY <1>1, <1>5 DEF FetchResolves, ServiceTypes
  <2>2. ServiceTypes'
    BY <1>1, <2>1 DEF ServiceTypes
  <2>3. SetIsRecent'
    BY <1>1, <2>1, FetchFields DEF SetIsRecent, Published
  <2>. QED BY <2>2, <2>3
<1>. QED BY <1>2, <1>3, <1>4, <1>5

LEMMA RecentKeys ==
  ASSUME ClientTypes, ServiceInv, (\E k \in Keys : Rotate(k) \/ Retire(k)) \/ Tick
  PROVE  ServiceTypes' /\ SetIsRecent'
<1>1. ServiceTypes /\ SetIsRecent /\ UNCHANGED <<visit, jwks, fetching, cookie>>
  BY DEF ServiceInv, Rotate, Retire, Tick
<1>2. ASSUME NEW k \in Keys, Rotate(k) PROVE ServiceTypes' /\ SetIsRecent'
  <2>1. /\ left[k] = None /\ signing' = k /\ published' = published \cup {k} /\ left' = left /\ now' = now
    BY <1>2 DEF Rotate
  <2>. QED BY <1>1, <2>1 DEF ServiceTypes, SetIsRecent, Published
<1>3. ASSUME NEW k \in Keys, Retire(k) PROVE ServiceTypes' /\ SetIsRecent'
  <2>1. /\ k \in published \ {signing} /\ published' = published \ {k} /\ left' = [left EXCEPT ![k] = now]
        /\ signing' = signing /\ now' = now
    BY <1>3 DEF Retire
  <2>2. /\ left' \in [Keys -> Nat \cup {None}] /\ left'[k] = now /\ \A j \in Keys \ {k} : left'[j] = left[j]
    BY <1>1, <2>1, FetchFields DEF ServiceTypes
  <2>3. ServiceTypes'
    BY <1>1, <2>1, <2>2 DEF ServiceTypes
  <2>4. \A j \in jwks.keys : j \in published' \/ (left'[j] \in Nat /\ jwks.at <= left'[j] + FetchTime)
    <3>. SUFFICES ASSUME NEW j \in jwks.keys PROVE j \in published' \/ (left'[j] \in Nat /\ jwks.at <= left'[j] + FetchTime)
      OBVIOUS
    <3>1. CASE j = k
      BY <1>1, <2>2, <3>1, FetchFields DEF SetIsRecent
    <3>2. CASE j # k
      BY <1>1, <2>1, <2>2, <3>2, FetchFields DEF SetIsRecent
    <3>. QED BY <3>1, <3>2
  <2>5. \A j \in fetching.keys : Published(j, fetching.since)'
    <3>. SUFFICES ASSUME NEW j \in fetching.keys PROVE j \in published' \/ (left'[j] \in Nat /\ fetching.since <= left'[j])
      BY <1>1 DEF Published
    <3>1. CASE j = k
      BY <1>1, <2>2, <3>1, FetchFields DEF SetIsRecent
    <3>2. CASE j # k
      BY <1>1, <2>1, <2>2, <3>2, FetchFields DEF SetIsRecent, Published
    <3>. QED BY <3>1, <3>2
  <2>6. \A j \in published' : left'[j] = None
    BY <1>1, <2>1, <2>2 DEF SetIsRecent, ServiceTypes
  <2>. QED BY <1>1, <2>1, <2>3, <2>4, <2>5, <2>6 DEF SetIsRecent
<1>4. CASE Tick
  <2>1. /\ now' = now + 1 /\ UNCHANGED <<published, signing, left>>
        /\ fetching # NoFetch => now < fetching.since + FetchTime
    BY <1>4 DEF Tick
  <2>2. ServiceTypes'
    BY <1>1, <2>1 DEF ServiceTypes
  <2>3. SetIsRecent'
    BY <1>1, <2>1, FetchFields DEF SetIsRecent, Published
  <2>. QED BY <2>2, <2>3
<1>. QED BY <1>2, <1>3, <1>4

(* Whoever waits needs the fetch, and whoever has missed looks at a set of   *)
(* this very moment.                                                         *)
LEMMA FitsVisit ==
  ASSUME ServiceInv, NEW v \in Visits, NEW r, Proceeds(v, r), UNCHANGED <<jwks, fetching, now>>
  PROVE  VisitsFit'
<1>. SUFFICES ASSUME NEW u \in Visits PROVE VisitFits(u)'
  BY DEF VisitsFit
<1>1. VisitFits(u) /\ visit' \in [Visits -> VisitRecords] /\ (Fresh' <=> Fresh)
  BY DEF ServiceInv, ServiceTypes, VisitsFit, Proceeds, Fresh
<1>2. CASE u = v
  <2>1. visit'[u] = r
    BY <1>2 DEF Proceeds, ServiceInv, ServiceTypes
  <2>. QED BY <2>1 DEF VisitFits, Proceeds
<1>3. CASE u # v
  <2>1. visit'[u] = visit[u]
    BY <1>3 DEF Proceeds, ServiceInv, ServiceTypes
  <2>. QED BY <1>1, <2>1 DEF VisitFits
<1>. QED BY <1>2, <1>3

LEMMA FitsVerify ==
  ASSUME ServiceInv, NEW v \in Visits, NEW r, Looks(v, r), UNCHANGED <<jwks, now>>
  PROVE  VisitsFit'
<1>. SUFFICES ASSUME NEW u \in Visits PROVE VisitFits(u)'
  BY DEF VisitsFit
<1>1. VisitFits(u) /\ VisitFits(v) /\ (Fresh' <=> Fresh) /\ ServiceTypes
  BY DEF ServiceInv, VisitsFit, Fresh
<1>2. fetching'.step = fetching.step \/ fetching'.step # "none"
  BY DEF Looks
<1>3. CASE u = v
  <2>1. visit'[u] = r
    BY <1>1, <1>3 DEF Looks, ServiceTypes
  <2>2. CASE NeedsFetch(v)
    <3>1. /\ r.step = "wait" /\ r.missed = TRUE /\ r.answer = None /\ r.token = visit[v].token
          /\ fetching' = IF fetching = NoFetch THEN [step |-> "sent", keys |-> {}, since |-> now] ELSE fetching
      BY <2>2 DEF Looks
    <3>2. fetching'.step # "none"
      BY <1>1, <3>1, FetchFields
    <3>3. ~(Fresh /\ visit[v].token.by \in jwks.keys) /\ visit[v].token.by \in Keys
      BY <1>1, <2>2 DEF NeedsFetch, VisitFits, Looks
    <3>. QED BY <1>1, <1>3, <2>1, <3>1, <3>2, <3>3 DEF VisitFits
  <2>3. CASE ~NeedsFetch(v)
    BY <2>1, <2>3, NoneDiffers DEF VisitFits, Looks, TurnedAway
  <2>. QED BY <2>2, <2>3
<1>4. CASE u # v
  <2>1. visit'[u] = visit[u]
    BY <1>1, <1>4 DEF Looks, ServiceTypes
  <2>. QED BY <1>1, <1>2, <2>1 DEF VisitFits
<1>. QED BY <1>3, <1>4

LEMMA FitsFetch ==
  ASSUME ServiceInv, FetchRead \/ FetchResolves \/ FetchArrives \/ FetchFails \/ BodyFails
  PROVE  VisitsFit'
<1>. SUFFICES ASSUME NEW u \in Visits PROVE VisitFits(u)'
  BY DEF VisitsFit
<1>1. VisitFits(u) /\ ServiceTypes
  BY DEF ServiceInv, VisitsFit
<1>2. CASE FetchRead \/ FetchResolves
  <2>1. visit' = visit /\ jwks' = jwks /\ now' = now /\ fetching'.step # "none" /\ (Fresh' <=> Fresh)
    BY <1>1, <1>2 DEF FetchRead, FetchResolves, ServiceTypes, Fresh
  <2>. QED BY <1>1, <2>1 DEF VisitFits
<1>3. CASE FetchArrives
  <2>1. jwks'.had = TRUE /\ jwks'.at = now /\ now' = now
    BY <1>3 DEF FetchArrives
  <2>2. \/ visit[u].step # "wait" /\ visit'[u] = visit[u]
        \/ /\ visit[u].step = "wait" /\ visit'[u].step = "key" /\ visit'[u].answer = visit[u].answer
           /\ visit'[u].missed = visit[u].missed /\ visit'[u].token = visit[u].token
    BY <1>3, ArrivesStep
  <2>. QED BY <1>1, <2>1, <2>2 DEF VisitFits
<1>4. CASE FetchFails \/ BodyFails
  <2>1. PICK answer : FetchIsLost(answer)
    BY <1>4, Lost
  <2>2. (visit[u].step # "wait" /\ visit'[u] = visit[u]) \/ TurnedAway(visit'[u], answer)
    BY <2>1, FailsStep DEF FetchIsLost
  <2>3. answer \in Answers /\ answer # None /\ jwks' = jwks /\ now' = now
    BY <2>1, NoneDiffers DEF FetchIsLost
  <2>. QED BY <1>1, <2>2, <2>3, NoneDiffers DEF VisitFits, TurnedAway
<1>. QED BY <1>2, <1>3, <1>4

LEMMA FitsTime ==
  ASSUME ServiceInv, (UNCHANGED now \/ Tick), UNCHANGED <<visit, jwks, fetching>>
  PROVE  VisitsFit'
<1>. SUFFICES ASSUME NEW u \in Visits PROVE VisitFits(u)'
  BY DEF VisitsFit
<1>1. VisitFits(u) /\ ServiceTypes
  BY DEF ServiceInv, VisitsFit
<1>2. CASE UNCHANGED now
  BY <1>1, <1>2 DEF VisitFits, Fresh
<1>3. CASE Tick
  <2>1. visit[u].step # "key" /\ now' = now + 1
    BY <1>3 DEF Tick
  <2>2. Fresh' => Fresh
    BY <1>1, <2>1, FetchFields DEF Fresh
  <2>. QED BY <1>1, <2>1, <2>2 DEF VisitFits
<1>. QED BY <1>2, <1>3

-------------------------------------------------------------------------------
LEMMA ServiceKept ==
  ASSUME ClientTypes, ServiceInv, ServiceNext
  PROVE  ServiceInv'
<1>1. ServiceTypes /\ SetIsRecent /\ VisitsFit
  BY DEF ServiceInv
<1>2. ASSUME NEW v \in Visits,
             \/ \E path \in Paths, token \in pool.tokens : Visit(v, path, token)
             \/ \E c \in Calls : Presents(v, c)
             \/ PreHandle(v) \/ Handle(v)
      PROVE  ServiceInv'
  <2>1. PICK r : Proceeds(v, r)
    BY <1>2, VisitStep
  <2>2. UNCHANGED <<signing, jwks, fetching, published, left, now>>
    BY <1>2 DEF Visit, Presents, PreHandle, Handle
  <2>3. cookie' \in Tokens /\ cookie'.by \in {"local", None}
    <3>1. CASE cookie' = cookie
      BY <1>1, <3>1 DEF ServiceTypes
    <3>2. CASE cookie' = Local
      <4>1. now + Lifetime \in Nat
        BY <1>1, ServiceAssumption DEF ServiceTypes
      <4>. QED BY <3>2, <4>1 DEF Local, Tokens
    <3>. QED BY <1>2, <3>1, <3>2 DEF Visit, Presents, PreHandle, Handle
  <2>4. ServiceTypes'
    BY <1>1, <2>1, <2>2, <2>3 DEF ServiceTypes, Proceeds
  <2>5. SetIsRecent'
    BY <1>1, <2>2 DEF SetIsRecent, Published
  <2>. QED BY <2>1, <2>2, <2>4, <2>5, FitsVisit DEF ServiceInv
<1>3. ASSUME NEW v \in Visits, Verify(v) PROVE ServiceInv'
  <2>1. PICK r : Looks(v, r)
    BY <1>3, VerifyStep
  <2>2. UNCHANGED <<jwks, published, signing, left, cookie, now>>
    BY <1>3 DEF Verify
  <2>. QED BY <1>1, <2>1, <2>2, RecentVerify, FitsVerify DEF ServiceInv
<1>4. CASE FetchRead \/ FetchResolves \/ FetchArrives \/ FetchFails \/ BodyFails
  BY <1>4, RecentFetch, FitsFetch DEF ServiceInv
<1>5. CASE Logout
  <2>1. UNCHANGED <<signing, visit, jwks, fetching, published, left, now>> /\ cookie' = NoToken
    BY <1>5 DEF Logout
  <2>2. ServiceTypes'
    BY <1>1, <2>1, NoVisitRecord DEF ServiceTypes, NoToken
  <2>3. SetIsRecent'
    BY <1>1, <2>1 DEF SetIsRecent, Published
  <2>. QED BY <2>1, <2>2, <2>3, FitsTime DEF ServiceInv
<1>6. CASE (\E k \in Keys : Rotate(k) \/ Retire(k)) \/ Tick
  <2>1. (UNCHANGED now \/ Tick) /\ UNCHANGED <<visit, jwks, fetching>>
    BY <1>6 DEF Rotate, Retire, Tick
  <2>. QED BY <1>6, <2>1, RecentKeys, FitsTime DEF ServiceInv
<1>. QED BY <1>2, <1>3, <1>4, <1>5, <1>6 DEF ServiceNext

LEMMA ServiceUnchanged ==
  ASSUME ServiceInv, UNCHANGED <<signing, serviceVars>>
  PROVE  ServiceInv'
<1>1. UNCHANGED <<signing, visit, jwks, fetching, published, left, cookie, now>>
  BY DEF serviceVars
<1>2. ServiceTypes' /\ SetIsRecent'
  BY <1>1 DEF ServiceInv, ServiceTypes, SetIsRecent, Published
<1>. QED BY <1>1, <1>2, FitsTime DEF ServiceInv

(* Nothing of the client moves in the service, and the other way round.      *)
LEMMA Apart ==
  /\ ServiceNext => UNCHANGED <<clientVars, pool>> /\ (signing' = signing \/ \E k \in Keys : Rotate(k))
  /\ ClientNext => UNCHANGED <<signing, pool>>
<1>1. ServiceNext => UNCHANGED <<clientVars, pool>> /\ (signing' = signing \/ \E k \in Keys : Rotate(k))
  BY DEF ServiceNext, Visit, Presents, PreHandle, Handle, Verify, FetchRead, FetchResolves, FetchArrives, FetchFails, BodyFails, Logout,
         Rotate, Retire, Tick
<1>2. ClientNext => UNCHANGED <<signing, pool>>
  BY DEF ClientNext, Begin, BeginDemo, Serve, Answer, Break, Timeout, Continue, Open, Take, Catch, Spawn,
         SpawnFails, ChildRuns, StdinTaken, StdinFails, ChildEnds, Abort
<1>. QED BY <1>1, <1>2

LEMMA InvInit == Init => Inv
<1>. SUFFICES ASSUME Init PROVE Inv
  OBVIOUS
<1>1. ClientInv
  <2>1. call = [c \in Calls |-> Idle] /\ child = [c \in Calls |-> NoChild] /\ timers = {} /\ heard = {}
        /\ aborted = FALSE /\ stdin = {} /\ host = "up" /\ pool \in Pools /\ signing \in Keys
    BY ClientAssumption DEF Init, ClientInit
  <2>2. NoChild \in ChildRecords
    BY DEF NoChild, ChildRecords
  <2>3. ClientTypes
    BY <2>1, <2>2, IdleRecord DEF ClientTypes
  <2>4. \A c \in Calls : Tidy(c) /\ Reached(c) /\ Caused(c)
    BY <2>1 DEF Tidy, Reached, Caused, Idle, NoChild
  <2>. QED BY <2>1, <2>3, <2>4 DEF ClientInv
<1>2. ServiceInv
  <2>1. /\ visit = [v \in Visits |-> NoVisit] /\ jwks = NoSet /\ fetching = NoFetch
        /\ published = {signing} /\ left = [k \in Keys |-> None] /\ cookie = NoToken /\ now = 0 /\ signing \in Keys
    BY ClientAssumption DEF Init, ClientInit
  <2>2. jwks \in [keys : SUBSET Keys, at : Nat, had : BOOLEAN] /\ fetching \in [step : {"none", "sent", "read", "body"}, keys : SUBSET Keys, since : Nat]
    BY <2>1, 0 \in Nat DEF NoSet, NoFetch
  <2>3. ServiceTypes
    BY <2>1, <2>2, NoVisitRecord DEF ServiceTypes, NoToken
  <2>4. SetIsRecent
    BY <2>1, <2>3 DEF SetIsRecent, NoSet, NoFetch
  <2>5. VisitsFit
    BY <2>1 DEF VisitsFit, VisitFits, NoVisit
  <2>. QED BY <2>3, <2>4, <2>5 DEF ServiceInv
<1>. QED BY <1>1, <1>2 DEF Inv

LEMMA InvKept == Inv /\ [Next]_vars => Inv'
<1>. SUFFICES ASSUME Inv, [Next]_vars PROVE Inv'
  OBVIOUS
<1>1. ClientInv /\ ClientTypes /\ ServiceInv
  BY DEF Inv, ClientInv
<1>2. CASE ServiceNext
  <2>1. ServiceInv' /\ UNCHANGED <<clientVars, pool>>
    BY <1>1, <1>2, ServiceKept, Apart
  <2>2. signing' \in Keys
    BY <2>1 DEF ServiceInv, ServiceTypes
  <2>3. ClientInv'
    BY <1>1, <2>1, <2>2 DEF ClientInv, ClientTypes, Tidy, Reached, Caused, Aborted, clientVars
  <2>. QED BY <2>1, <2>3 DEF Inv
<1>3. CASE ClientNext /\ UNCHANGED serviceVars
  BY <1>1, <1>3, ClientKept, ServiceUnchanged, Apart DEF Inv
<1>4. CASE UNCHANGED vars
  BY <1>1, <1>4, ClientUnchanged, ServiceUnchanged DEF Inv, vars
<1>. QED BY <1>2, <1>3, <1>4 DEF Next

-------------------------------------------------------------------------------
(* The theorems.                                                             *)

(* What calls, children and visits are stays consistent with the step each   *)
(* is at, whatever falls together.                                           *)
THEOREM InvAlways == Spec => []Inv
BY InvInit, InvKept, PTL DEF Spec

LEMMA CleanFollows == Inv => CallsComeClean
<1>. SUFFICES ASSUME Inv PROVE CallsComeClean
  OBVIOUS
<1>1. ClientTypes /\ stdin \subseteq Calls /\ \A c \in Calls : Tidy(c) /\ Reached(c) /\ Caused(c)
  BY DEF Inv, ClientInv
<1>2. ServiceTypes /\ \A v \in Visits : VisitFits(v)
  BY DEF Inv, ServiceInv, VisitsFit
<1>3. TypeOK
  <2>1. ClientTypeOK
    BY <1>1 DEF ClientTypeOK, ClientTypes, Tidy
  <2>. QED BY <1>2, <2>1 DEF TypeOK, ServiceTypes, VisitFits
<1>4. AbortReachesChild
  BY <1>1 DEF AbortReachesChild, Reached, Aborted
<1>5. NothingSentAfterAbort
  BY <1>1 DEF NothingSentAfterAbort, Tidy, Aborted
<1>6. NothingLeft
  <2>. SUFFICES ASSUME NEW c \in Calls, call[c].step = "done"
                PROVE  c \notin timers /\ \A h \in heard : h[1] # c
    BY DEF NothingLeft
  <2>1. c \notin timers /\ <<c, "request">> \notin heard /\ <<c, "command">> \notin heard
    BY <1>1 DEF Tidy
  <2>2. ASSUME NEW h \in heard PROVE h[1] # c
    <3>1. PICK b \in Calls, part \in {"request", "command"} : h = <<b, part>>
      BY <1>1 DEF ClientTypes
    <3>. QED BY <2>1, <3>1
  <2>. QED BY <2>1, <2>2
<1>7. TimeoutsAreNamed
  BY <1>1 DEF TimeoutsAreNamed, Caused
<1>8. EndsWithItsChild
  BY <1>1 DEF EndsWithItsChild, Reached
<1>. QED BY <1>3, <1>4, <1>5, <1>6, <1>7, <1>8 DEF CallsComeClean

(* However answers, timers, the abort and the events of children fall        *)
(* together, for any number of calls: an aborted call sends nothing and its  *)
(* child is told, what is over has left no timer and no listener, a timeout  *)
(* is called one, and no call waits for a child that is gone.                *)
THEOREM CallsEndClean == Spec => []CallsComeClean
BY InvAlways, CleanFollows, PTL

(* How a visit moves: by its look at the key set, by the end of the fetch it *)
(* waits for, or by a step that depends on neither.                          *)
LEMMA VisitMoves ==
  ASSUME Inv, Next, NEW v \in Visits
  PROVE  \/ visit'[v] = visit[v]
         \/ Looks(v, visit'[v])
         \/ Proceeds(v, visit'[v])
         \/ visit[v].step = "wait" /\ visit'[v].step = "key" /\ visit'[v].answer = visit[v].answer
         \/ /\ visit[v].step = "wait"
            /\ \E answer : FetchIsLost(answer) /\ TurnedAway(visit'[v], answer)
<1>1. ClientTypes /\ ServiceInv /\ visit \in [Visits -> VisitRecords]
  BY DEF Inv, ClientInv, ServiceInv, ServiceTypes
<1>2. ASSUME NEW u \in Visits, NEW r, Proceeds(u, r) \/ Looks(u, r)
      PROVE  IF u = v THEN visit'[v] = r ELSE visit'[v] = visit[v]
  BY <1>1, <1>2 DEF Proceeds, Looks
<1>3. ASSUME NEW u \in Visits,
             \/ \E path \in Paths, token \in pool.tokens : Visit(u, path, token)
             \/ \E c \in Calls : Presents(u, c)
             \/ PreHandle(u) \/ Handle(u)
      PROVE  visit'[v] = visit[v] \/ Proceeds(v, visit'[v])
  BY <1>1, <1>2, <1>3, VisitStep
<1>4. ASSUME NEW u \in Visits, Verify(u) PROVE visit'[v] = visit[v] \/ Looks(v, visit'[v])
  BY <1>1, <1>2, <1>4, VerifyStep
<1>5. CASE FetchArrives
  BY <1>1, <1>5, ArrivesStep
<1>6. CASE FetchFails \/ BodyFails
  <2>1. PICK answer : FetchIsLost(answer)
    BY <1>6, Lost
  <2>2. \/ visit'[v] = visit[v]
        \/ visit[v].step = "wait" /\ TurnedAway(visit'[v], answer)
    BY <1>1, <2>1, FailsStep DEF FetchIsLost
  <2>. QED BY <2>1, <2>2
<1>7. CASE FetchRead \/ FetchResolves \/ Logout \/ (\E k \in Keys : Rotate(k) \/ Retire(k)) \/ Tick
  BY <1>7 DEF FetchRead, FetchResolves, Logout, Rotate, Retire, Tick
<1>8. CASE UNCHANGED serviceVars
  BY <1>8 DEF serviceVars
<1>. QED BY <1>3, <1>4, <1>5, <1>6, <1>7, <1>8 DEF Next, ServiceNext

LEMMA KeysAge == Inv /\ Next => RetiredKeysAge
<1>. SUFFICES ASSUME Inv, Next, NEW v \in Visits,
                     visit[v].step = "key", visit'[v].step = "handle", visit'[v].token # NoToken
              PROVE  LET k == visit[v].token.by IN k \in published \/ now < left[k] + CacheMaxAge + FetchTime
  BY DEF RetiredKeysAge
<1>1. ServiceTypes /\ SetIsRecent /\ VisitFits(v)
  BY DEF Inv, ServiceInv, VisitsFit
<1>2. Looks(v, visit'[v])
  BY VisitMoves DEF Proceeds
<1>3. ~NeedsFetch(v) /\ visit[v].token.by \in jwks.keys
  BY <1>2 DEF Looks, TurnedAway
<1>4. now < jwks.at + CacheMaxAge
  BY <1>3 DEF NeedsFetch, Fresh
<1>. QED BY <1>1, <1>3, <1>4, FetchFields DEF SetIsRecent

LEMMA HasItsReason == Inv /\ Next => InvalidHasItsReason
<1>. SUFFICES ASSUME Inv, Next, NEW v \in Visits, visit[v].answer = None, visit'[v].answer = "invalid_token",
                     Fits(visit[v].token), visit[v].token.by \in published
              PROVE  \/ visit[v].step = "key" /\ CoolingDown /\ visit[v].token.by \notin jwks.keys
                     \/ visit[v].step = "wait" /\ fetching.step = "body" /\ fetching' = NoFetch
  BY DEF InvalidHasItsReason
<1>1. ServiceTypes /\ VisitFits(v)
  BY DEF Inv, ServiceInv, VisitsFit
<1>2. \/ Looks(v, visit'[v])
      \/ /\ visit[v].step = "wait"
         /\ \E answer : FetchIsLost(answer) /\ TurnedAway(visit'[v], answer)
  BY VisitMoves, NoneDiffers DEF Proceeds
<1>3. CASE Looks(v, visit'[v])
  <2>1. visit[v].step = "key" /\ ~NeedsFetch(v) /\ visit[v].token.by \notin jwks.keys
    BY <1>3, NoneDiffers DEF Looks, TurnedAway
  <2>2. CASE visit[v].missed
    BY <1>1, <2>1, <2>2, FetchFields DEF VisitFits, CoolingDown
  <2>3. CASE ~visit[v].missed
    BY <2>1, <2>3 DEF NeedsFetch
  <2>. QED BY <2>1, <2>2, <2>3
<1>4. ASSUME visit[v].step = "wait", NEW answer, FetchIsLost(answer), TurnedAway(visit'[v], answer)
      PROVE  fetching.step = "body" /\ fetching' = NoFetch
  BY <1>4, NoneDiffers DEF FetchIsLost, TurnedAway
<1>. QED BY <1>2, <1>3, <1>4

LEMMA OutageSpares == Inv /\ Next => OutageSparesTheCached
BY DEF OutageSparesTheCached, Inv, ServiceInv, VisitsFit, VisitFits

(* The steps that leave everything as it is honour nothing and refuse nobody. *)
LEMMA KeySetStep == Inv /\ [Next]_vars => [RetiredKeysAge /\ InvalidHasItsReason /\ OutageSparesTheCached]_vars
BY KeysAge, HasItsReason, OutageSpares

(* For any times of jose and the verifier: a retired key is honoured no      *)
(* longer than CacheMaxAge and one fetch; a good token is called invalid only *)
(* while the key set is too young, or when the body of the set it waited for  *)
(* failed; and an outage costs nobody whose key is held.                      *)
THEOREM KeySetServesAll == Spec => KeySetServes
<1>1. Spec => []Inv
  BY InvAlways
<1>2. Inv /\ [Next]_vars => [RetiredKeysAge /\ InvalidHasItsReason /\ OutageSparesTheCached]_vars
  BY KeySetStep
<1>. QED BY <1>1, <1>2, PTL DEF Spec, KeySetServes
===============================================================================
