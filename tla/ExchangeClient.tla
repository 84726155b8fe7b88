----------------------------- MODULE ExchangeClient -----------------------------
(***************************************************************************)
(* How a target token is obtained: the two requests of AuthAnyClient       *)
(* (packages/sdk/src/exchange-client.ts), the commands AuthorizedRuntime   *)
(* runs with the token (runtime-adapter.ts), and the demonstration, which  *)
(* makes the same requests by hand (example/demo-web target-access.ts).    *)
(*                                                                         *)
(* All of it runs on one event loop.  The continuations of settled         *)
(* promises run before the next timer, answer or child event; the caller's *)
(* own code, and with it abort(), may run between any two of them.         *)
(***************************************************************************)
EXTENDS Integers

CONSTANTS
  Calls,  \* calls of the client, of a runtime or of the demonstration
  Keys,   \* signing keys of AuthAny
  Pools,  \* bound: what may happen in a behaviour
  None

VARIABLES
  call,     \* each call: its request, what went wrong with it and its result
  timers,   \* calls with the timer of a request running
  heard,    \* listeners on the caller's signal: pairs of call and request or command
  aborted,  \* the caller's signal, one for all calls that have one
  child,    \* the child process of each call
  stdin,    \* children that have been written input they have not taken yet
  host,     \* "down" after an error event nobody listened to
  signing,  \* AuthAny: the key it signs with
  pool

clientVars == <<call, timers, heard, aborted, child, stdin, host>>

Idle == [kind |-> None, signal |-> FALSE, step |-> "idle", hop |-> 0, served |-> None, bearer |-> TRUE,
         late |-> FALSE, cause |-> None, payload |-> None, key |-> None, result |-> None]
NoChild == [state |-> "none", told |-> FALSE, listening |-> FALSE]

Steps == {"idle", "open", "sent", "answered", "failed", "spawn", "running", "done"}
Causes == {"abort", "network", "timer"}
Results == {"token", "refused", "invalid", "timeout", "aborted", "connection", "unhandled",
            "stopped", "spawn error", "exit"}

CallRecords ==
  [kind : {None, "exchange", "command", "demo"}, signal : BOOLEAN, step : Steps, hop : 0 .. 2,
   served : {None, "ok", "refused"}, bearer : BOOLEAN, late : BOOLEAN, cause : Causes \cup {None},
   payload : {None, "ok", "refused", "garbled"}, key : Keys \cup {None}, result : Results \cup {None}]
ChildRecords == [state : {"none", "starting", "alive", "ended"}, told : BOOLEAN, listening : BOOLEAN]

ASSUME ClientAssumption ==
  /\ None \notin Causes \cup Results \cup {"exchange", "command", "demo", "ok", "refused", "garbled"}
  /\ Keys # {}

ClientInit ==
  /\ call = [c \in Calls |-> Idle] /\ child = [c \in Calls |-> NoChild]
  /\ timers = {} /\ heard = {} /\ aborted = FALSE /\ stdin = {} /\ host = "up"
  /\ pool \in Pools /\ signing = CHOOSE k \in Keys : TRUE

ClientTypeOK ==
  /\ timers \subseteq Calls /\ stdin \subseteq Calls /\ heard \subseteq Calls \X {"request", "command"}
  /\ aborted \in BOOLEAN /\ host \in {"up", "down"} /\ signing \in Keys
  /\ \A c \in Calls :
       /\ call[c] \in CallRecords /\ child[c] \in ChildRecords
       /\ call[c].step = "done" <=> call[c].result # None

\* A continuation is waiting to run: no timer and no event comes before it.
Continuing == \E c \in Calls : call[c].step \in {"open", "answered", "failed", "spawn"}
Aborted(c) == call[c].signal /\ aborted
Done(r, result) == [Idle EXCEPT !.kind = r.kind, !.signal = r.signal, !.cause = r.cause, !.key = r.key, !.step = "done", !.result = result]

------------------------------------------------------------------------------
(* One request: postJson, and the fetch of the demonstration.               *)

\* exchangeTargetToken or runCommand.
Begin(c, kind, signal) ==
  /\ c \in pool.calls /\ call[c].step = "idle" /\ kind \in pool.kinds \ {"demo"} /\ signal \in pool.signals
  /\ call' = [call EXCEPT ![c] = [Idle EXCEPT !.kind = kind, !.signal = signal, !.step = "open", !.hop = 1]]
  /\ UNCHANGED <<timers, heard, aborted, child, stdin, host, signing, pool>>

\* The demonstration, which shows a failure by beginning at the second request
\* with a requester token that is none.
BeginDemo(c, hop) ==
  /\ c \in pool.calls /\ call[c].step = "idle" /\ "demo" \in pool.kinds
  /\ call' = [call EXCEPT ![c] = [Idle EXCEPT !.kind = "demo", !.step = "open", !.hop = hop, !.bearer = hop = 1]]
  /\ UNCHANGED <<timers, heard, aborted, child, stdin, host, signing, pool>>

Sent(r) == [r EXCEPT !.step = "sent", !.late = FALSE, !.served = None]

\* createRequestSignal, and fetch, which sends nothing under a signal that has
\* fired already.
Open(c) ==
  /\ call[c].step = "open"
  /\ timers' = IF call[c].kind = "demo" THEN timers ELSE timers \cup {c}
  /\ IF Aborted(c)
     THEN call' = [call EXCEPT ![c] = [@ EXCEPT !.step = "failed", !.cause = "abort"]] /\ heard' = heard
     ELSE /\ call' = [call EXCEPT ![c] = Sent(@)]
          /\ heard' = IF call[c].signal THEN heard \cup {<<c, "request">>} ELSE heard
  /\ UNCHANGED <<aborted, child, stdin, host, signing, pool>>

\* AuthAny handles the request, whether or not the answer will be waited for.
Serve(c) ==
  /\ call[c].step = "sent" /\ call[c].served = None
  /\ \E outcome \in {"ok", "refused"} :
       /\ outcome = "ok" => call[c].bearer
       /\ call' = [call EXCEPT ![c].served = outcome,
                               ![c].key = IF outcome = "ok" /\ call[c].hop = 2 THEN signing ELSE None]
  /\ UNCHANGED <<timers, heard, aborted, child, stdin, host, signing, pool>>

\* The answer, or one that something on the way has garbled, is read to its end.
Answer(c) ==
  /\ ~Continuing /\ call[c].step = "sent" /\ call[c].served # None
  /\ \E payload \in {call[c].served, "garbled"} :
       call' = [call EXCEPT ![c] = [@ EXCEPT !.step = "answered", !.payload = payload]]
  /\ UNCHANGED <<timers, heard, aborted, child, stdin, host, signing, pool>>

Break(c) ==
  /\ ~Continuing /\ call[c].step = "sent" /\ pool.breaks
  /\ call' = [call EXCEPT ![c] = [@ EXCEPT !.step = "failed", !.cause = "network"]]
  /\ UNCHANGED <<timers, heard, aborted, child, stdin, host, signing, pool>>

\* The timer of createRequestSignal.
Timeout(c) ==
  /\ ~Continuing /\ c \in timers
  /\ timers' = timers \ {c}
  /\ call' = [call EXCEPT ![c] = [@ EXCEPT !.late = TRUE, !.step = "failed", !.cause = "timer"]]
  /\ UNCHANGED <<heard, aborted, child, stdin, host, signing, pool>>

\* cleanup.
Cleanup(c) == timers' = timers \ {c} /\ heard' = heard \ {<<c, "request">>}

\* mapRequestError; the demonstration lets the error pass.
Blame(c) ==
  CASE call[c].kind = "demo" -> "unhandled"
    [] call[c].kind # "demo" /\ call[c].late -> "timeout"
    [] OTHER -> IF Aborted(c) THEN "aborted" ELSE "connection"

Catch(c) ==
  /\ call[c].step = "failed"
  /\ call' = [call EXCEPT ![c] = Done(@, Blame(c))]
  /\ Cleanup(c)
  /\ UNCHANGED <<aborted, child, stdin, host, signing, pool>>

\* What the client makes of a payload.
TakenBySdk(r) ==
  CASE r.payload = "refused" -> Done(r, "refused")
    [] r.payload = "garbled" -> Done(r, "invalid")
    [] OTHER -> CASE r.hop = 1 -> [r EXCEPT !.step = "open", !.hop = 2]
                  [] r.hop = 2 -> IF r.kind = "command" THEN [r EXCEPT !.step = "spawn"] ELSE Done(r, "token")

\* The demonstration goes on with whatever it finds.
TakenByDemo(r) ==
  CASE r.payload = "refused" -> Done(r, "refused")
    [] r.payload # "refused" /\ r.hop = 1 -> [r EXCEPT !.step = "open", !.hop = 2, !.bearer = r.payload = "ok"]
    [] OTHER -> Done([r EXCEPT !.key = IF r.payload = "ok" THEN @ ELSE None], "token")

\* The way on from an answer: no timer and no listener till the next request.
Take(c) ==
  /\ call[c].step = "answered"
  /\ call' = [call EXCEPT ![c] = IF @.kind = "demo" THEN TakenByDemo(@) ELSE TakenBySdk(@)]
  /\ Cleanup(c)
  /\ UNCHANGED <<aborted, child, stdin, host, signing, pool>>

------------------------------------------------------------------------------
(* One command: runChildProcess.                                            *)

\* The input of the command, if there is any, is written at once, and the pipe
\* closed behind it; nobody listens to the pipe.
Feeds(c) == stdin' = stdin \cup {c} \/ stdin' = stdin

\* Mutant: the signal is only listened to.
SpawnUnlooked(c) ==
  /\ call[c].step = "spawn"
  /\ child' = [child EXCEPT ![c] = [state |-> "starting", told |-> FALSE, listening |-> TRUE]]
  /\ call' = [call EXCEPT ![c].step = "running"]
  /\ heard' = IF call[c].signal THEN heard \cup {<<c, "command">>} ELSE heard
  /\ Feeds(c)
  /\ UNCHANGED <<timers, aborted, host, signing, pool>>

\* Under a signal that has fired the child is killed at once, nobody listens to
\* it, and nothing is written.
Spawn(c) ==
  /\ call[c].step = "spawn"
  /\ child' = [child EXCEPT ![c] = [state |-> "starting", told |-> Aborted(c), listening |-> ~Aborted(c)]]
  /\ call' = [call EXCEPT ![c] = IF Aborted(c) THEN Done(@, "stopped") ELSE [@ EXCEPT !.step = "running"]]
  /\ heard' = IF call[c].signal /\ ~Aborted(c) THEN heard \cup {<<c, "command">>} ELSE heard
  /\ IF Aborted(c) THEN stdin' = stdin ELSE Feeds(c)
  /\ UNCHANGED <<timers, aborted, host, signing, pool>>

Settles(c, result) ==
  /\ call' = [call EXCEPT ![c] = IF @.step = "running" THEN Done(@, result) ELSE @]
  /\ heard' = IF call[c].step = "running" THEN heard \ {<<c, "command">>} ELSE heard

\* The command does not exist: the child's error event.
SpawnFails(c) ==
  /\ ~Continuing /\ child[c].state = "starting"
  /\ child' = [child EXCEPT ![c].state = "ended"]
  /\ IF child[c].listening THEN Settles(c, "spawn error") /\ host' = host
     ELSE host' = "down" /\ UNCHANGED <<call, heard>>
  /\ UNCHANGED <<timers, aborted, stdin, signing, pool>>

\* The operating system has started it.
ChildRuns(c) ==
  /\ ~Continuing /\ child[c].state = "starting"
  /\ child' = [child EXCEPT ![c].state = "alive"]
  /\ UNCHANGED <<call, timers, heard, aborted, stdin, host, signing, pool>>

\* The input is in the child's hands.
StdinTaken(c) ==
  /\ ~Continuing /\ c \in stdin
  /\ stdin' = stdin \ {c}
  /\ UNCHANGED <<call, timers, heard, aborted, child, host, signing, pool>>

\* The pipe's error event: the child has closed its end, or there never was one
\* because the command could not be started.
StdinFails(c) ==
  /\ ~Continuing /\ c \in stdin
  /\ stdin' = stdin \ {c} /\ host' = "down"
  /\ UNCHANGED <<call, timers, heard, aborted, child, signing, pool>>

\* The child's close event; its pipes are gone before.
ChildEnds(c) ==
  /\ ~Continuing /\ child[c].state = "alive"
  /\ child' = [child EXCEPT ![c].state = "ended"]
  /\ stdin' = stdin \ {c}
  /\ Settles(c, "exit")
  /\ UNCHANGED <<timers, aborted, host, signing, pool>>

\* The caller aborts: every listener runs, once.
Abort ==
  /\ ~aborted /\ aborted' = TRUE /\ TRUE \in pool.signals
  /\ call' = [c \in Calls |->
       CASE <<c, "request">> \in heard /\ call[c].step = "sent" -> [call[c] EXCEPT !.step = "failed", !.cause = "abort"]
         [] <<c, "command">> \in heard -> Done(call[c], "stopped")
         [] OTHER -> call[c]]
  /\ child' = [c \in Calls |-> IF <<c, "command">> \in heard THEN [child[c] EXCEPT !.told = TRUE] ELSE child[c]]
  /\ heard' = {}
  /\ UNCHANGED <<timers, stdin, host, signing, pool>>

------------------------------------------------------------------------------
Continue(c) == Open(c) \/ Take(c) \/ Catch(c) \/ Spawn(c)

ClientNext ==
  /\ host = "up"
  /\ \/ \E c \in Calls :
          \/ \E kind \in {"exchange", "command"}, signal \in BOOLEAN : Begin(c, kind, signal)
          \/ \E hop \in 1 .. 2 : BeginDemo(c, hop)
          \/ Serve(c) \/ Answer(c) \/ Break(c) \/ Timeout(c) \/ Continue(c)
          \/ SpawnFails(c) \/ ChildRuns(c) \/ StdinTaken(c) \/ StdinFails(c) \/ ChildEnds(c)
     \/ Abort
================================================================================
