------------------------------- MODULE LoginGuard -------------------------------
(***************************************************************************)
(* Password logins (server/src/modules/auth/auth.service.ts) and the        *)
(* counters in Redis that limit them: one for each client address           *)
(* (shared/rate-limit/rate-limit.service.ts) and one for each username,     *)
(* which locks the username when it reaches its limit.                      *)
(*                                                                         *)
(* Every attempt is a process and every Redis command a step of its own;    *)
(* in particular INCR and EXPIRE of one counter are two commands.           *)
(***************************************************************************)
EXTENDS Naturals, FiniteSets

CONSTANTS
  Attempts,       \* login requests
  Accounts,       \* the lower-case usernames that counters and locks go by
  Addresses,      \* client addresses
  AddressLimit,   \* 10 attempts ...
  AddressWindow,  \* ... in 60 seconds
  FailureLimit,   \* LOGIN_LOCK_THRESHOLD, 5
  FailureWindow,  \* LOGIN_FAILURE_WINDOW_SECONDS, 15 minutes
  LockTime,       \* LOGIN_LOCK_DURATION_SECONDS, 15 minutes
  Lag,            \* assumed: from an INCR to the EXPIRE or the lock that follows
  MaxTime,        \* bound of the clock
  None            \* no time, username or address

Counters == Addresses \cup Accounts

ASSUME LoginConstants ==
  /\ Addresses \cap Accounts = {}
  /\ {AddressLimit, AddressWindow, FailureLimit, FailureWindow, LockTime, Lag,
      MaxTime} \subseteq Nat
  /\ AddressLimit > 0 /\ FailureLimit > 1
  /\ None \notin Nat \cup Counters

VARIABLES
  now,       \* the clock of the server and of Redis
  count,     \* the value a counter has, or had until it expired
  deadline,  \* when it expires, None without EXPIRE
  lock,      \* until when a username is locked
  at,        \* where each attempt stands
  account,   \* the username it gives, in lower case
  address,   \* the address it comes from
  passedAt,  \* history: when the address limit let it pass
  failedAt,  \* history: when it counted a failure
  lockedAt,  \* history: when it locked the username
  lockedFor  \* history: the attempts that had locked a username when it arrived

redis == <<count, deadline, lock>>
inputs == <<account, address>>
history == <<passedAt, failedAt, lockedAt, lockedFor>>
vars == <<now, redis, at, inputs, history>>

(* Between INCR and EXPIRE of the address and of the failure counter. *)
Expiring == {"addressWindow", "failureWindow"}
(* An attempt that died there leaves a counter that nobody will give an end. *)
Died == {"addressForEver", "failureForEver"}
Ended == {"limited", "locked", "denied", "answered", "failed"} \cup Died
Stages == {"idle", "address", "isLocked", "compare", "failure", "lock", "forget",
           "clear", "session"} \cup Expiring \cup Ended

--------------------------------------------------------------------------------
(* Plausible bugs, one for each property; no action uses them. *)

(* The window is set before anything is counted, when there is no key. *)
ExpireNothing(k, window) == deadline

(* A successful login lifts the lock as well. *)
UnlockAfterSuccess(a) == [lock EXCEPT ![account[a]] = 0]

(* The failure counter never starts anew. *)
IncrementForever(k) == count[k] + 1

(* SET of the lock without a value for its end. *)
LockWithoutEnd == None

(* Every address has all the time the server runs for. *)
AllowedForever(a, hits) == TRUE

--------------------------------------------------------------------------------
(* Redis *)

Expired(k) == deadline[k] # None /\ deadline[k] <= now

(* The value of the key; 0 if it does not exist. *)
Value(k) == IF Expired(k) THEN 0 ELSE count[k]

(* INCR keeps what time a key has left, and creates one without an end. *)
Incremented(k) == Value(k) + 1
Incr(k) ==
  /\ count' = [count EXCEPT ![k] = Incremented(k)]
  /\ deadline' = [deadline EXCEPT ![k] = IF Value(k) = 0 THEN None ELSE @]

(* EXPIRE, which does nothing to a key that does not exist *)
Expire(k, window) ==
  IF Value(k) = 0 THEN deadline ELSE [deadline EXCEPT ![k] = now + window]

(* DEL *)
Delete(k) ==
  /\ count' = [count EXCEPT ![k] = 0]
  /\ deadline' = [deadline EXCEPT ![k] = None]

LockEnd == now + LockTime
Locked(u) == now < lock[u]

--------------------------------------------------------------------------------
(* An attempt *)

Go(a, stage) == at' = [at EXCEPT ![a] = stage]

Arrive(a, u, i) ==
  /\ at[a] = "idle"
  /\ account' = [account EXCEPT ![a] = u]
  /\ address' = [address EXCEPT ![a] = i]
  /\ lockedFor' = [lockedFor EXCEPT ![a] =
       {b \in Attempts : lockedAt[b] # None /\ account[b] = u}]
  /\ Go(a, "address")
  /\ UNCHANGED <<now, redis, passedAt, failedAt, lockedAt>>

(* assertAllowed looks at the value its own INCR returned. *)
Allowed(a, hits) == hits <= AddressLimit

CountAddress(a) ==
  /\ at[a] = "address"
  /\ Incr(address[a])
  /\ LET hits == Incremented(address[a]) IN
     /\ Go(a, IF hits = 1 THEN "addressWindow"
              ELSE IF Allowed(a, hits) THEN "isLocked" ELSE "limited")
     /\ passedAt' = [passedAt EXCEPT ![a] = IF Allowed(a, hits) THEN now ELSE None]
  /\ UNCHANGED <<now, lock, inputs, failedAt, lockedAt, lockedFor>>

ExpireAddress(a) ==
  /\ at[a] = "addressWindow"
  /\ deadline' = Expire(address[a], AddressWindow)
  /\ Go(a, "isLocked")
  /\ UNCHANGED <<now, count, lock, inputs, history>>

IsLocked(a) ==
  /\ at[a] = "isLocked"
  /\ Go(a, IF Locked(account[a]) THEN "locked" ELSE "compare")
  /\ UNCHANGED <<now, redis, inputs, history>>

(* A wrong password fails, as does an unknown or inactive operator. *)
Compare(a) ==
  /\ at[a] = "compare"
  /\ Go(a, "clear") \/ Go(a, "failure")
  /\ UNCHANGED <<now, redis, inputs, history>>

(* recordFailedLogin *)
CountFailure(a) ==
  /\ at[a] = "failure"
  /\ Incr(account[a])
  /\ failedAt' = [failedAt EXCEPT ![a] = now]
  /\ LET failures == Incremented(account[a]) IN
     Go(a, IF failures = 1 THEN "failureWindow"
           ELSE IF failures < FailureLimit THEN "denied" ELSE "lock")
  /\ UNCHANGED <<now, lock, inputs, passedAt, lockedAt, lockedFor>>

ExpireFailure(a) ==
  /\ at[a] = "failureWindow"
  /\ deadline' = Expire(account[a], FailureWindow)
  /\ Go(a, "denied")
  /\ UNCHANGED <<now, count, lock, inputs, history>>

Lock(a) ==
  /\ at[a] = "lock"
  /\ lock' = [lock EXCEPT ![account[a]] = LockEnd]
  /\ lockedAt' = [lockedAt EXCEPT ![a] = now]
  /\ Go(a, "forget")
  /\ UNCHANGED <<now, count, deadline, inputs, passedAt, failedAt, lockedFor>>

Forget(a) ==
  /\ at[a] = "forget"
  /\ Delete(account[a])
  /\ Go(a, "denied")
  /\ UNCHANGED <<now, lock, inputs, history>>

(* clearFailedLogins leaves the lock alone. *)
LockAfterSuccess(a) == lock
Clear(a) ==
  /\ at[a] = "clear"
  /\ Delete(account[a])
  /\ lock' = LockAfterSuccess(a)
  /\ Go(a, "session")
  /\ UNCHANGED <<now, inputs, history>>

(* the audit event, then LoginSessionService.create *)
CreateSession(a) ==
  /\ at[a] = "session"
  /\ Go(a, "answered")
  /\ UNCHANGED <<now, redis, inputs, history>>

(* Redis or the database fails, or the server dies. *)
Fail(a) ==
  /\ at[a] \notin {"idle"} \cup Ended
  /\ Go(a, CASE at[a] = "addressWindow" -> "addressForEver"
             [] at[a] = "failureWindow" -> "failureForEver"
             [] OTHER -> "failed")
  /\ UNCHANGED <<now, redis, inputs, history>>

--------------------------------------------------------------------------------
(* Time passes, but an attempt keeps to the assumed lag. *)
Tick ==
  /\ now < MaxTime
  /\ \A a \in Attempts :
       /\ at[a] = "addressWindow" => now < passedAt[a] + Lag
       /\ at[a] \in {"failureWindow", "lock"} => now < failedAt[a] + Lag
  /\ now' = now + 1
  /\ UNCHANGED <<redis, at, inputs, history>>

Init ==
  /\ now = 0
  /\ count = [k \in Counters |-> 0]
  /\ deadline = [k \in Counters |-> None]
  /\ lock = [u \in Accounts |-> 0]
  /\ at = [a \in Attempts |-> "idle"]
  /\ account = [a \in Attempts |-> None]
  /\ address = [a \in Attempts |-> None]
  /\ passedAt = [a \in Attempts |-> None]
  /\ failedAt = [a \in Attempts |-> None]
  /\ lockedAt = [a \in Attempts |-> None]
  /\ lockedFor = [a \in Attempts |-> {}]

Attempt(a) ==
  \/ \E u \in Accounts, i \in Addresses : Arrive(a, u, i)
  \/ CountAddress(a) \/ ExpireAddress(a)
  \/ IsLocked(a) \/ Compare(a)
  \/ CountFailure(a) \/ ExpireFailure(a) \/ Lock(a) \/ Forget(a)
  \/ Clear(a) \/ CreateSession(a)
  \/ Fail(a)

Next ==
  \/ \E a \in Attempts : Attempt(a)
  \/ Tick

Spec == Init /\ [][Next]_vars

--------------------------------------------------------------------------------
TypeOK ==
  /\ now \in 0 .. MaxTime
  /\ count \in [Counters -> Nat]
  /\ deadline \in [Counters -> Nat \cup {None}]
  /\ lock \in [Accounts -> Nat]
  /\ at \in [Attempts -> Stages]
  /\ account \in [Attempts -> Accounts \cup {None}]
  /\ address \in [Attempts -> Addresses \cup {None}]
  /\ passedAt \in [Attempts -> Nat \cup {None}]
  /\ failedAt \in [Attempts -> Nat \cup {None}]
  /\ lockedAt \in [Attempts -> Nat \cup {None}]
  /\ lockedFor \in [Attempts -> SUBSET Attempts]

(* shared/redis/redis.service.ts, increment: two commands, and an attempt    *)
(* that dies between them leaves a counter that counts for ever.  There is   *)
(* no other: a counter without an end is about to get one or its attempt     *)
(* died there, whoever deletes, recreates or increments it in between.       *)
OnlyTheDeadCountForEver ==
  \A k \in Counters :
    count[k] > 0 /\ deadline[k] = None =>
      \E a \in Attempts :
        \/ at[a] \in {"addressWindow", "addressForEver"} /\ address[a] = k
        \/ at[a] \in {"failureWindow", "failureForEver"} /\ account[a] = k

(* docs/security-hardening-report.md, 1: a username is locked for            *)
(* FailureLimit failures within the failure window, and for no older ones,   *)
(* unless an attempt died between INCR and EXPIRE of its counter.            *)
LockIsEarned ==
  \A a \in Attempts : at[a] = "lock" =>
    \/ FailureLimit <= Cardinality(
         {b \in Attempts : /\ failedAt[b] # None /\ account[b] = account[a]
                           /\ failedAt[a] < failedAt[b] + FailureWindow + Lag})
    \/ \E b \in Attempts : at[b] = "failureForEver" /\ account[b] = account[a]

(* An attempt that arrives once a username is locked is not compared with    *)
(* the password for all of LockTime, although logins and failures that had   *)
(* passed the check before keep changing the keys.                           *)
LockHolds ==
  \A a \in Attempts, b \in Attempts :
    b \in lockedFor[a] /\ at[a] \in {"compare", "failure", "clear", "session"}
      => lockedAt[b] + LockTime <= now

(* rate-limit.service.ts, hitRedis: README.md calls the window sliding, and  *)
(* it is fixed to the attempt that opened it, so AddressLimit does not bound *)
(* what passes within the length of one window: all but the first attempt of *)
(* one window and all of the next one may.  More do not.                     *)
TwiceTheLimit ==
  \A i \in Addresses :
    Cardinality({a \in Attempts : /\ address[a] = i /\ passedAt[a] # None
                                  /\ now < passedAt[a] + AddressWindow})
      < 2 * AddressLimit
================================================================================
