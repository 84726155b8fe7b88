--------------------------- MODULE LoginGuardProofs ---------------------------
(***************************************************************************)
(* Proofs about LoginGuard for any number of attempts, usernames, addresses *)
(* and any limits and windows.                                              *)
(***************************************************************************)
EXTENDS LoginGuard, TLAPS, FiniteSetTheorems

(* An attempt that has arrived has given username and address. *)
Shape ==
  \A a \in Attempts : at[a] # "idle" => account[a] \in Accounts /\ address[a] \in Addresses

LInv == TypeOK /\ Shape

LEMMA InitLInv == Init => LInv
BY LoginConstants DEF Init, LInv, TypeOK, Shape, Stages

--------------------------------------------------------------------------------
(* Redis commands *)

LEMMA ValueIsNat == ASSUME LInv, NEW k \in Counters PROVE Value(k) \in Nat
BY DEF LInv, TypeOK, Value

LEMMA IncrTypes ==
  ASSUME LInv, NEW k \in Counters, Incr(k)
  PROVE  count' \in [Counters -> Nat] /\ deadline' \in [Counters -> Nat \cup {None}]
BY ValueIsNat DEF LInv, TypeOK, Incr, Incremented

LEMMA ExpireTypes ==
  ASSUME LInv, NEW k \in Counters, NEW window \in Nat
  PROVE  Expire(k, window) \in [Counters -> Nat \cup {None}]
BY DEF LInv, TypeOK, Expire

LEMMA DeleteTypes ==
  ASSUME LInv, NEW k \in Counters, Delete(k)
  PROVE  count' \in [Counters -> Nat] /\ deadline' \in [Counters -> Nat \cup {None}]
BY DEF LInv, TypeOK, Delete

(* The steps of an attempt that has arrived leave its inputs alone. *)
LEMMA GoLInv ==
  ASSUME LInv, NEW a \in Attempts, NEW stage \in Stages, Go(a, stage), at[a] # "idle",
         UNCHANGED inputs,
         now' = now,
         count' \in [Counters -> Nat], deadline' \in [Counters -> Nat \cup {None}],
         lock' \in [Accounts -> Nat],
         passedAt' \in [Attempts -> Nat \cup {None}],
         failedAt' \in [Attempts -> Nat \cup {None}],
         lockedAt' \in [Attempts -> Nat \cup {None}],
         UNCHANGED lockedFor
  PROVE  LInv'
BY DEF LInv, TypeOK, Shape, Go, inputs

LEMMA AttemptLInv ==
  ASSUME LInv, NEW a \in Attempts, Attempt(a)
  PROVE  LInv'
<1> USE DEF Stages, Expiring, Ended, Died
<1>0. /\ now \in Nat /\ now \in 0 .. MaxTime /\ {AddressWindow, FailureWindow, LockTime} \subseteq Nat
      /\ at[a] # "idle" => address[a] \in Counters /\ account[a] \in Counters /\ account[a] \in Accounts
      /\ count \in [Counters -> Nat] /\ deadline \in [Counters -> Nat \cup {None}]
      /\ lock \in [Accounts -> Nat]
      /\ passedAt \in [Attempts -> Nat \cup {None}] /\ failedAt \in [Attempts -> Nat \cup {None}]
      /\ lockedAt \in [Attempts -> Nat \cup {None}]
  BY LoginConstants DEF LInv, TypeOK, Shape, Counters
<1>1. ASSUME NEW u \in Accounts, NEW i \in Addresses, Arrive(a, u, i) PROVE LInv'
  BY <1>1 DEF Arrive, Go, LInv, TypeOK, Shape, redis
<1>2. CASE CountAddress(a)
  <2>1. PICK stage \in {"addressWindow", "isLocked", "limited"} : Go(a, stage)
    BY <1>2 DEF CountAddress
  <2>2. passedAt' \in [Attempts -> Nat \cup {None}]
    BY <1>0, <1>2 DEF CountAddress
  <2> QED BY <1>0, <1>2, <2>1, <2>2, GoLInv, IncrTypes DEF CountAddress
<1>3. CASE ExpireAddress(a)
  BY <1>0, <1>3, GoLInv, ExpireTypes DEF ExpireAddress, history
<1>4. CASE IsLocked(a) \/ Compare(a) \/ CreateSession(a) \/ Fail(a)
  <2>1. PICK stage \in {"locked", "compare", "clear", "failure", "answered", "failed"} \cup Died :
          Go(a, stage)
    BY <1>4 DEF IsLocked, Compare, CreateSession, Fail
  <2> QED BY <1>0, <1>4, <2>1, GoLInv DEF IsLocked, Compare, CreateSession, Fail, redis, history
<1>5. CASE CountFailure(a)
  <2>1. PICK stage \in {"failureWindow", "denied", "lock"} : Go(a, stage)
    BY <1>5 DEF CountFailure
  <2> QED BY <1>0, <1>5, <2>1, GoLInv, IncrTypes DEF CountFailure
<1>6. CASE ExpireFailure(a)
  BY <1>0, <1>6, GoLInv, ExpireTypes DEF ExpireFailure, history
<1>7. CASE Lock(a)
  BY <1>0, <1>7, GoLInv DEF Lock, LockEnd
<1>8. CASE Forget(a)
  BY <1>0, <1>8, GoLInv, DeleteTypes DEF Forget, history
<1>9. CASE Clear(a)
  BY <1>0, <1>9, GoLInv, DeleteTypes DEF Clear, LockAfterSuccess, history
<1> QED BY <1>1, <1>2, <1>3, <1>4, <1>5, <1>6, <1>7, <1>8, <1>9 DEF Attempt

LEMMA StepLInv == LInv /\ [Next]_vars => LInv'
<1> SUFFICES ASSUME LInv, [Next]_vars PROVE LInv'
  OBVIOUS
<1>1. CASE Tick
  BY <1>1, LoginConstants DEF Tick, LInv, TypeOK, Shape, redis, inputs, history
<1>2. CASE UNCHANGED vars
  BY <1>2 DEF vars, LInv, TypeOK, Shape, redis, inputs, history
<1> QED BY <1>1, <1>2, AttemptLInv DEF Next

(* All variables keep their types. *)
THEOREM LoginTypes == Spec => []TypeOK
<1>1. Spec => []LInv
  BY InitLInv, StepLInv, PTL DEF Spec
<1> QED BY <1>1, PTL DEF LInv

--------------------------------------------------------------------------------
(* Counters *)

(* An attempt that is about to give the key its deadline, or died there. *)
Pending(a, k) ==
  \/ at[a] \in {"addressWindow", "addressForEver"} /\ address[a] = k
  \/ at[a] \in {"failureWindow", "failureForEver"} /\ account[a] = k

(* INCR leaves a counter without deadline only if it has just created it. *)
LEMMA IncrPends ==
  ASSUME LInv, OnlyTheDeadCountForEver, NEW k \in Counters, Incr(k), NEW j \in Counters,
         count'[j] > 0, deadline'[j] = None
  PROVE  \/ \E b \in Attempts : Pending(b, j)
         \/ j = k /\ Incremented(k) = 1
<1>0. /\ count \in [Counters -> Nat] /\ deadline \in [Counters -> Nat \cup {None}]
      /\ Value(k) \in Nat
  BY ValueIsNat DEF LInv, TypeOK
<1>1. CASE j # k
  BY <1>0, <1>1 DEF Incr, OnlyTheDeadCountForEver, Pending
<1>2. CASE j = k /\ Value(k) = 0
  BY <1>2 DEF Incremented
<1>3. CASE j = k /\ Value(k) # 0
  <2>1. deadline[k] = None /\ count[k] > 0
    BY <1>0, <1>3 DEF Incr, Value
  <2> QED BY <1>3, <2>1 DEF OnlyTheDeadCountForEver, Pending
<1> QED BY <1>1, <1>2, <1>3

(* EXPIRE gives the counter a deadline if it exists. *)
LEMMA ExpirePends ==
  ASSUME LInv, NEW k \in Counters, NEW window \in Nat, deadline' = Expire(k, window),
         NEW j \in Counters, count[j] > 0, deadline'[j] = None
  PROVE  deadline[j] = None /\ j # k
<1>0. /\ deadline \in [Counters -> Nat \cup {None}] /\ now + window \in Nat /\ None \notin Nat
      /\ count \in [Counters -> Nat]
  BY LoginConstants DEF LInv, TypeOK
<1>1. CASE Value(k) = 0
  BY <1>0, <1>1 DEF Expire, Value, Expired
<1>2. CASE Value(k) # 0
  BY <1>0, <1>2 DEF Expire
<1> QED BY <1>1, <1>2

LEMMA AttemptExpires ==
  ASSUME LInv, OnlyTheDeadCountForEver, NEW a \in Attempts, Attempt(a)
  PROVE  OnlyTheDeadCountForEver'
<1> SUFFICES ASSUME NEW j \in Counters, count'[j] > 0, deadline'[j] = None
             PROVE  \E b \in Attempts : Pending(b, j)'
  BY DEF OnlyTheDeadCountForEver, Pending
<1> USE DEF Expiring, Died
<1>0. /\ at \in [Attempts -> Stages] /\ {AddressWindow, FailureWindow} \subseteq Nat
      /\ at[a] # "idle" => address[a] \in Counters /\ account[a] \in Counters
      /\ account \in [Attempts -> Accounts \cup {None}]
      /\ address \in [Attempts -> Addresses \cup {None}]
      /\ count \in [Counters -> Nat] /\ deadline \in [Counters -> Nat \cup {None}]
  BY LoginConstants DEF LInv, TypeOK, Shape, Counters
(* Another attempt stays as it is. *)
<1>1. ASSUME NEW b \in Attempts, b # a, Pending(b, j) PROVE Pending(b, j)'
  <2>1. at'[b] = at[b] /\ account'[b] = account[b] /\ address'[b] = address[b]
    BY <1>0, <1>1 DEF Attempt, Arrive, CountAddress, ExpireAddress, IsLocked, Compare,
       CountFailure, ExpireFailure, Lock, Forget, Clear, CreateSession, Fail, Go, inputs
  <2> QED BY <1>1, <2>1 DEF Pending
<1>2. ASSUME at[a] \notin Expiring \cup Died, \E b \in Attempts : Pending(b, j)
      PROVE  \E b \in Attempts : Pending(b, j)'
  BY <1>1, <1>2 DEF Pending
<1>3. ASSUME UNCHANGED <<count, deadline>>, at[a] \notin Expiring \cup Died
      PROVE  \E b \in Attempts : Pending(b, j)'
  BY <1>2, <1>3 DEF OnlyTheDeadCountForEver, Pending
<1>4. CASE \/ \E u \in Accounts, i \in Addresses : Arrive(a, u, i)
           \/ IsLocked(a) \/ Compare(a) \/ Lock(a) \/ CreateSession(a)
           \/ Fail(a) /\ at[a] \notin Expiring
  BY <1>3, <1>4 DEF Arrive, IsLocked, Compare, Lock, CreateSession, Fail, Ended, redis
<1>5. CASE CountAddress(a)
  <2>1. at[a] \notin Expiring \cup Died /\ address[a] \in Counters /\ Incr(address[a])
    BY <1>0, <1>5 DEF CountAddress
  <2>2. ASSUME j = address[a], Incremented(address[a]) = 1 PROVE Pending(a, j)'
    BY <1>0, <1>5, <2>2 DEF CountAddress, Go, Pending, inputs
  <2> QED BY <1>2, <2>1, <2>2, IncrPends
<1>6. CASE CountFailure(a)
  <2>1. at[a] \notin Expiring \cup Died /\ account[a] \in Counters /\ Incr(account[a])
    BY <1>0, <1>6 DEF CountFailure
  <2>2. ASSUME j = account[a], Incremented(account[a]) = 1 PROVE Pending(a, j)'
    BY <1>0, <1>6, <2>2 DEF CountFailure, Go, Pending, inputs
  <2> QED BY <1>2, <2>1, <2>2, IncrPends
<1>7. CASE ExpireAddress(a)
  <2>1. count[j] > 0 /\ deadline[j] = None /\ j # address[a]
    BY <1>0, <1>7, ExpirePends DEF ExpireAddress
  <2>2. PICK b \in Attempts : Pending(b, j)
    BY <2>1 DEF OnlyTheDeadCountForEver, Pending
  <2>3. b # a
    BY <1>7, <2>1, <2>2 DEF ExpireAddress, Pending
  <2> QED BY <1>1, <2>2, <2>3
<1>8. CASE ExpireFailure(a)
  <2>1. count[j] > 0 /\ deadline[j] = None /\ j # account[a]
    BY <1>0, <1>8, ExpirePends DEF ExpireFailure
  <2>2. PICK b \in Attempts : Pending(b, j)
    BY <2>1 DEF OnlyTheDeadCountForEver, Pending
  <2>3. b # a
    BY <1>8, <2>1, <2>2 DEF ExpireFailure, Pending
  <2> QED BY <1>1, <2>2, <2>3
<1>9. CASE Forget(a) \/ Clear(a)
  <2>1. count[j] > 0 /\ deadline[j] = None /\ at[a] \notin Expiring \cup Died
    BY <1>0, <1>9 DEF Forget, Clear, Delete
  <2> QED BY <1>2, <2>1 DEF OnlyTheDeadCountForEver, Pending
<1>10. CASE Fail(a) /\ at[a] \in Expiring
  <2>1. /\ UNCHANGED <<count, deadline, account, address>>
        /\ at[a] = "addressWindow" => at'[a] = "addressForEver"
        /\ at[a] = "failureWindow" => at'[a] = "failureForEver"
    BY <1>0, <1>10 DEF Fail, Go, redis, inputs
  <2>2. PICK b \in Attempts : Pending(b, j)
    BY <2>1 DEF OnlyTheDeadCountForEver, Pending
  <2>3. Pending(a, j) => Pending(a, j)'
    BY <1>10, <2>1 DEF Pending
  <2> QED BY <1>1, <2>2, <2>3
<1> QED BY <1>4, <1>5, <1>6, <1>7, <1>8, <1>9, <1>10 DEF Attempt

(* redis.service.ts, increment: a counter that counts for ever is one whose  *)
(* attempt died between INCR and EXPIRE.                                     *)
THEOREM EternalCounters == Spec => []OnlyTheDeadCountForEver
<1>1. Init => OnlyTheDeadCountForEver
  BY DEF Init, OnlyTheDeadCountForEver
<1>2. LInv /\ OnlyTheDeadCountForEver /\ [Next]_vars => OnlyTheDeadCountForEver'
  <2> SUFFICES ASSUME LInv, OnlyTheDeadCountForEver, [Next]_vars PROVE OnlyTheDeadCountForEver'
    OBVIOUS
  <2>1. CASE Tick \/ UNCHANGED vars
    BY <2>1 DEF Tick, vars, redis, inputs, OnlyTheDeadCountForEver
  <2> QED BY <2>1, AttemptExpires DEF Next
<1>3. Spec => [](LInv /\ OnlyTheDeadCountForEver)
  BY <1>1, <1>2, InitLInv, StepLInv, PTL DEF Spec
<1> QED BY <1>3, PTL

--------------------------------------------------------------------------------
(* Locks *)

(* A lock stands for LockTime from the last time it was set, and whoever was *)
(* not turned away by it has outwaited it.                                   *)
LocksStand ==
  /\ \A b \in Attempts : lockedAt[b] # None =>
       /\ at[b] \in {"forget"} \cup Ended
       /\ lockedAt[b] <= now /\ lockedAt[b] + LockTime <= lock[account[b]]
  /\ \A a \in Attempts : \A b \in lockedFor[a] :
       lockedAt[b] # None /\ (at[a] # "idle" => account[b] = account[a])
  /\ LockHolds

LEMMA AttemptLocks ==
  ASSUME LInv, LocksStand, NEW a \in Attempts, Attempt(a)
  PROVE  LocksStand'
<1> USE DEF Ended, Expiring, Died
<1>0. /\ at \in [Attempts -> Stages] /\ now \in Nat /\ LockTime \in Nat /\ None \notin Nat
      /\ account \in [Attempts -> Accounts \cup {None}] /\ lock \in [Accounts -> Nat]
      /\ lockedAt \in [Attempts -> Nat \cup {None}]
      /\ lockedFor \in [Attempts -> SUBSET Attempts]
      /\ \A b \in Attempts : at[b] # "idle" => account[b] \in Accounts
  BY LoginConstants DEF LInv, TypeOK, Shape
<1>1. \A b \in Attempts : lockedAt[b] # None => at[b] \in {"forget"} \cup Ended
  BY DEF LocksStand
(* The steps that neither arrive, lock nor pass the lock check. *)
<1>2. ASSUME UNCHANGED <<now, lock, account, lockedAt, lockedFor>>, NEW stage, Go(a, stage),
             at[a] # "idle",
             at[a] \in {"forget"} \cup Ended => stage \in Ended,
             stage \in {"compare", "failure", "clear", "session"} =>
               at[a] \in {"compare", "failure", "clear", "session"}
      PROVE  LocksStand'
  BY <1>0, <1>2 DEF Go, LocksStand, LockHolds
<1>3. ASSUME NEW u \in Accounts, NEW i \in Addresses, Arrive(a, u, i) PROVE LocksStand'
  <2>1. /\ UNCHANGED <<now, lock, lockedAt>> /\ at[a] = "idle" /\ at'[a] = "address"
        /\ lockedFor'[a] = {b \in Attempts : lockedAt[b] # None /\ account[b] = u}
        /\ account'[a] = u
        /\ \A b \in Attempts \ {a} : /\ at'[b] = at[b] /\ account'[b] = account[b]
                                     /\ lockedFor'[b] = lockedFor[b]
    BY <1>0, <1>3 DEF Arrive, Go, redis
  <2>2. lockedAt[a] = None
    BY <1>1, <2>1
  <2>3. \A b \in Attempts : \A d \in lockedFor[b] : d # a
    BY <2>2 DEF LocksStand
  <2>4. \A b \in Attempts : b \in lockedFor'[a] => b # a /\ lockedAt[b] # None /\ account[b] = u
    BY <2>1, <2>2
  <2> QED BY <1>0, <2>1, <2>2, <2>3, <2>4 DEF LocksStand, LockHolds
<1>4. CASE IsLocked(a)
  <2>1. CASE Locked(account[a])
    BY <1>2, <1>4, <2>1 DEF IsLocked, redis, inputs, history
  <2>2. CASE ~Locked(account[a])
    <3>1. /\ UNCHANGED <<now, lock, account, lockedAt, lockedFor>> /\ at[a] = "isLocked"
          /\ at'[a] = "compare" /\ \A b \in Attempts \ {a} : at'[b] = at[b]
      BY <1>0, <1>4, <2>2 DEF IsLocked, Go, redis, inputs, history
    <3>2. \A b \in lockedFor[a] : lockedAt[b] + LockTime <= now
      BY <1>0, <2>2, <3>1 DEF Locked, LocksStand
    <3> QED BY <1>0, <3>1, <3>2 DEF LocksStand, LockHolds
  <2> QED BY <2>1, <2>2
<1>5. CASE Lock(a)
  <2>1. /\ UNCHANGED <<now, account, lockedFor>> /\ at[a] = "lock" /\ at'[a] = "forget"
        /\ \A b \in Attempts \ {a} : at'[b] = at[b] /\ lockedAt'[b] = lockedAt[b]
        /\ lockedAt'[a] = now /\ account[a] \in Accounts
        /\ lock'[account[a]] = now + LockTime
        /\ \A v \in Accounts \ {account[a]} : lock'[v] = lock[v]
    BY <1>0, <1>5 DEF Lock, LockEnd, Go, inputs
  <2>2. lockedAt[a] = None
    BY <1>1, <2>1
  <2>3. \A b \in Attempts : \A d \in lockedFor[b] : d # a
    BY <2>2 DEF LocksStand
  <2>4. \A b \in Attempts : lockedAt'[b] # None =>
          lockedAt'[b] <= now /\ lockedAt'[b] + LockTime <= lock'[account[b]]
    <3>1. ASSUME NEW b \in Attempts, b # a, lockedAt[b] # None
          PROVE  lockedAt[b] <= now /\ lockedAt[b] + LockTime <= lock'[account[b]]
      <4>1. account[b] \in Accounts /\ lockedAt[b] \in Nat
        BY <1>0, <1>1, <3>1
      <4> QED BY <1>0, <2>1, <3>1, <4>1 DEF LocksStand
    <3> QED BY <1>0, <2>1, <3>1
  <2> QED BY <1>0, <2>1, <2>2, <2>3, <2>4 DEF LocksStand, LockHolds
<1>6. CASE CountAddress(a)
  <2>1. PICK stage \in {"addressWindow", "isLocked", "limited"} : Go(a, stage)
    BY <1>6 DEF CountAddress
  <2> QED BY <1>2, <1>6, <2>1 DEF CountAddress, inputs
<1>7. CASE CountFailure(a)
  <2>1. PICK stage \in {"failureWindow", "denied", "lock"} : Go(a, stage)
    BY <1>7 DEF CountFailure
  <2> QED BY <1>2, <1>7, <2>1 DEF CountFailure, inputs
<1>8. CASE ExpireAddress(a) \/ ExpireFailure(a) \/ Forget(a) \/ CreateSession(a) \/ Fail(a)
  <2>1. PICK stage \in {"isLocked", "denied", "answered", "failed"} \cup Died : Go(a, stage)
    BY <1>8 DEF ExpireAddress, ExpireFailure, Forget, CreateSession, Fail
  <2> QED BY <1>2, <1>8, <2>1 DEF ExpireAddress, ExpireFailure, Forget, CreateSession, Fail,
             redis, inputs, history
<1>9. CASE Compare(a) \/ Clear(a)
  <2>1. PICK stage \in {"clear", "failure", "session"} : Go(a, stage)
    BY <1>9 DEF Compare, Clear
  <2> QED BY <1>2, <1>9, <2>1 DEF Compare, Clear, LockAfterSuccess, redis, inputs, history
<1> QED BY <1>3, <1>4, <1>5, <1>6, <1>7, <1>8, <1>9 DEF Attempt

(* A lock turns away every attempt that arrives after it, for all its time.  *)
THEOREM LockedOut == Spec => []LockHolds
<1>1. Init => LocksStand
  BY DEF Init, LocksStand, LockHolds
<1>2. LInv /\ LocksStand /\ [Next]_vars => LocksStand'
  <2> SUFFICES ASSUME LInv, LocksStand, [Next]_vars PROVE LocksStand'
    OBVIOUS
  <2>1. CASE Tick
    <3>1. /\ UNCHANGED <<lock, at, account, lockedAt, lockedFor>> /\ now' = now + 1
          /\ now \in Nat /\ LockTime \in Nat /\ lockedAt \in [Attempts -> Nat \cup {None}]
          /\ lockedFor \in [Attempts -> SUBSET Attempts]
      BY <2>1, LoginConstants DEF Tick, redis, inputs, history, LInv, TypeOK
    <3> QED BY <3>1 DEF LocksStand, LockHolds
  <2>2. CASE UNCHANGED vars
    BY <2>2 DEF vars, redis, inputs, history, LocksStand, LockHolds
  <2> QED BY <2>1, <2>2, AttemptLocks DEF Next
<1>3. Spec => [](LInv /\ LocksStand)
  BY <1>1, <1>2, InitLInv, StepLInv, PTL DEF Spec
<1> QED BY <1>3, PTL DEF LocksStand

-------------------------------------------------------------------------------
(* What the counters count.                                                 *)

Unfailed == {"idle", "address", "addressWindow", "isLocked", "compare", "failure"}

(* The history is filled in the order of the stages, and an attempt that has *)
(* counted a failure is within the lag until it has acted on it.             *)
Ordered ==
  \A a \in Attempts :
    /\ at[a] \in {"idle", "address"} => passedAt[a] = None
    /\ passedAt[a] # None => passedAt[a] <= now
    /\ at[a] \in Unfailed => failedAt[a] = None
    /\ failedAt[a] # None => failedAt[a] <= now
    /\ at[a] \in {"failureWindow", "lock"} => failedAt[a] # None /\ now <= failedAt[a] + Lag

OInv == LInv /\ Ordered

-------------------------------------------------------------------------------
(* A step of one attempt *)

(* What every attempt keeps that a step is not about. *)
Kept(b) ==
  /\ at'[b] = at[b] /\ account'[b] = account[b] /\ address'[b] = address[b]
  /\ passedAt'[b] = passedAt[b] /\ failedAt'[b] = failedAt[b]

LEMMA Facts ==
  ASSUME LInv
  PROVE  /\ now \in Nat /\ {AddressLimit, AddressWindow, FailureLimit, FailureWindow, Lag} \subseteq Nat
         /\ AddressLimit > 0 /\ FailureLimit > 1 /\ None \notin Nat
         /\ Addresses \subseteq Counters /\ Accounts \subseteq Counters /\ Addresses \cap Accounts = {}
         /\ count \in [Counters -> Nat] /\ deadline \in [Counters -> Nat \cup {None}]
         /\ passedAt \in [Attempts -> Nat \cup {None}] /\ failedAt \in [Attempts -> Nat \cup {None}]
         /\ \A a \in Attempts : at[a] # "idle" => account[a] \in Accounts /\ address[a] \in Addresses
BY LoginConstants DEF LInv, TypeOK, Shape, Counters

LEMMA OthersKept ==
  ASSUME LInv, NEW a \in Attempts, Attempt(a), NEW b \in Attempts, b # a
  PROVE  Kept(b)
BY DEF LInv, TypeOK, Kept, Attempt, Arrive, CountAddress, ExpireAddress, IsLocked, Compare, CountFailure,
       ExpireFailure, Lock, Forget, Clear, CreateSession, Fail, Go, inputs, history, redis

LEMMA OwnStep ==
  ASSUME LInv, NEW a \in Attempts, Attempt(a)
  PROVE  /\ now' = now
         /\ at[a] # "idle" => account'[a] = account[a] /\ address'[a] = address[a]
         /\ (at[a] = "idle" => at'[a] = "address") /\ at[a] \notin Died
         /\ ~CountAddress(a) => passedAt'[a] = passedAt[a] /\ at'[a] # "addressWindow"
         /\ ~CountFailure(a) => failedAt'[a] = failedAt[a] /\ at'[a] \notin {"failureWindow", "lock"}
         /\ at'[a] # "idle" /\ (at'[a] = "address" => at[a] = "idle")
         /\ at'[a] \in Unfailed => at[a] \in Unfailed /\ ~CountFailure(a)
<1>0. at \in [Attempts -> Stages] /\ passedAt \in [Attempts -> Nat \cup {None}]
      /\ failedAt \in [Attempts -> Nat \cup {None}]
  BY DEF LInv, TypeOK
<1> USE DEF Unfailed, Expiring, Ended, Died
<1>1. CASE \E u \in Accounts, i \in Addresses : Arrive(a, u, i)
  BY <1>0, <1>1 DEF Arrive, CountFailure, CountAddress, Go
<1>2. CASE CountAddress(a) \/ ExpireAddress(a)
  BY <1>0, <1>2 DEF CountAddress, ExpireAddress, CountFailure, Go, inputs, history
<1>3. CASE IsLocked(a) \/ Compare(a) \/ CreateSession(a)
  BY <1>0, <1>3 DEF IsLocked, Compare, CreateSession, CountFailure, CountAddress, Go, inputs, history
<1>4. CASE CountFailure(a) \/ ExpireFailure(a)
  BY <1>0, <1>4 DEF CountFailure, ExpireFailure, CountAddress, Go, inputs, history
<1>5. CASE Lock(a) \/ Forget(a) \/ Clear(a)
  BY <1>0, <1>5 DEF Lock, Forget, Clear, CountFailure, CountAddress, Go, inputs, history
<1>6. CASE Fail(a)
  BY <1>0, <1>6 DEF Fail, CountFailure, CountAddress, Go, inputs, history
<1>. QED BY <1>1, <1>2, <1>3, <1>4, <1>5, <1>6 DEF Attempt

(* Which commands touch which counters *)
LEMMA CountersKept ==
  ASSUME LInv, NEW a \in Attempts, Attempt(a), NEW k \in Counters
  PROVE  \/ count'[k] = count[k] /\ deadline'[k] = deadline[k]
         \/ k = address[a] /\ at[a] # "idle" /\ (CountAddress(a) \/ ExpireAddress(a))
         \/ k = account[a] /\ at[a] # "idle" /\ (CountFailure(a) \/ ExpireFailure(a))
         \/ k = account[a] /\ at[a] # "idle" /\ count'[k] = 0
<1>0. count \in [Counters -> Nat] /\ deadline \in [Counters -> Nat \cup {None}]
  BY DEF LInv, TypeOK
<1>1. CASE \E u \in Accounts, i \in Addresses : Arrive(a, u, i)
  BY <1>1 DEF Arrive, redis
<1>2. CASE IsLocked(a) \/ Compare(a) \/ CreateSession(a) \/ Fail(a) \/ Lock(a)
  BY <1>2 DEF IsLocked, Compare, CreateSession, Fail, Lock, redis
<1>3. CASE CountAddress(a) \/ CountFailure(a)
  BY <1>0, <1>3 DEF CountAddress, CountFailure, Incr
<1>4. CASE ExpireAddress(a) \/ ExpireFailure(a)
  BY <1>0, <1>4 DEF ExpireAddress, ExpireFailure, Expire
<1>5. CASE Forget(a) \/ Clear(a)
  BY <1>0, <1>5 DEF Forget, Clear, Delete
<1>. QED BY <1>1, <1>2, <1>3, <1>4, <1>5 DEF Attempt

LEMMA OrderedStep ==
  ASSUME OInv, [Next]_vars PROVE Ordered'
<1>0. LInv /\ Ordered
  BY DEF OInv
<1>1. CASE Tick
  <2>1. /\ now' = now + 1 /\ UNCHANGED <<at, passedAt, failedAt>>
        /\ \A a \in Attempts : at[a] \in {"failureWindow", "lock"} => now < failedAt[a] + Lag
    BY <1>1 DEF Tick, history
  <2>. QED BY <1>0, <2>1, Facts DEF Ordered
<1>2. CASE UNCHANGED vars
  BY <1>0, <1>2 DEF Ordered, vars, history
<1>3. ASSUME NEW a \in Attempts, Attempt(a) PROVE Ordered'
  <2> SUFFICES ASSUME NEW b \in Attempts
               PROVE  /\ at'[b] \in {"idle", "address"} => passedAt'[b] = None
                      /\ passedAt'[b] # None => passedAt'[b] <= now'
                      /\ at'[b] \in Unfailed => failedAt'[b] = None
                      /\ failedAt'[b] # None => failedAt'[b] <= now'
                      /\ at'[b] \in {"failureWindow", "lock"} => failedAt'[b] # None /\ now' <= failedAt'[b] + Lag
    BY DEF Ordered
  <2>1. CASE b # a
    BY <1>0, <1>3, <2>1, OthersKept, OwnStep DEF Ordered, Kept
  <2>2. CASE b = a
    <3>1. CountAddress(a) => passedAt'[a] \in {now, None} /\ at'[a] \in {"addressWindow", "isLocked", "limited"}
      BY <1>0, Facts DEF CountAddress, Go, LInv, TypeOK
    <3>2. CountFailure(a) => failedAt'[a] = now
      BY <1>0, Facts DEF CountFailure
    <3>. QED BY <1>0, <1>3, <2>2, <3>1, <3>2, OwnStep, Facts DEF Ordered
  <2>. QED BY <2>1, <2>2
<1>. QED BY <1>1, <1>2, <1>3 DEF Next

LEMMA InitOInv == Init => OInv
BY InitLInv DEF Init, OInv, Ordered

LEMMA StepOInv == OInv /\ [Next]_vars => OInv'
BY OrderedStep, StepLInv DEF OInv

-------------------------------------------------------------------------------
(* The address limit                                                         *)

InWindow(i) ==
  {a \in Attempts : address[a] = i /\ passedAt[a] # None /\ now < passedAt[a] + AddressWindow}

(* The attempts an address has passed within a window: those of the counter  *)
(* that stands (C), and those but one of the counter before it (P), which    *)
(* are out of their window when the counter that stands ends.  One that the  *)
(* counter that stands has passed is out of its window by then, too.         *)
Cover(i, P, C) ==
  /\ IsFiniteSet(P) /\ Cardinality(P) < AddressLimit
  /\ IsFiniteSet(C) /\ Cardinality(C) <= AddressLimit /\ Cardinality(C) <= count[i]
  /\ count[i] > 0 => \E c \in C : deadline[i] # None => passedAt[c] + AddressWindow <= deadline[i]
  /\ \A p \in P : passedAt[p] # None /\ (deadline[i] # None => passedAt[p] + AddressWindow <= deadline[i])
  /\ \A c \in C : passedAt[c] # None
  /\ InWindow(i) \subseteq P \cup C

Covered == \A i \in Addresses : \E P, C \in SUBSET Attempts : Cover(i, P, C)

(* Time only empties a window. *)
LEMMA WindowShrinks ==
  ASSUME OInv, now' \in Nat, now <= now', NEW i \in Addresses,
         \A b \in Attempts : passedAt'[b] = passedAt[b],
         \A b \in Attempts : passedAt[b] # None => address'[b] = address[b]
  PROVE  InWindow(i)' \subseteq InWindow(i)
BY Facts DEF OInv, InWindow

LEMMA CoverKept ==
  ASSUME OInv, now' \in Nat, now <= now', NEW i \in Addresses,
         \A b \in Attempts : passedAt'[b] = passedAt[b],
         \A b \in Attempts : passedAt[b] # None => address'[b] = address[b],
         count'[i] = count[i], deadline'[i] = deadline[i],
         NEW P \in SUBSET Attempts, NEW C \in SUBSET Attempts, Cover(i, P, C)
  PROVE  Cover(i, P, C)'
BY WindowShrinks DEF Cover

(* A counter starts anew when it has ended: what it counted is now the       *)
(* counter before, and what that had counted is out of its window.           *)
LEMMA CountCovers ==
  ASSUME OInv, NEW a \in Attempts, CountAddress(a), NEW i \in Addresses, i = address[a],
         NEW P \in SUBSET Attempts, NEW C \in SUBSET Attempts, Cover(i, P, C)
  PROVE  \E Q, D \in SUBSET Attempts : Cover(i, Q, D)'
<1>0. LInv /\ Ordered
  BY DEF OInv
<1>1. /\ at[a] = "address" /\ passedAt[a] = None /\ now' = now /\ address' = address
      /\ \A b \in Attempts \ {a} : passedAt'[b] = passedAt[b]
      /\ passedAt'[a] = IF Allowed(a, Incremented(i)) THEN now ELSE None
      /\ count'[i] = Incremented(i)
      /\ deadline'[i] = IF Value(i) = 0 THEN None ELSE deadline[i]
  BY <1>0, Facts DEF Ordered, CountAddress, Incr, inputs
<1>2. a \notin P /\ a \notin C
  BY <1>1 DEF Cover
<1>3. InWindow(i)' \subseteq InWindow(i) \cup {a}
  BY <1>1 DEF InWindow
<1>4. ~Allowed(a, Incremented(i)) => InWindow(i)' \subseteq InWindow(i)
  BY <1>1 DEF InWindow
<1>5. Value(i) \in Nat /\ Incremented(i) = Value(i) + 1 /\ (Allowed(a, Incremented(i)) <=> Incremented(i) <= AddressLimit)
  BY <1>0, ValueIsNat, Facts DEF Incremented, Allowed
<1>6. IsFiniteSet(C) /\ Cardinality(C) \in Nat /\ IsFiniteSet(C \cup {a}) /\ Cardinality(C \cup {a}) = Cardinality(C) + 1
  BY <1>2, FS_AddElement, FS_CardinalityType DEF Cover
<1>7. count[i] # 0 =>
        \E c \in C : /\ passedAt'[c] = passedAt[c]
                     /\ deadline[i] # None => passedAt[c] + AddressWindow <= deadline[i]
  <2>1. count[i] # 0 => count[i] > 0
    BY <1>0, Facts
  <2>. QED BY <1>1, <1>2, <2>1 DEF Cover
<1>8. CASE Value(i) # 0
  <2>1. Value(i) = count[i] /\ deadline'[i] = deadline[i] /\ count[i] # 0
    BY <1>1, <1>8 DEF Value
  <2>2. CASE Allowed(a, Incremented(i))
    <3>1. Cardinality(C \cup {a}) <= AddressLimit /\ Cardinality(C \cup {a}) <= count'[i]
      BY <1>0, <1>1, <1>5, <1>6, <2>1, <2>2, Facts DEF Cover
    <3>2. \A p \in P : passedAt'[p] # None /\ (deadline'[i] # None => passedAt'[p] + AddressWindow <= deadline'[i])
      BY <1>1, <1>2, <2>1 DEF Cover
    <3>3. \A c \in C \cup {a} : passedAt'[c] # None
      BY <1>0, <1>1, <1>2, <2>2, Facts DEF Cover
    <3>4. InWindow(i)' \subseteq P \cup (C \cup {a})
      BY <1>3 DEF Cover
    <3>5. \E c \in C \cup {a} :
            deadline'[i] # None => passedAt'[c] + AddressWindow <= deadline'[i]
      BY <1>7, <2>1
    <3>6. Cover(i, P, C \cup {a})'
      BY <1>6, <3>1, <3>2, <3>3, <3>4, <3>5 DEF Cover
    <3>. QED BY <3>6
  <2>3. CASE ~Allowed(a, Incremented(i))
    <3>1. Cardinality(C) <= count'[i]
      BY <1>0, <1>1, <1>5, <1>6, <2>1, Facts DEF Cover
    <3>2. \A p \in P : passedAt'[p] # None /\ (deadline'[i] # None => passedAt'[p] + AddressWindow <= deadline'[i])
      BY <1>1, <1>2, <2>1 DEF Cover
    <3>3. \A c \in C : passedAt'[c] # None
      BY <1>1, <1>2 DEF Cover
    <3>4. \E c \in C : deadline'[i] # None => passedAt'[c] + AddressWindow <= deadline'[i]
      BY <1>7, <2>1
    <3>5. Cover(i, P, C)'
      BY <1>4, <2>3, <3>1, <3>2, <3>3, <3>4 DEF Cover
    <3>. QED BY <3>5
  <2>. QED BY <2>2, <2>3
<1>9. CASE Value(i) = 0
  <2>1. count'[i] = 1 /\ deadline'[i] = None /\ Allowed(a, Incremented(i)) /\ passedAt'[a] # None
    BY <1>0, <1>1, <1>5, <1>9, Facts
  <2>2. IsFiniteSet({a}) /\ Cardinality({a}) = 1
    BY FS_Singleton
  <2>3. CASE Expired(i)
    <3>1. \A p \in P : p \notin InWindow(i)
      BY <1>0, <2>3, Facts DEF Cover, Expired, InWindow
    <3>2. InWindow(i)' \subseteq C \cup {a}
      BY <1>3, <3>1 DEF Cover
    <3>3. \A c \in C : passedAt'[c] # None
      BY <1>1, <1>2 DEF Cover
    <3>4. CASE count[i] # 0
      <4>1. PICK o \in C : deadline[i] # None => passedAt[o] + AddressWindow <= deadline[i]
        BY <1>7, <3>4
      <4>2. o \notin InWindow(i)' /\ o # a
        BY <1>0, <1>1, <1>2, <2>3, <4>1, Facts DEF Cover, Expired, InWindow
      <4>3. /\ IsFiniteSet(C \ {o}) /\ Cardinality(C \ {o}) = Cardinality(C) - 1
        BY <1>6, <4>1, FS_RemoveElement
      <4>4. Cardinality(C \ {o}) < AddressLimit
        BY <1>0, <1>6, <4>3, Facts DEF Cover
      <4>5. InWindow(i)' \subseteq (C \ {o}) \cup {a}
        BY <3>2, <4>2
      <4>6. Cover(i, C \ {o}, {a})'
        BY <1>0, <2>1, <2>2, <3>3, <4>3, <4>4, <4>5, Facts DEF Cover
      <4>. QED BY <4>6
    <3>5. CASE count[i] = 0
      <4>1. C = {}
        BY <1>6, <3>5, FS_EmptySet DEF Cover
      <4>2. IsFiniteSet({}) /\ Cardinality({}) < AddressLimit
        BY <1>0, FS_EmptySet, Facts
      <4>3. Cover(i, {}, {a})'
        BY <1>0, <2>1, <2>2, <3>2, <4>1, <4>2, Facts DEF Cover
      <4>. QED BY <4>3
    <3>. QED BY <3>4, <3>5
  <2>4. CASE ~Expired(i)
    <3>1. Cardinality(C) = 0
      BY <1>6, <1>9, <2>4 DEF Cover, Value
    <3>2. C = {}
      BY <1>6, <3>1, FS_EmptySet
    <3>3. InWindow(i)' \subseteq P \cup {a}
      BY <1>3, <3>2 DEF Cover
    <3>4. \A p \in P : passedAt'[p] # None
      BY <1>1, <1>2 DEF Cover
    <3>5. Cover(i, P, {a})'
      BY <1>0, <2>1, <2>2, <3>3, <3>4, Facts DEF Cover
    <3>. QED BY <3>5
  <2>. QED BY <2>3, <2>4
<1>. QED BY <1>8, <1>9

(* EXPIRE gives the counter at least a whole window from now. *)
LEMMA ExpireCovers ==
  ASSUME OInv, NEW a \in Attempts, ExpireAddress(a), NEW i \in Addresses, i = address[a],
         NEW P \in SUBSET Attempts, NEW C \in SUBSET Attempts, Cover(i, P, C)
  PROVE  Cover(i, P, C)'
<1>0. LInv /\ Ordered
  BY DEF OInv
<1>1. /\ now' = now /\ count' = count /\ UNCHANGED <<address, passedAt>>
      /\ deadline'[i] = deadline[i] \/ deadline'[i] = now + AddressWindow
  BY <1>0, Facts DEF ExpireAddress, Expire, inputs, history
<1>2. \A p \in P : deadline'[i] # None => passedAt[p] + AddressWindow <= deadline'[i]
  BY <1>0, <1>1, Facts DEF Cover, Ordered
<1>3. InWindow(i)' = InWindow(i)
  BY <1>1 DEF InWindow
<1>4. count[i] > 0 => \E c \in C : deadline'[i] # None => passedAt[c] + AddressWindow <= deadline'[i]
  <2>1. \A c \in C : passedAt[c] \in Nat /\ passedAt[c] <= now
    BY <1>0, Facts DEF Cover, Ordered
  <2>. QED BY <1>0, <1>1, <2>1, Facts DEF Cover
<1>. QED BY <1>1, <1>2, <1>3, <1>4 DEF Cover

LEMMA CoveredStep ==
  ASSUME OInv, Covered, [Next]_vars PROVE Covered'
<1>0. LInv /\ Ordered
  BY DEF OInv
<1> SUFFICES ASSUME NEW i \in Addresses PROVE \E Q, D \in SUBSET Attempts : Cover(i, Q, D)'
  BY DEF Covered
<1>1. PICK P, C \in SUBSET Attempts : Cover(i, P, C)
  BY DEF Covered
<1>2. CASE Tick \/ UNCHANGED vars
  <2>1. /\ now' \in Nat /\ now <= now' /\ count' = count /\ deadline' = deadline
        /\ address' = address /\ passedAt' = passedAt
    BY <1>0, <1>2, Facts DEF Tick, vars, redis, inputs, history
  <2>. QED BY <1>1, <2>1, CoverKept
<1>3. ASSUME NEW a \in Attempts, Attempt(a) PROVE \E Q, D \in SUBSET Attempts : Cover(i, Q, D)'
  <2>1. CASE i = address[a] /\ CountAddress(a)
    BY <1>1, <2>1, CountCovers
  <2>2. CASE i = address[a] /\ ExpireAddress(a)
    BY <1>1, <2>2, ExpireCovers
  <2>3. CASE ~CountAddress(a) /\ ~(i = address[a] /\ ExpireAddress(a))
    <3>1. now' = now /\ now \in Nat
      BY <1>0, <1>3, OwnStep, Facts
    <3>2. \A b \in Attempts : passedAt'[b] = passedAt[b] /\ (passedAt[b] # None => address'[b] = address[b])
      BY <1>0, <1>3, <2>3, OwnStep, OthersKept DEF Kept, Ordered
    <3>3. count'[i] = count[i] /\ deadline'[i] = deadline[i]
      BY <1>0, <1>3, <2>3, OwnStep, CountersKept, Facts
    <3>. QED BY <1>1, <3>1, <3>2, <3>3, CoverKept
  <2>4. CASE CountAddress(a) /\ i # address[a]
    <3>1. /\ now' = now /\ now \in Nat /\ address' = address
          /\ \A b \in Attempts \ {a} : passedAt'[b] = passedAt[b]
          /\ passedAt[a] = None
          /\ count'[i] = count[i] /\ deadline'[i] = deadline[i]
      BY <1>0, <2>4, Facts DEF CountAddress, Incr, inputs, Ordered
    <3>2. InWindow(i)' \subseteq InWindow(i)
      BY <2>4, <3>1 DEF InWindow
    <3>3. a \notin P /\ a \notin C
      BY <1>1, <3>1 DEF Cover
    <3>4. Cover(i, P, C)'
      BY <1>1, <3>1, <3>2, <3>3 DEF Cover
    <3>. QED BY <3>4
  <2>. QED BY <2>1, <2>2, <2>3, <2>4
<1>. QED BY <1>2, <1>3 DEF Next

(* rate-limit.service.ts, hitRedis: an address passes fewer than twice its   *)
(* limit within the length of one window, whatever interleaving of INCR and  *)
(* EXPIRE opens and closes the windows and whichever attempts die between.   *)
THEOREM TwiceAtMost == Spec => []TwiceTheLimit
<1>1. Init => Covered
  <2> SUFFICES ASSUME Init, NEW i \in Addresses PROVE Cover(i, {}, {})
    BY DEF Covered
  <2>. QED BY FS_EmptySet, LoginConstants DEF Init, Cover, InWindow, Counters
<1>2. OInv /\ Covered => TwiceTheLimit
  <2> SUFFICES ASSUME OInv, Covered, NEW i \in Addresses
               PROVE  Cardinality(InWindow(i)) < 2 * AddressLimit
    BY DEF TwiceTheLimit, InWindow
  <2>1. PICK P, C \in SUBSET Attempts : Cover(i, P, C)
    BY DEF Covered
  <2>2. /\ IsFiniteSet(P \cup C)
        /\ Cardinality(P \cup C) = Cardinality(P) + Cardinality(C) - Cardinality(P \cap C)
    BY <2>1, FS_Union DEF Cover
  <2>3. IsFiniteSet(P \cap C) /\ Cardinality(P) \in Nat /\ Cardinality(C) \in Nat /\ Cardinality(P \cap C) \in Nat
    <3>1. IsFiniteSet(P) /\ IsFiniteSet(C) /\ P \cap C \in SUBSET P
      BY <2>1 DEF Cover
    <3>2. IsFiniteSet(P \cap C)
      BY <3>1, FS_Subset
    <3>. QED BY <3>1, <3>2, FS_CardinalityType
  <2>4. InWindow(i) \in SUBSET (P \cup C)
    BY <2>1 DEF Cover
  <2>5. IsFiniteSet(InWindow(i)) /\ Cardinality(InWindow(i)) <= Cardinality(P \cup C)
    BY <2>2, <2>4, FS_Subset
  <2>6. Cardinality(InWindow(i)) \in Nat /\ Cardinality(P \cup C) \in Nat
    BY <2>2, <2>5, FS_CardinalityType
  <2>7. Cardinality(P) < AddressLimit /\ Cardinality(C) <= AddressLimit /\ AddressLimit \in Nat
    BY <2>1, Facts DEF Cover, OInv
  <2>. QED BY <2>2, <2>3, <2>5, <2>6, <2>7
<1>3. OInv /\ Covered /\ [Next]_vars => Covered'
  BY CoveredStep
<1>. QED BY <1>1, <1>2, <1>3, InitOInv, StepOInv, PTL DEF Spec

-------------------------------------------------------------------------------
(* The failure counter                                                       *)

Failed == {b \in Attempts : failedAt[b] # None}
FailuresSince(k, st) == {b \in Attempts : failedAt[b] # None /\ account[b] = k /\ st <= failedAt[b]}

(* The counter of k that was created at st has counted no failure older than *)
(* itself, and whoever still sets its deadline failed no later than st.      *)
Generation(k, st) ==
  /\ st <= now /\ count[k] <= Cardinality(FailuresSince(k, st))
  /\ \A a \in Attempts : at[a] = "failureWindow" /\ account[a] = k => failedAt[a] <= st
  /\ deadline[k] # None => deadline[k] <= st + Lag + FailureWindow

Counted == \A k \in Accounts : count[k] = 0 \/ \E st \in Nat : Generation(k, st)

Recent(a) ==
  {b \in Attempts : failedAt[b] # None /\ account[b] = account[a] /\ failedAt[a] < failedAt[b] + FailureWindow + Lag}

(* An attempt died before it gave the failure counter of u an end. *)
Orphaned(u) == \E b \in Attempts : at[b] = "failureForEver" /\ account[b] = u

FInv == OInv /\ OnlyTheDeadCountForEver /\ IsFiniteSet(Failed) /\ Counted /\ LockIsEarned

LEMMA Finite ==
  ASSUME IsFiniteSet(Failed), NEW S \in SUBSET Failed
  PROVE  IsFiniteSet(S) /\ Cardinality(S) \in Nat
BY FS_Subset, FS_CardinalityType

LEMMA Larger ==
  ASSUME NEW T, IsFiniteSet(T), NEW S \in SUBSET T
  PROVE  Cardinality(S) \in Nat /\ Cardinality(T) \in Nat /\ Cardinality(S) <= Cardinality(T)
BY FS_Subset, FS_CardinalityType

(* What a step keeps of the failures that were counted. *)
FailuresKept ==
  \A b \in Attempts : failedAt[b] # None => failedAt'[b] = failedAt[b] /\ account'[b] = account[b]

LEMMA FailuresStay ==
  ASSUME OInv, [Next]_vars PROVE FailuresKept
<1>0. LInv /\ Ordered
  BY DEF OInv
<1> USE DEF FailuresKept
<1>1. CASE Tick \/ UNCHANGED vars
  BY <1>1 DEF Tick, vars, inputs, history
<1>2. ASSUME NEW a \in Attempts, Attempt(a) PROVE FailuresKept
  <2>1. failedAt[a] # None => ~CountFailure(a) /\ at[a] # "idle"
    BY <1>0 DEF Ordered, CountFailure, Unfailed
  <2>. QED BY <1>0, <1>2, <2>1, OthersKept, OwnStep DEF Kept
<1>. QED BY <1>1, <1>2 DEF Next

LEMMA OrphansStay ==
  ASSUME OInv, [Next]_vars, NEW u, Orphaned(u) PROVE Orphaned(u)'
<1>0. LInv
  BY DEF OInv
<1>1. CASE Tick \/ UNCHANGED vars
  BY <1>1 DEF Tick, vars, inputs, Orphaned
<1>2. ASSUME NEW a \in Attempts, Attempt(a) PROVE Orphaned(u)'
  <2>1. PICK b \in Attempts : at[b] = "failureForEver" /\ account[b] = u
    BY DEF Orphaned
  <2>2. b # a
    BY <1>0, <1>2, <2>1, OwnStep DEF Died
  <2>. QED BY <1>0, <1>2, <2>1, <2>2, OthersKept DEF Kept, Orphaned
<1>. QED BY <1>1, <1>2 DEF Next

LEMMA FailedStep ==
  ASSUME OInv, IsFiniteSet(Failed), [Next]_vars PROVE IsFiniteSet(Failed')
<1>0. LInv /\ Ordered
  BY DEF OInv
<1>1. CASE Tick \/ UNCHANGED vars
  BY <1>1 DEF Tick, vars, history, Failed
<1>2. ASSUME NEW a \in Attempts, Attempt(a) PROVE IsFiniteSet(Failed')
  <2>1. Failed' \in SUBSET (Failed \cup {a})
    BY <1>0, <1>2, OthersKept DEF Kept, Failed
  <2>2. IsFiniteSet(Failed \cup {a})
    BY FS_AddElement
  <2>. QED BY <2>1, <2>2, FS_Subset
<1>. QED BY <1>1, <1>2 DEF Next

(* A generation stays if its counter does and no one joins those who set it. *)
LEMMA GenerationKept ==
  ASSUME OInv, FailuresKept, IsFiniteSet(Failed'), NEW k \in Accounts, NEW st \in Nat, Generation(k, st),
         now' \in Nat, now <= now', count'[k] = count[k],
         deadline'[k] = deadline[k] \/ deadline'[k] <= st + Lag + FailureWindow,
         \A a \in Attempts : at'[a] = "failureWindow" /\ account'[a] = k =>
           at[a] = "failureWindow" /\ account[a] = k /\ failedAt'[a] = failedAt[a]
  PROVE  Generation(k, st)'
<1>1. FailuresSince(k, st) \subseteq FailuresSince(k, st)' /\ FailuresSince(k, st)' \subseteq Failed'
  BY DEF FailuresKept, FailuresSince, Failed
<1>2. IsFiniteSet(FailuresSince(k, st)')
  BY <1>1, FS_Subset
<1>3. /\ Cardinality(FailuresSince(k, st)) \in Nat /\ Cardinality(FailuresSince(k, st)') \in Nat
      /\ Cardinality(FailuresSince(k, st)) <= Cardinality(FailuresSince(k, st)')
  BY <1>1, <1>2, Larger
<1>4. count[k] \in Nat /\ now \in Nat
  BY Facts DEF OInv
<1>5. st <= now' /\ count'[k] <= Cardinality(FailuresSince(k, st)')
  BY <1>3, <1>4 DEF Generation
<1>6. deadline'[k] # None => deadline'[k] <= st + Lag + FailureWindow
  BY DEF Generation
<1>7. \A a \in Attempts : at'[a] = "failureWindow" /\ account'[a] = k => failedAt'[a] <= st
  BY DEF Generation
<1>. QED BY <1>5, <1>6, <1>7 DEF Generation

(* While a counter stands, its generation is no older than window and lag.   *)
LEMMA Young ==
  ASSUME FInv, FailureWindow > 0, NEW k \in Accounts, ~Orphaned(k), Value(k) # 0,
         NEW st \in Nat, Generation(k, st)
  PROVE  now < st + Lag + FailureWindow
<1>0. LInv /\ Ordered /\ OnlyTheDeadCountForEver
  BY DEF FInv, OInv
<1>1. k \in Counters /\ k \notin Addresses /\ Value(k) = count[k] /\ ~Expired(k) /\ count[k] \in Nat
  BY <1>0, Facts DEF Value
<1>2. CASE deadline[k] # None
  BY <1>0, <1>1, <1>2, Facts DEF Expired, Generation
<1>3. CASE deadline[k] = None
  <2>1. PICK a \in Attempts : Pending(a, k)
    BY <1>0, <1>1, <1>3 DEF OnlyTheDeadCountForEver, Pending
  <2>2. at[a] = "failureWindow" /\ account[a] = k
    BY <1>0, <1>1, <2>1, Facts DEF Pending, Orphaned
  <2>3. failedAt[a] <= st /\ failedAt[a] \in Nat /\ now <= failedAt[a] + Lag
    BY <1>0, <2>2, Facts DEF Generation, Ordered
  <2>. QED BY <1>0, <2>3, Facts
<1>. QED BY <1>2, <1>3

(* recordFailedLogin, INCR: one more failure of a generation, or a new one.  *)
LEMMA CountGenerates ==
  ASSUME FInv, FailuresKept, IsFiniteSet(Failed'), NEW a \in Attempts, CountFailure(a), NEW k \in Accounts,
         k = account[a]
  PROVE  /\ \E st \in Nat : Generation(k, st)'
         /\ at'[a] = "lock" =>
              \E st \in Nat : Value(k) # 0 /\ Generation(k, st) /\ Generation(k, st)' /\ FailureLimit <= count'[k]
<1>0. LInv /\ Ordered
  BY DEF FInv, OInv
<1>1. /\ failedAt[a] = None /\ now' = now /\ now \in Nat /\ account' = account
      /\ failedAt'[a] = now /\ \A b \in Attempts \ {a} : failedAt'[b] = failedAt[b] /\ at'[b] = at[b]
      /\ count'[k] = Incremented(k)
      /\ deadline'[k] = IF Value(k) = 0 THEN None ELSE deadline[k]
  BY <1>0, Facts DEF Ordered, Unfailed, CountFailure, Incr, inputs, Go
<1>2. Value(k) \in Nat /\ Incremented(k) = Value(k) + 1
  BY <1>0, ValueIsNat, Facts DEF Incremented
<1>3. /\ at'[a] = "failureWindow" => Value(k) = 0
      /\ at'[a] = "lock" => FailureLimit <= count'[k] /\ Value(k) # 0
  BY <1>0, <1>1, <1>2, Facts DEF CountFailure, Go, LInv, TypeOK
<1>4. None \notin Nat
  BY <1>0, Facts
<1>5. ASSUME NEW st \in Nat
      PROVE  IsFiniteSet(FailuresSince(k, st)') /\ Cardinality(FailuresSince(k, st)') \in Nat
  <2>1. FailuresSince(k, st)' \subseteq Failed'
    BY DEF FailuresSince, Failed
  <2>. QED BY <2>1, FS_Subset, FS_CardinalityType
<1>6. CASE Value(k) = 0
  <2>1. a \in FailuresSince(k, now)'
    BY <1>1, <1>4 DEF FailuresSince
  <2>2. 1 <= Cardinality(FailuresSince(k, now)')
    <3>1. {a} \in SUBSET FailuresSince(k, now)'
      BY <2>1
    <3>2. IsFiniteSet({a}) /\ Cardinality({a}) = 1
      BY FS_Singleton
    <3>. QED BY <1>1, <1>5, <3>1, <3>2, Larger
  <2>3. \A b \in Attempts : at'[b] = "failureWindow" => failedAt'[b] <= now
    BY <1>0, <1>1, Facts DEF Ordered
  <2>4. Generation(k, now)'
    BY <1>1, <1>2, <1>6, <2>2, <2>3 DEF Generation, FailuresSince
  <2>. QED BY <1>1, <1>3, <1>6, <2>4
<1>7. CASE Value(k) # 0
  <2>1. count[k] = Value(k) /\ deadline'[k] = deadline[k]
    BY <1>1, <1>7 DEF Value
  <2>2. PICK st \in Nat : Generation(k, st)
    BY <1>7, <2>1 DEF FInv, Counted
  <2>3. a \notin FailuresSince(k, st) /\ FailuresSince(k, st) \cup {a} \subseteq FailuresSince(k, st)'
    BY <1>1, <1>4, <2>2 DEF FailuresSince, Generation
  <2>4. IsFiniteSet(FailuresSince(k, st)) /\ Cardinality(FailuresSince(k, st)) \in Nat
    BY <1>5, <2>3, FS_Subset, FS_CardinalityType
  <2>5. Cardinality(FailuresSince(k, st) \cup {a}) = Cardinality(FailuresSince(k, st)) + 1
    BY <2>3, <2>4, FS_AddElement
  <2>6. Cardinality(FailuresSince(k, st)) + 1 <= Cardinality(FailuresSince(k, st)')
    BY <1>5, <2>3, <2>5, Larger
  <2>7. count'[k] <= Cardinality(FailuresSince(k, st)')
    BY <1>1, <1>2, <1>5, <2>1, <2>2, <2>4, <2>6 DEF Generation
  <2>8. \A b \in Attempts : at'[b] = "failureWindow" /\ account'[b] = k => failedAt'[b] <= st
    BY <1>1, <1>3, <1>7, <2>2 DEF Generation
  <2>9. Generation(k, st)'
    BY <1>1, <2>1, <2>2, <2>7, <2>8 DEF Generation
  <2>. QED BY <1>3, <1>7, <2>2, <2>9
<1>. QED BY <1>6, <1>7

LEMMA CountedStep ==
  ASSUME FInv, [Next]_vars, FailuresKept, IsFiniteSet(Failed')
  PROVE  Counted'
<1>0. LInv /\ Ordered /\ OInv
  BY DEF FInv, OInv
<1> SUFFICES ASSUME NEW k \in Accounts, count'[k] # 0 PROVE \E st \in Nat : Generation(k, st)'
  BY DEF Counted
<1>1. k \in Counters /\ k \notin Addresses /\ now \in Nat
  BY <1>0, Facts
<1>2. CASE Tick \/ UNCHANGED vars
  <2>1. /\ now' \in Nat /\ now <= now' /\ count' = count /\ deadline' = deadline
        /\ at' = at /\ account' = account /\ failedAt' = failedAt
    BY <1>1, <1>2 DEF Tick, vars, redis, inputs, history
  <2>2. PICK st \in Nat : Generation(k, st)
    BY <2>1 DEF FInv, Counted
  <2>3. Generation(k, st)'
    BY <1>0, <2>1, <2>2, GenerationKept
  <2>. QED BY <2>3
<1>3. ASSUME NEW a \in Attempts, Attempt(a) PROVE \E st \in Nat : Generation(k, st)'
  <2>1. CASE CountFailure(a) /\ k = account[a]
    BY <2>1, CountGenerates
  <2>2. CASE ExpireFailure(a) /\ k = account[a]
    <3>1. /\ at[a] = "failureWindow" /\ now' = now /\ UNCHANGED <<account, failedAt, count>>
          /\ \A b \in Attempts : at'[b] = "failureWindow" => at[b] = "failureWindow"
          /\ deadline'[k] = deadline[k] \/ deadline'[k] = now + FailureWindow
      BY <1>0, <1>1, <2>2, Facts DEF ExpireFailure, Expire, Go, inputs, history, LInv, TypeOK
    <3>2. PICK st \in Nat : Generation(k, st)
      BY <3>1 DEF FInv, Counted
    <3>3. failedAt[a] <= st /\ failedAt[a] \in Nat /\ now <= failedAt[a] + Lag
      BY <1>0, <2>2, <3>1, <3>2, Facts DEF Generation, Ordered
    <3>4. now + FailureWindow <= st + Lag + FailureWindow
      BY <1>0, <3>3, Facts
    <3>5. Generation(k, st)'
      BY <1>0, <1>1, <3>1, <3>2, <3>4, GenerationKept
    <3>. QED BY <3>5
  <2>3. CASE ~((CountFailure(a) \/ ExpireFailure(a)) /\ k = account[a])
    <3>1. count'[k] = count[k] /\ deadline'[k] = deadline[k] /\ now' = now
      BY <1>0, <1>1, <1>3, <2>3, CountersKept, OwnStep, Facts
    <3>2. ASSUME NEW b \in Attempts, at'[b] = "failureWindow", account'[b] = k
          PROVE  at[b] = "failureWindow" /\ account[b] = k /\ failedAt'[b] = failedAt[b]
      <4>1. CASE b # a
        BY <1>0, <1>3, <3>2, <4>1, OthersKept DEF Kept
      <4>2. CASE b = a
        <5>1. CountFailure(a) => account[a] = k
          BY <3>2, <4>2 DEF CountFailure, inputs
        <5>. QED BY <1>0, <1>3, <2>3, <3>2, <4>2, <5>1, OwnStep
      <4>. QED BY <4>1, <4>2
    <3>3. PICK st \in Nat : Generation(k, st)
      BY <3>1 DEF FInv, Counted
    <3>4. Generation(k, st)'
      BY <1>0, <1>1, <3>1, <3>2, <3>3, GenerationKept
    <3>. QED BY <3>4
  <2>. QED BY <2>1, <2>2, <2>3
<1>. QED BY <1>2, <1>3 DEF Next

LEMMA EarnedStep ==
  ASSUME FailureWindow > 0, FInv, [Next]_vars, FailuresKept, IsFiniteSet(Failed')
  PROVE  LockIsEarned'
<1>0. LInv /\ Ordered /\ OInv
  BY DEF FInv, OInv
<1> SUFFICES ASSUME NEW a \in Attempts, at'[a] = "lock", ~Orphaned(account[a])'
             PROVE  FailureLimit <= Cardinality(Recent(a)')
  BY DEF LockIsEarned, Recent, Orphaned
<1>1. IsFiniteSet(Recent(a)') /\ Cardinality(Recent(a)') \in Nat
  <2>1. Recent(a)' \subseteq Failed'
    BY DEF Recent, Failed
  <2>. QED BY <2>1, FS_Subset, FS_CardinalityType
<1>2. CASE at[a] = "lock"
  <2>1. failedAt'[a] = failedAt[a] /\ account'[a] = account[a]
    BY <1>0, <1>2 DEF Ordered, FailuresKept
  <2>2. Recent(a) \in SUBSET Recent(a)'
    BY <2>1 DEF Recent, FailuresKept
  <2>3. FailureLimit <= Cardinality(Recent(a))
    <3>1. ~Orphaned(account[a])
      BY <1>0, <2>1, OrphansStay DEF Orphaned
    <3>. QED BY <1>2, <3>1 DEF FInv, LockIsEarned, Recent, Orphaned
  <2>. QED BY <1>0, <1>1, <2>2, <2>3, Larger, Facts
<1>3. CASE at[a] # "lock"
  <2>1. CountFailure(a)
    <3>1. ~Tick /\ ~UNCHANGED vars
      BY <1>3 DEF Tick, vars
    <3>2. PICK b \in Attempts : Attempt(b)
      BY <3>1 DEF Next
    <3>3. b = a
      BY <1>0, <1>3, <3>2, OthersKept DEF Kept
    <3>. QED BY <1>0, <3>2, <3>3, OwnStep
  <2>2. account[a] \in Accounts /\ account' = account /\ failedAt'[a] = now /\ now \in Nat
    BY <1>0, <2>1, Facts DEF CountFailure, inputs
  <2>3. PICK st \in Nat : /\ Value(account[a]) # 0 /\ Generation(account[a], st)
                          /\ Generation(account[a], st)' /\ FailureLimit <= count'[account[a]]
    BY <2>1, <2>2, CountGenerates
  <2>4. ~Orphaned(account[a])
    BY <1>0, <2>2, OrphansStay DEF Orphaned
  <2>5. now < st + Lag + FailureWindow
    BY <2>2, <2>3, <2>4, Young
  <2>6. FailuresSince(account[a], st)' \in SUBSET Recent(a)'
    <3>1. SUFFICES ASSUME NEW b \in Attempts, failedAt'[b] # None, account'[b] = account'[a], st <= failedAt'[b]
                   PROVE  failedAt'[a] < failedAt'[b] + FailureWindow + Lag
      BY <2>2 DEF FailuresSince, Recent
    <3>2. failedAt'[b] \in Nat
      BY <1>0, <3>1, <2>1, <2>2, Facts DEF CountFailure
    <3>. QED BY <1>0, <2>2, <2>5, <3>1, <3>2, Facts
  <2>7. Cardinality(FailuresSince(account[a], st)') \in Nat
        /\ Cardinality(FailuresSince(account[a], st)') <= Cardinality(Recent(a)')
    BY <1>1, <2>6, Larger
  <2>8. count'[account[a]] <= Cardinality(FailuresSince(account[a], st)')
    BY <2>2, <2>3 DEF Generation
  <2>9. count'[account[a]] \in Nat
    BY <1>0, <2>2, StepLInv, Facts DEF LInv, TypeOK
  <2>. QED BY <1>0, <1>1, <2>3, <2>7, <2>8, <2>9, Facts
<1>. QED BY <1>2, <1>3

(* auth.service.ts, recordFailedLogin: an attempt that locks a username has  *)
(* FailureLimit failures of that username behind it, all within the failure  *)
(* window and the lag, whatever logins, deletions and windows run beside it, *)
(* unless one of its attempts died between INCR and EXPIRE.                  *)
THEOREM EarnedLocks ==
  ASSUME FailureWindow > 0
  PROVE  Spec => []LockIsEarned
<1>1. Init => FInv
  <2> SUFFICES ASSUME Init PROVE FInv
    OBVIOUS
  <2>1. Failed = {}
    BY DEF Init, Failed
  <2>2. OnlyTheDeadCountForEver /\ Counted /\ LockIsEarned
    BY DEF Init, OnlyTheDeadCountForEver, Counted, LockIsEarned, Counters
  <2>. QED BY <2>1, <2>2, InitOInv, FS_EmptySet DEF FInv
<1>2. FInv /\ [Next]_vars => FInv'
  <2> SUFFICES ASSUME FInv, [Next]_vars PROVE FInv'
    OBVIOUS
  <2>1. FailuresKept /\ IsFiniteSet(Failed')
    BY FailuresStay, FailedStep DEF FInv
  <2>2. OnlyTheDeadCountForEver'
    <3>1. CASE Tick \/ UNCHANGED vars
      BY <3>1 DEF FInv, Tick, vars, redis, inputs, OnlyTheDeadCountForEver
    <3>. QED BY <3>1, AttemptExpires DEF FInv, OInv, Next
  <2>3. OInv'
    BY StepOInv DEF FInv
  <2>. QED BY <2>1, <2>2, <2>3, CountedStep, EarnedStep DEF FInv
<1>3. FInv => LockIsEarned
  BY DEF FInv
<1>. QED BY <1>1, <1>2, <1>3, PTL DEF Spec
================================================================================
