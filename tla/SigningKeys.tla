------------------------------ MODULE SigningKeys ------------------------------
(***************************************************************************)
(* The signing keys of AuthAny: an administrator creates, activates and    *)
(* retires them (server/src/modules/admin/keys/keys.service.ts), every     *)
(* token is signed with the active one and verified with the one its kid   *)
(* names, and the key set that targets fetch lists the usable ones         *)
(* (server/src/shared/security/token-signer.service.ts).  What a target    *)
(* makes of the key set is in TargetService.                               *)
(*                                                                         *)
(* Activation is two database writes, and a signer keeps the key it read   *)
(* until the token is signed, so calls, signers and clock ticks interleave. *)
(***************************************************************************)
EXTENDS Naturals

CONSTANTS
  Keys,         \* rows of key_rotation_records
  KidOf,        \* the kid a row is created with; the table does not make it unique
  Admins,       \* administrators, one call at a time each
  Signers,      \* calls of signWithMetadata, one token each
  Lifetime,     \* max(accessTokenTtlSeconds, targetTokenTtlSeconds, 300)
  Grace,        \* the 60 seconds a retired key outlives the longest token
  WriteLag,     \* assumed: how long a write may take after its time stamp
  SignLag,      \* assumed: how long signing may take after the key was read
  MaxTime,      \* bound of the clock
  None          \* an absent row or time

ASSUME KeyConstants ==
  /\ Lifetime \in Nat \ {0} /\ Grace \in Nat
  /\ WriteLag \in Nat /\ SignLag \in Nat
  /\ MaxTime \in Nat

(* The margin of isVerificationKeyUsable covers one write and one signature. *)
ASSUME GraceCoversLag == WriteLag + SignLag <= Grace

Times == 0 .. MaxTime
KeyRow == [status: {"pending", "active", "verifying", "retired"},
           activatedAt: Times \cup {None}, retiredAt: Times \cup {None}]
Token == [key: Keys, issuedAt: Times, expiresAt: Nat]

ASSUME NoneIsNoRow ==
  None \notin Nat /\ None \notin KeyRow /\ None \notin Token

VARIABLES
  now,        \* Date.now()
  key,        \* key_rotation_records
  call,       \* where each administrator's call is
  subject,    \* the key the call is about
  stamp,      \* the time the call took before its writes
  signer,     \* where each signature is
  held,       \* the key a signer read
  since,      \* when it read the key
  token       \* the token it signed

calls == <<call, subject, stamp>>
signers == <<signer, held, since, token>>
vars == <<now, key, calls, signers>>

Exists(k) == key[k] # None
ActiveKeys == {k \in Keys : Exists(k) /\ key[k].status = "active"}

--------------------------------------------------------------------------------
(* Plausible bugs, one for each property; no action uses them. *)

(* retiredAt is left undefined instead of null. *)
ForgetRetirement(row) ==
  [status |-> "verifying", activatedAt |-> row.activatedAt]

(* A retired key goes with the tokens issued when it was retired, without   *)
(* the margin.                                                              *)
UsableForLifetime(k) ==
  /\ Exists(k) /\ key[k].status # "pending"
  /\ key[k].status = "retired" => now < key[k].retiredAt + Lifetime

--------------------------------------------------------------------------------
(* isVerificationKeyUsable, of a row whose status is not pending *)
Usable(k) ==
  /\ Exists(k) /\ key[k].status # "pending"
  /\ key[k].status = "retired" =>
       key[k].retiredAt # None /\ now <= key[k].retiredAt + Lifetime + Grace

(* getJwks *)
Published == {k \in Keys : Usable(k)}

(* getActiveSigningKey: the active row with the latest activatedAt *)
Newest == {k \in ActiveKeys : \A j \in ActiveKeys :
             key[j].activatedAt <= key[k].activatedAt}

(* findFirst of a row by kid, whatever its usability: any row may come first. *)
RowsOfKid(kid) ==
  {k \in Keys : Exists(k) /\ KidOf[k] = kid /\ key[k].status # "pending"}

(* verify accepts what key k signed, whichever row is found. *)
ServerAccepts(k) ==
  /\ RowsOfKid(KidOf[k]) # {}
  /\ \A j \in RowsOfKid(KidOf[k]) : j = k /\ Usable(j)

Unexpired(t) == now < t.expiresAt

--------------------------------------------------------------------------------
(* Administrators *)

Create(k) ==
  /\ ~Exists(k)
  /\ key' = [key EXCEPT ![k] =
               [status |-> "pending", activatedAt |-> None, retiredAt |-> None]]
  /\ UNCHANGED <<now, calls, signers>>

(* requireRecord, then the time the call writes later. *)
Begin(a, k, to) ==
  /\ call[a] = "idle" /\ Exists(k)
  /\ call' = [call EXCEPT ![a] = to]
  /\ subject' = [subject EXCEPT ![a] = k]
  /\ stamp' = [stamp EXCEPT ![a] = now]
  /\ UNCHANGED <<now, key, signers>>

BeginActivate(a, k) == Begin(a, k, "activating")
BeginRetire(a, k) == Begin(a, k, "retiring")

(* The row of an active key after updateMany. *)
DemotedRow(row) == [row EXCEPT !.status = "verifying", !.retiredAt = None]

(* activate: every active key is demoted, ... *)
Demote(a) ==
  /\ call[a] = "activating"
  /\ key' = [k \in Keys |-> IF k \in ActiveKeys THEN DemotedRow(key[k]) ELSE key[k]]
  /\ call' = [call EXCEPT ![a] = "demoted"]
  /\ UNCHANGED <<now, subject, stamp, signers>>

End(a) ==
  /\ call' = [call EXCEPT ![a] = "idle"]
  /\ subject' = [subject EXCEPT ![a] = None]
  /\ stamp' = [stamp EXCEPT ![a] = 0]
  /\ UNCHANGED <<now, signers>>

(* ... then, in a second statement, the chosen one is promoted. *)
Promote(a) ==
  /\ call[a] = "demoted"
  /\ key' = [key EXCEPT ![subject[a]] =
               [status |-> "active", activatedAt |-> stamp[a], retiredAt |-> None]]
  /\ End(a)

RetiredRow(row, t) == [row EXCEPT !.status = "retired", !.retiredAt = t]

Retire(a) ==
  /\ call[a] = "retiring"
  /\ key' = [key EXCEPT ![subject[a]] = RetiredRow(key[subject[a]], stamp[a])]
  /\ End(a)

(* A write fails or the server dies: the call ends where it is. *)
Fail(a) == call[a] # "idle" /\ End(a) /\ UNCHANGED key

--------------------------------------------------------------------------------
(* Signers *)

(* Without an active key signing throws. *)
ReadKey(s) ==
  /\ signer[s] = "idle"
  /\ \/ \E k \in Newest :
          /\ signer' = [signer EXCEPT ![s] = "holding"]
          /\ held' = [held EXCEPT ![s] = k]
          /\ since' = [since EXCEPT ![s] = now]
     \/ /\ ActiveKeys = {}
        /\ signer' = [signer EXCEPT ![s] = "failed"]
        /\ UNCHANGED <<held, since>>
  /\ UNCHANGED <<now, key, calls, token>>

(* iat is read after the key; no caller asks for more than Lifetime. *)
Sign(s, ttl) ==
  /\ signer[s] = "holding"
  /\ signer' = [signer EXCEPT ![s] = "signed"]
  /\ token' = [token EXCEPT ![s] =
                 [key |-> held[s], issuedAt |-> now, expiresAt |-> now + ttl]]
  /\ held' = [held EXCEPT ![s] = None]
  /\ since' = [since EXCEPT ![s] = 0]
  /\ UNCHANGED <<now, key, calls>>

--------------------------------------------------------------------------------
(* Time passes, but a retirement is written WriteLag after its time stamp   *)
(* at the latest, and a token is signed SignLag after its key was read.     *)
Tick ==
  /\ now < MaxTime
  /\ \A a \in Admins : call[a] = "retiring" => now < stamp[a] + WriteLag
  /\ \A s \in Signers : signer[s] = "holding" => now < since[s] + SignLag
  /\ now' = now + 1
  /\ UNCHANGED <<key, calls, signers>>

Init ==
  /\ now = 0
  /\ key = [k \in Keys |-> None]
  /\ call = [a \in Admins |-> "idle"]
  /\ subject = [a \in Admins |-> None]
  /\ stamp = [a \in Admins |-> 0]
  /\ signer = [s \in Signers |-> "idle"]
  /\ held = [s \in Signers |-> None]
  /\ since = [s \in Signers |-> 0]
  /\ token = [s \in Signers |-> None]

Administer(a) ==
  \/ \E k \in Keys : BeginActivate(a, k) \/ BeginRetire(a, k)
  \/ Demote(a) \/ Promote(a) \/ Retire(a) \/ Fail(a)

Use(s) ==
  \/ ReadKey(s)
  \/ \E ttl \in 1 .. Lifetime : Sign(s, ttl)

Next ==
  \/ \E k \in Keys : Create(k)
  \/ \E a \in Admins : Administer(a)
  \/ \E s \in Signers : Use(s)
  \/ Tick

Spec == Init /\ [][Next]_vars

--------------------------------------------------------------------------------
TypeOK ==
  /\ now \in Times
  /\ key \in [Keys -> KeyRow \cup {None}]
  /\ call \in [Admins -> {"idle", "activating", "demoted", "retiring"}]
  /\ subject \in [Admins -> Keys \cup {None}]
  /\ stamp \in [Admins -> Times]
  /\ signer \in [Signers -> {"idle", "holding", "signed", "failed"}]
  /\ held \in [Signers -> Keys \cup {None}]
  /\ since \in [Signers -> Times]
  /\ token \in [Signers -> Token \cup {None}]

(* specs/15 FLOW-05: key rotation leaves every token that has not expired   *)
(* verifiable.  However activations and retirements overlap, fail half-way  *)
(* or race a signer that already read the key, TokenSignerService.verify    *)
(* accepts the token, and the key set served to the targets lists its key.  *)
RotationKeepsTokens ==
  \A s \in Signers :
    token[s] # None /\ Unexpired(token[s])
      => ServerAccepts(token[s].key) /\ token[s].key \in Published
================================================================================
