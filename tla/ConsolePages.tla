---------------------------- MODULE ConsolePages ----------------------------
(***************************************************************************)
(* The pages of the admin console (apps/admin-web): a resource list, and   *)
(* the detail page of an application, an agent or a signing key, with its  *)
(* confirm dialog, its secret sections and the one-time secret fields.     *)
(*                                                                         *)
(* A page talks to the admin service through requests that are served in   *)
(* any order, refused, or answered to nobody, while other administrators   *)
(* rename the record and rotate its secret.  The service is the part of    *)
(* applications.service.ts, agents.service.ts and caller-credentials.      *)
(* service.ts a page can see.  A secret is its number in order of issue.   *)
(***************************************************************************)
EXTENDS Integers, Sequences, FiniteSets, SequencesExt

CONSTANTS
  Pages,      \* the pages opened: "list", "applications", "agents", "keys"
  RecNames,   \* names a record can have
  MaxOps,     \* bound: requests a page sends between two mounts
  MaxReqs,    \* bound: requests under way
  MaxLoads,   \* bound: loads under way
  MaxOthers   \* bound: writes of other administrators

NoView == [rows |-> 0, name |-> "", status |-> "", secrets |-> <<>>]

VARIABLES
  page,      \* the page this tab shows
  srv,       \* the service: rows listed, and one record's name, status and secrets
  view,      \* rows and record as the page last loaded them
  loads,     \* loads under way, oldest first: [stage, snap, newest, frees]
  loading,   \* the list shows its skeleton
  left,      \* the tab went to the login page or back to the list
  dialog,    \* activeAction: "", "delete", "activate" or "retire"
  typed,     \* the text in the confirm dialog
  busy,      \* busyAction
  reqs,      \* requests under way: [op, arg, typed, stage, got, ours]
  issued,    \* the last one-time secret the page was given, 0 for none
  field,     \* the secret the one-time SecretField holds
  revealed,  \* the secret the revealing SecretField holds
  fresh,     \* history: the last load applied is the last one started
  mine,      \* history: secrets (list: rows) whose answer the page has had
  ops,       \* history: requests the page has sent
  rotations, \* history: rotations served since the page was mounted
  others,    \* history: writes of other administrators
  named      \* history: what the operator typed, and the name, at a deletion

viewVars == <<view, loads, loading, fresh>>
dialogVars == <<dialog, typed, busy>>
secretVars == <<issued, field, revealed>>
history == <<mine, ops, rotations, others, named>>
vars == <<page, srv, left, viewVars, dialogVars, secretVars, reqs, history>>

Detail == page # "list"
Acts == {"delete", "activate", "retire"}

------------------------------------------------------------------------------
(* Loads.                                                                   *)

\* load(): nothing stops a second load while one is under way.
StartLoad(frees) ==
  /\ loads' = Append([i \in DOMAIN loads |-> [loads[i] EXCEPT !.newest = FALSE]],
                     [stage |-> "sent", snap |-> NoView, newest |-> TRUE, frees |-> frees])
  /\ loading' = TRUE /\ fresh' = FALSE
  /\ UNCHANGED view

FirstLoad == <<[stage |-> "sent", snap |-> NoView, newest |-> TRUE, frees |-> FALSE]>>

TypeOK ==
  /\ page \in Pages /\ left \in BOOLEAN /\ loading \in BOOLEAN /\ busy \in BOOLEAN /\ fresh \in BOOLEAN
  /\ dialog \in {""} \cup Acts /\ typed \in {""} \cup RecNames
  /\ srv.name \in RecNames /\ \A k \in DOMAIN srv.secrets : srv.secrets[k] \in {"active", "revoked"}
  /\ Len(loads) <= MaxLoads /\ Len(reqs) <= MaxReqs
  /\ {issued, field, revealed} \subseteq Nat /\ mine \subseteq Nat

\* The page mounted anew: no state of an earlier mount survives.
Init ==
  /\ page \in Pages /\ left = FALSE
  /\ \E n \in RecNames : srv = [rows |-> 1, name |-> n, status |-> "active", secrets |-> <<"active">>]
  /\ view = NoView /\ loads = FirstLoad /\ loading = TRUE /\ fresh = FALSE
  /\ dialog = "" /\ typed = "" /\ busy = FALSE /\ reqs = <<>>
  /\ issued = 0 /\ field = 0 /\ revealed = 0
  /\ mine = {} /\ ops = 0 /\ rotations = 0 /\ others = 0 /\ named = <<"", "">>

\* A request under way goes on without the page that sent it.
Leave(rs) ==
  /\ left' = TRUE
  /\ view' = NoView /\ loads' = <<>> /\ loading' = FALSE /\ fresh' = FALSE
  /\ dialog' = "" /\ typed' = "" /\ busy' = FALSE
  /\ reqs' = [i \in DOMAIN rs |-> [rs[i] EXCEPT !.ours = FALSE]]
  /\ issued' = 0 /\ field' = 0 /\ revealed' = 0 /\ mine' = {} /\ rotations' = 0

\* Coming back, to the same page.
Mount ==
  /\ left /\ left' = FALSE
  /\ loads' = FirstLoad /\ loading' = TRUE
  /\ UNCHANGED <<page, srv, view, fresh, dialogVars, secretVars, reqs, history>>

\* The operator goes elsewhere.
Navigate == ~left /\ Leave(reqs) /\ UNCHANGED <<page, srv, ops, others, named>>

\* The list's refresh button.
Refresh ==
  /\ ~left /\ ~Detail /\ Len(loads) < MaxLoads
  /\ StartLoad(FALSE)
  /\ UNCHANGED <<page, srv, left, dialogVars, secretVars, reqs, history>>

LoadRead(i) ==
  /\ loads[i].stage = "sent"
  /\ IF Detail /\ srv.status = "deleted"
     THEN loads' = [loads EXCEPT ![i].stage = "failed"]
     ELSE loads' = [loads EXCEPT ![i].stage = "read", ![i].snap = srv]
  /\ UNCHANGED <<page, srv, left, view, loading, fresh, dialogVars, secretVars, reqs, history>>

\* The text of an open dialog is dropped when the name it must match changes.
LoadArrives(i) ==
  /\ loads[i].stage = "read"
  /\ view' = loads[i].snap /\ fresh' = loads[i].newest
  /\ loads' = RemoveAt(loads, i) /\ loading' = FALSE
  /\ typed' = IF dialog = "delete" /\ view'.name # view.name THEN "" ELSE typed
  /\ busy' = (busy /\ ~loads[i].frees)
  /\ UNCHANGED <<page, srv, left, dialog, secretVars, reqs, history>>

LoadFails(i) ==
  /\ loads' = RemoveAt(loads, i) /\ loading' = FALSE
  /\ busy' = (busy /\ ~loads[i].frees)
  /\ UNCHANGED <<page, srv, left, view, fresh, dialog, typed, secretVars, reqs, history>>

\* A load answered 401 leaves for the login page.
LoadUnauthorized(i) ==
  /\ loads[i].stage = "sent"
  /\ Leave(reqs)
  /\ UNCHANGED <<page, srv, ops, others, named>>

------------------------------------------------------------------------------
(* What the operator does.                                                  *)

Send(op, arg) ==
  /\ Len(reqs) < MaxReqs /\ ops < MaxOps
  /\ reqs' = Append(reqs, [op |-> op, arg |-> arg, typed |-> typed, stage |-> "sent", got |-> 0, ours |-> TRUE])
  /\ ops' = ops + 1

Shown == ~left /\ view # NoView

ActiveSecrets(r) == {k \in DOMAIN r.secrets : r.secrets[k] = "active"}
\* find(): the first active secret of the record.
ActiveSecret(r) == CHOOSE k \in ActiveSecrets(r) : \A j \in ActiveSecrets(r) : k <= j

\* The create dialog's submission (module ConsoleForm).
Create ==
  /\ page = "list" /\ ~left
  /\ Send("create", 0)
  /\ UNCHANGED <<page, srv, left, viewVars, dialogVars, secretVars, mine, rotations, others, named>>

\* No section button waits for the request it sent before.
SectionButton ==
  /\ Shown
  /\ \/ page = "applications" /\ Send("rotate", 0)
     \/ page = "agents" /\ view.status = "active" /\ Send("issue", 0)
     \/ page = "agents" /\ \E k \in ActiveSecrets(view) : Send("revoke", k)
  /\ UNCHANGED <<page, srv, left, viewVars, dialogVars, secretVars, mine, rotations, others, named>>

\* The revealing field is there until the page has issued a secret itself; it
\* asks for the secret its label names, once.
Reveal ==
  /\ Shown /\ page = "applications"
  /\ issued = 0 /\ revealed = 0 /\ ActiveSecrets(view) # {}
  /\ \A i \in DOMAIN reqs : ~(reqs[i].ours /\ reqs[i].op = "reveal")
  /\ Send("reveal", ActiveSecret(view))
  /\ UNCHANGED <<page, srv, left, viewVars, dialogVars, secretVars, mine, rotations, others, named>>

OpenConfirm(a) ==
  /\ Shown /\ dialog = ""
  /\ a \in IF page = "keys" THEN {"activate", "retire"} ELSE {"delete"}
  /\ page # "list"
  /\ dialog' = a /\ typed' = ""
  /\ UNCHANGED <<page, srv, left, viewVars, busy, secretVars, reqs, history>>

TypeName(n) ==
  /\ dialog = "delete" /\ typed' = n /\ n # typed
  /\ UNCHANGED <<page, srv, left, viewVars, dialog, busy, secretVars, reqs, history>>

CloseConfirm ==
  /\ dialog # "" /\ dialog' = "" /\ typed' = ""
  /\ UNCHANGED <<page, srv, left, viewVars, busy, secretVars, reqs, history>>

\* The button compares the text with the name shown; the body carries that name.
Confirm ==
  /\ dialog # "" /\ ~busy
  /\ dialog = "delete" => typed = view.name
  /\ Send(dialog, IF dialog = "delete" THEN view.name ELSE 0)
  /\ busy' = TRUE
  /\ UNCHANGED <<page, srv, left, viewVars, dialog, typed, secretVars, mine, rotations, others, named>>

------------------------------------------------------------------------------
(* The service.                                                             *)

Revoked(ss) == [k \in DOMAIN ss |-> "revoked"]

\* rotateSecret: the active ones are revoked, then one is created.
RotateSecret(s) == [s EXCEPT !.secrets = Append(Revoked(s.secrets), "active")]

\* What an operation makes of the service, where it is accepted.
Accepts(r) ==
  CASE r.op \in {"create", "activate", "retire"} -> TRUE
    [] r.op \in {"rotate"} -> srv.status # "deleted"
    [] r.op = "issue" -> srv.status = "active"
    [] r.op = "revoke" -> TRUE
    [] r.op = "reveal" -> srv.status # "deleted" /\ srv.secrets[r.arg] = "active"
    [] r.op = "delete" -> srv.status # "deleted" /\ r.arg = srv.name

After(r) ==
  CASE r.op = "create" -> [srv EXCEPT !.rows = @ + 1]
    [] r.op = "rotate" -> RotateSecret(srv)
    [] r.op = "issue" -> [srv EXCEPT !.secrets = Append(@, "active")]
    [] r.op = "revoke" -> [srv EXCEPT !.secrets[r.arg] = "revoked"]
    [] r.op = "reveal" -> srv
    [] r.op = "delete" -> [srv EXCEPT !.status = "deleted", !.secrets = Revoked(@)]
    [] r.op = "activate" -> [srv EXCEPT !.status = "active"]
    [] r.op = "retire" -> [srv EXCEPT !.status = "retired"]

Got(r) == CASE r.op = "create" -> srv.rows + 1
            [] r.op \in {"rotate", "issue"} -> Len(srv.secrets) + 1
            [] OTHER -> IF r.op = "reveal" THEN r.arg ELSE 0

Serve(i) ==
  LET r == reqs[i] IN
  /\ r.stage = "sent" /\ Accepts(r)
  /\ srv' = After(r)
  /\ reqs' = [reqs EXCEPT ![i].stage = "done", ![i].got = Got(r)]
  /\ named' = IF r.op = "delete" THEN <<r.typed, srv.name>> ELSE named
  /\ rotations' = IF r.op = "rotate" THEN rotations + 1 ELSE rotations
  /\ UNCHANGED <<page, left, viewVars, dialogVars, secretVars, mine, ops, others>>

------------------------------------------------------------------------------
(* Answers.                                                                 *)

\* useState(value): a SecretField keeps the first value it was given.
SecretFieldKeeps(old, value) == IF old = 0 THEN value ELSE old

\* Mutant: the page does not load again.
AnswerSecretStale(i) ==
  LET r == reqs[i] IN
  /\ r.ours /\ r.stage = "done" /\ r.op \in {"create", "rotate", "issue"}
  /\ reqs' = RemoveAt(reqs, i)
  /\ issued' = r.got /\ field' = SecretFieldKeeps(field, r.got) /\ mine' = mine \cup {r.got}
  /\ UNCHANGED <<page, srv, left, viewVars, dialogVars, revealed, ops, rotations, others, named>>

AnswerSecret(i) ==
  LET r == reqs[i] IN
  /\ r.ours /\ r.stage = "done" /\ r.op \in {"create", "rotate", "issue"} /\ Len(loads) < MaxLoads
  /\ reqs' = RemoveAt(reqs, i)
  /\ issued' = r.got /\ field' = SecretFieldKeeps(field, r.got) /\ mine' = mine \cup {r.got}
  /\ UNCHANGED <<page, srv, left, dialogVars, revealed, ops, rotations, others, named>>
  /\ StartLoad(FALSE)

AnswerRevoke(i) ==
  /\ reqs[i].ours /\ reqs[i].stage = "done" /\ reqs[i].op = "revoke" /\ Len(loads) < MaxLoads
  /\ reqs' = RemoveAt(reqs, i)
  /\ UNCHANGED <<page, srv, left, dialogVars, secretVars, history>>
  /\ StartLoad(FALSE)

AnswerReveal(i) ==
  /\ reqs[i].ours /\ reqs[i].stage = "done" /\ reqs[i].op = "reveal"
  /\ reqs' = RemoveAt(reqs, i)
  /\ revealed' = IF issued = 0 THEN reqs[i].got ELSE 0
  /\ UNCHANGED <<page, srv, left, viewVars, dialogVars, issued, field, history>>

\* A key action that succeeded closes whichever dialog is open by now; the page
\* is busy until its load has ended.
AnswerAct(i) ==
  /\ reqs[i].ours /\ reqs[i].stage = "done" /\ reqs[i].op \in {"activate", "retire"} /\ Len(loads) < MaxLoads
  /\ reqs' = RemoveAt(reqs, i)
  /\ dialog' = "" /\ typed' = ""
  /\ UNCHANGED <<page, srv, left, busy, secretVars, history>>
  /\ StartLoad(TRUE)

\* A deletion goes back to the list.
AnswerDelete(i) ==
  /\ reqs[i].ours /\ reqs[i].stage = "done" /\ reqs[i].op = "delete"
  /\ Leave(RemoveAt(reqs, i))
  /\ UNCHANGED <<page, srv, ops, others, named>>

\* A refusal, or an answer that never comes: the page shows an error.
AnswerError(i) ==
  /\ reqs[i].stage = "sent" \/ reqs[i].stage = "done"
  /\ reqs' = RemoveAt(reqs, i)
  /\ busy' = (busy /\ ~(reqs[i].ours /\ reqs[i].op \in Acts))
  /\ UNCHANGED <<page, srv, left, viewVars, dialog, typed, secretVars, history>>

------------------------------------------------------------------------------
OtherAdmin ==
  /\ others < MaxOthers /\ others' = others + 1 /\ srv.status # "deleted"
  /\ \/ \E n \in RecNames \ {srv.name} : srv' = [srv EXCEPT !.name = n] /\ UNCHANGED rotations
     \/ page = "applications" /\ srv' = RotateSecret(srv) /\ rotations' = rotations + 1
  /\ UNCHANGED <<page, left, viewVars, dialogVars, secretVars, reqs, mine, ops, named>>

Next ==
  \/ Mount \/ Navigate \/ Refresh \/ Create \/ SectionButton \/ Reveal \/ CloseConfirm \/ Confirm \/ OtherAdmin
  \/ \E a \in Acts : OpenConfirm(a)
  \/ \E n \in RecNames : TypeName(n)
  \/ \E i \in DOMAIN loads : LoadRead(i) \/ LoadUnauthorized(i) \/ LoadArrives(i) \/ LoadFails(i)
  \/ \E i \in DOMAIN reqs : \/ Serve(i) \/ AnswerSecret(i) \/ AnswerRevoke(i) \/ AnswerReveal(i)
                            \/ AnswerAct(i) \/ AnswerDelete(i) \/ AnswerError(i)

Spec == Init /\ [][Next]_vars

------------------------------------------------------------------------------
(* Properties.                                                              *)

\* When the load applied last is the one started last, what the page shows has
\* every secret and row it was told of: each operation loads again after its
\* answer.  (An older load that ends later takes the page back.)
FreshViewHasOwnWork ==
  fresh => \A k \in mine : k <= IF page = "list" THEN view.rows ELSE Len(view.secrets)

\* busyAction is set exactly while one confirmed action is under way, its load
\* included: two actions never run together and no failure leaves it set.
BusyIsUnderWay ==
  Cardinality({i \in DOMAIN reqs : reqs[i].ours /\ reqs[i].op \in Acts}) + Cardinality({i \in DOMAIN loads : loads[i].frees})
    = IF busy THEN 1 ELSE 0

\* A record is deleted only under the very name the operator typed: a rename
\* meanwhile empties the dialog, or the service refuses.
DeletedAsTyped == named[1] = named[2]

\* After a single rotation since the page was opened, whoever made it and however
\* late its answer is, the secret the page shows for it is the active one.
OneRotationIsActive ==
  page = "applications" /\ field # 0 /\ rotations = 1 /\ srv.status = "active" => srv.secrets[field] = "active"


\* The pages keep up with the requests they send: what they show, the flag that
\* guards their actions, the name they delete by and the secret they show.
PagesKeepUp == TypeOK /\ FreshViewHasOwnWork /\ BusyIsUnderWay /\ DeletedAsTyped /\ OneRotationIsActive
============================================================================
