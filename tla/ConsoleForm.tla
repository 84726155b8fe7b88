---------------------------- MODULE ConsoleForm ----------------------------
(***************************************************************************)
(* The form dialog of the admin console (apps/admin-web, resource-form-    *)
(* dialog.tsx) over the field tables of resource-definitions.tsx: one      *)
(* dialog, for one resource, that the operator opens, fills, submits and   *)
(* cancels while option lists load, answers are lost and another           *)
(* administrator edits the same row.                                       *)
(*                                                                         *)
(* A text is "" or "t", a JSON text "", "{}" or one that does not parse, a *)
(* checkbox "yes" or "no", a date an hour of the clock or NoDate, a chosen *)
(* option its value.  Labels, translations and layout are left out.        *)
(***************************************************************************)
EXTENDS Integers, Sequences, FiniteSets, SequencesExt

CONSTANTS
  Listed,      \* what each admin endpoint lists: endpoint -> set of ids
  OwnerOf,     \* the agent each listed runtime belongs to
  Active,      \* the listed targets whose status is active
  Offset,      \* hours the browser's zone is ahead of UTC
  Horizon,     \* bound: the last hour of the clock
  MaxBatches,  \* bound: option requests under way
  MaxSubs,     \* bound: submissions under way, of each dialog
  MaxLost,     \* bound: lost answers
  Forms,       \* the dialogs opened: <<resource, "create" | "edit">>
  Changed,     \* bound: the names the operator changes, of each dialog
  Picked       \* bound: the fixed options the operator picks

ASSUME OffsetAssumption == Offset \in Int

\* The dialogs there are: no page edits a key.
AllForms ==
  ({"applications", "agents", "runtimes", "target-resources", "target-connections", "access-grants"}
     \X {"create", "edit"}) \cup {<<"keys", "create">>}

ASSUME FormsAssumption == Forms \subseteq AllForms

\* An open dialog has one option request under way at least.
ASSUME BoundsAssumption ==
  Horizon \in Nat /\ MaxBatches \in Nat \ {0} /\ MaxSubs \in [Forms -> Nat] /\ MaxLost \in Nat

NoDate == -99
Dates == 0 .. Horizon

------------------------------------------------------------------------------
(* Fields, and how the tables write them.                                   *)

Field(n, ty) == [name |-> n, type |-> ty, required |-> TRUE, on |-> "", when |-> {},
                 opts |-> {}, src |-> "", query |-> "", check |-> ""]
Optional(f) == [f EXCEPT !.required = FALSE]
ShownWhen(f, on, vs) == [f EXCEPT !.on = on, !.when = vs]
Checked(f, c) == [f EXCEPT !.check = c]
Choice(n, vs) == [Field(n, "select") EXCEPT !.opts = vs]
Remote(n, ep) == [Field(n, "select") EXCEPT !.src = ep]

Statuses == {"active", "inactive", "suspended", "deleted"}
GrantStatuses == {"active", "inactive", "revoked", "deleted"}
ContextModes == {"optional", "required", "forbidden"}

Applications ==
  [create |-> {Field("name", "text"), Optional(Field("description", "text")), Field("redirect_uris", "string-array")},
   edit |-> {Field("name", "text"), Optional(Field("description", "text")),
             Choice("status", {"active", "inactive"}), Field("redirect_uris", "string-array")}]

AgentsForm ==
  [create |-> {Field("name", "text"), Optional(Field("description", "text"))},
   edit |-> {Field("name", "text"), Choice("status", Statuses), Optional(Field("description", "text"))}]

RuntimesForm ==
  [create |-> {Remote("agent_id", "agents"), Field("runtime_type", "text"),
               Choice("runtime_mode", {"stateless", "stateful"}),
               Optional(Field("allows_delegation_refresh", "boolean")),
               Optional(Field("allows_remote_cache_reuse", "boolean"))},
   edit |-> {Choice("status", Statuses), Choice("runtime_mode", {"stateless", "stateful"}),
             Optional(Field("allows_delegation_refresh", "boolean")),
             Optional(Field("allows_remote_cache_reuse", "boolean"))}]

TargetResources ==
  [create |-> {Field("target_resource_code", "text"), Field("display_name", "text"), Field("audience", "text"),
               Choice("token_validation_mode", {"jwks", "introspection"}), Field("trust_config_json", "json")},
   edit |-> {Field("display_name", "text"), Field("audience", "text"), Choice("status", Statuses),
             Choice("token_validation_mode", {"jwks", "introspection"}), Field("trust_config_json", "json")}]

\* The principal is one of three lists, whichever the type calls for; the
\* providers appear twice, once always and once, not required, for "forbidden".
ConnectionCreate ==
  {Choice("principal_type", {"agent", "application", "runtime"}),
   ShownWhen(Remote("principal_id", "applications"), "principal_type", {"application"}),
   ShownWhen(Remote("principal_id", "agents"), "principal_type", {"agent"}),
   ShownWhen(Remote("principal_id", "runtimes"), "principal_type", {"runtime"}),
   Optional(ShownWhen([Remote("runtime_id", "runtimes") EXCEPT !.query = "principal_id"],
                      "principal_type", {"agent"})),
   Remote("target_resource", "active target-resources"),
   Choice("external_context_mode", ContextModes),
   Checked(Field("allowed_context_providers", "string-array"), "providers"),
   Optional(ShownWhen(Field("allowed_context_providers", "string-array"), "external_context_mode", {"forbidden"})),
   Field("max_token_ttl_seconds", "number")}

ConnectionEdit ==
  {Choice("status", Statuses), Choice("external_context_mode", ContextModes),
   Checked(Field("allowed_context_providers", "string-array"), "providers"),
   Field("max_token_ttl_seconds", "number"), Optional(Field("expires_at", "datetime-local"))}

AccessGrants ==
  [create |-> {Remote("connection_id", "target-connections"), Choice("grant_type", {"target_access"}),
               Choice("effect", {"allow"}), Field("constraints", "json"),
               Checked(Field("expires_at", "datetime-local"), "expiry")},
   edit |-> {Choice("status", GrantStatuses), Choice("effect", {"allow"}), Field("constraints", "json"),
             Checked(Field("expires_at", "datetime-local"), "expiry")}]

KeysForm ==
  [create |-> {Optional(Field("kid", "text")), Optional(Choice("algorithm", {"RS256"}))}]

\* The dialog's fields: the localized table of the resource, for the mode.
Fields(form) ==
  LET key == form[1] mode == form[2] IN
  CASE key = "applications" -> Applications[mode]
    [] key = "agents" -> AgentsForm[mode]
    [] key = "runtimes" -> RuntimesForm[mode]
    [] key = "target-resources" -> TargetResources[mode]
    [] key = "target-connections" -> IF mode = "create" THEN ConnectionCreate ELSE ConnectionEdit
    [] key = "access-grants" -> AccessGrants[mode]
    [] key = "keys" -> KeysForm[mode]

Names(fs) == {f.name : f \in fs}

------------------------------------------------------------------------------
(* Values.                                                                  *)

\* formatInitialValue of a field no record has a value for.
Blank(f) == CASE f.type = "boolean" -> "no"
              [] f.type = "json" -> "{}"
              [] f.type = "datetime-local" -> NoDate
              [] OTHER -> ""

\* formatInitialValue: a stored date is written out in UTC, the rest as stored.
FormatInitialValue(f, rec) == IF f.name \in DOMAIN rec THEN rec[f.name] ELSE Blank(f)

FieldNamed(fs, n) == CHOOSE f \in fs : f.name = n
InitialValues(fs, rec) == [n \in Names(fs) |-> FormatInitialValue(FieldNamed(fs, n), rec)]

IsFieldVisible(f, vs) == f.on = "" \/ vs[f.on] \in f.when
Renderable(fs, vs) == {f \in fs : IsFieldVisible(f, vs)}

\* What an endpoint answers, for the query of a field that has one.
RowsOf(src, q) ==
  CASE src = "active target-resources" -> Listed["target-resources"] \cap Active
    [] src = "runtimes" /\ q # "" -> {r \in Listed["runtimes"] : OwnerOf[r] = q}
    [] OTHER -> Listed[src]

IsRemoteFieldReady(f, vs) == f.query = "" \/ vs[f.query] # ""
ResolveQueryValue(f, vs) == IF f.query = "" THEN "" ELSE vs[f.query]

\* The option requests one change of the values sends, all answered as one.
RemoteWants(fs, vs) ==
  {<<f.name, f.src, ResolveQueryValue(f, vs)>> :
     f \in {g \in Renderable(fs, vs) : g.src # "" /\ IsRemoteFieldReady(g, vs)}}

\* The effect that blanks the names no visible field has.
HiddenReset(fs, vs) ==
  LET shown == Names(Renderable(fs, vs)) IN
  [n \in DOMAIN vs |-> IF n \in shown THEN vs[n] ELSE Blank(FieldNamed(fs, n))]

IsBlankText(f, v) == IF f.type = "datetime-local" THEN v = NoDate ELSE v = ""

\* The browser reads the date it is given as local time.
Instant(v) == IF v = NoDate THEN NoDate ELSE v - Offset

GrantExpiryFails(v, clock) == v = NoDate \/ Instant(v) <= clock
ContextProviderFails(v, vs) == vs.external_context_mode \in {"optional", "required"} /\ v = ""

\* validateFields: the names of the fields that get an error.
ValidateFields(fs, vs, clock) ==
  {f.name : f \in {g \in Renderable(fs, vs) :
     \/ g.check = "expiry" /\ GrantExpiryFails(vs[g.name], clock)
     \/ g.check = "providers" /\ ContextProviderFails(vs[g.name], vs)
     \/ /\ g.required /\ g.type # "boolean"
        /\ IsBlankText(g, vs[g.name]) \/ (g.type = "json" /\ vs[g.name] = "bad")}}

\* buildPayload: the visible names, a date as the instant it stands for.
BuildPayload(fs, vs) ==
  [n \in Names(Renderable(fs, vs)) |->
     IF FieldNamed(fs, n).type = "datetime-local" THEN Instant(vs[n]) ELSE vs[n]]

\* What the operator may put in a field.
Typed(f, options) ==
  CASE f.type = "boolean" -> {"yes", "no"}
    [] f.type = "json" -> {"", "{}", "bad"}
    [] f.type = "datetime-local" -> Dates \cup {NoDate}
    [] f.type = "select" -> {""} \cup (IF f.opts # {} THEN f.opts \cap Picked ELSE options[f.name])
    [] OTHER -> {"", "t"}

------------------------------------------------------------------------------
VARIABLES
  form,     \* the dialog this console opens
  open,     \* the dialog is mounted
  record,   \* the record the page shows and hands to the dialog
  values,   \* the dialog's values
  options,  \* the option lists the dialog has
  batches,  \* option requests under way, oldest first: [want, newest]
  row,      \* the row on the server (edit)
  subs,     \* submissions under way: [mine, stage, payload, base, kept]
  hour,     \* the clock, in hours
  lost,     \* answers lost since the dialog was opened
  touched,  \* history (edit): the names typed since the values were last set
  fresh,    \* history: the last options applied are those last asked for
  stored    \* history: rows this opening of the dialog has created

pageVars == <<form, record, row>>
dialogVars == <<open, values, options, batches, touched, fresh>>
saveVars == <<subs, lost, stored>>
formVars == <<pageVars, dialogVars, saveVars, hour>>

Flds == Fields(form)
Editing == form[2] = "edit"
Busy == \E i \in DOMAIN subs : subs[i].mine

\* The options effect: it runs whenever the values or the visible fields change.
LoadOptions(vs) ==
  LET want == RemoteWants(Flds, vs) IN
  IF want = {}
  THEN UNCHANGED <<batches, fresh>>
  ELSE /\ batches' = Append([i \in DOMAIN batches |-> [batches[i] EXCEPT !.newest = FALSE]],
                            [want |-> want, newest |-> TRUE])
       /\ fresh' = FALSE

\* A row as a create leaves it: a connection forbids external context and names
\* no provider, or allows it and names one; a grant has an expiry.
SavedRow(key, expires, context) ==
  LET fs == Fields(<<key, "edit">>)
      Saved(f) == CASE f.type = "datetime-local" -> expires
                    [] f.type = "boolean" -> "no"
                    [] f.type = "json" -> "{}"
                    [] f.name = "external_context_mode" -> context
                    [] f.name = "allowed_context_providers" -> IF context = "forbidden" THEN "" ELSE "t"
                    [] f.type = "select" -> IF "active" \in f.opts THEN "active" ELSE CHOOSE o \in f.opts : TRUE
                    [] OTHER -> "t"
  IN [n \in Names(fs) |-> Saved(FieldNamed(fs, n))]

NoRecord == <<>>
NoOptions == [n \in Names({f \in Flds : f.src # ""}) |-> {}]

FormTypeOK ==
  /\ form \in Forms /\ open \in BOOLEAN
  /\ DOMAIN values = Names(Flds) /\ touched \subseteq Names(Flds)
  /\ DOMAIN options = DOMAIN NoOptions
  /\ Len(batches) <= MaxBatches /\ Len(subs) <= MaxSubs[form]
  /\ \A i \in DOMAIN subs : subs[i].stage \in {"sent", "stored", "refused"}
  /\ hour \in 0 .. Horizon /\ lost \in 0 .. MaxLost /\ stored \in Nat /\ fresh \in BOOLEAN

FormInit ==
  /\ form \in Forms
  /\ open = FALSE /\ values = InitialValues(Flds, NoRecord) /\ options = NoOptions
  /\ batches = <<>> /\ subs = <<>> /\ hour = 0 /\ lost = 0
  /\ IF Editing THEN \E d \in Dates, c \in {"optional", "forbidden"} : row = SavedRow(form[1], d, c) ELSE row = NoRecord
  /\ record = row
  /\ touched = {} /\ fresh = FALSE /\ stored = 0

------------------------------------------------------------------------------
(* The dialog.                                                              *)

Mounted(rec) ==
  /\ values' = InitialValues(Flds, rec)
  /\ touched' = {}
  /\ LoadOptions(values')

Unmounted ==
  /\ open' = FALSE /\ values' = InitialValues(Flds, NoRecord) /\ touched' = {}
  /\ options' = NoOptions /\ batches' = <<>> /\ fresh' = FALSE

Disowned(ss) == [i \in DOMAIN ss |-> [ss[i] EXCEPT !.mine = FALSE]]

OpenDialog ==
  /\ ~open
  /\ open' = TRUE /\ lost' = 0 /\ stored' = 0
  /\ UNCHANGED <<pageVars, options, subs, hour>>
  /\ Mounted(record)

Change(n, v) ==
  /\ open /\ Len(batches) < MaxBatches
  /\ v # values[n]
  /\ values' = HiddenReset(Flds, [values EXCEPT ![n] = v])
  /\ touched' = IF Editing THEN touched \cup {n} ELSE {}
  /\ UNCHANGED <<pageVars, saveVars, open, options, hour>>
  /\ LoadOptions(values')

ChangeSome ==
  \E f \in {g \in Renderable(Flds, values) : g.name \in Changed[form]} :
    \E v \in Typed(f, options) : Change(f.name, v)

OptionsArrive(i) ==
  /\ LET got == {<<w[1], RowsOf(w[2], w[3])>> : w \in batches[i].want} IN
       options' = [n \in DOMAIN options |->
                     IF \E g \in got : g[1] = n THEN (CHOOSE g \in got : g[1] = n)[2] ELSE options[n]]
  /\ fresh' = batches[i].newest
  /\ batches' = RemoveAt(batches, i)
  /\ UNCHANGED <<pageVars, saveVars, open, values, touched, hour>>

\* One failing list of a batch leaves all of its lists as they were.
OptionsFail(i) ==
  /\ batches' = RemoveAt(batches, i)
  /\ UNCHANGED <<pageVars, saveVars, open, values, options, touched, fresh, hour>>

\* Mutant: the button stays on while a submission is under way.
SubmitTwice ==
  /\ open /\ Len(subs) < MaxSubs[form]
  /\ ValidateFields(Flds, values, hour) = {}
  /\ subs' = Append(subs, [mine |-> TRUE, stage |-> "sent", base |-> record, kept |-> FALSE,
                           payload |-> IF Editing THEN BuildPayload(Flds, values) ELSE NoRecord])
  /\ UNCHANGED <<pageVars, dialogVars, lost, stored, hour>>

\* What a create sends is stored as it is: only an edit's payload is kept.
Submit ==
  /\ open /\ ~Busy /\ Len(subs) < MaxSubs[form]
  /\ ValidateFields(Flds, values, hour) = {}
  /\ "expires_at" \in DOMAIN values => Instant(values.expires_at) \in Dates \cup {NoDate}  \* bound: Dates
  /\ subs' = Append(subs, [mine |-> TRUE, stage |-> "sent", payload |-> IF Editing THEN BuildPayload(Flds, values) ELSE NoRecord,
                           base |-> record, kept |-> "expires_at" \notin touched])
  /\ UNCHANGED <<pageVars, dialogVars, lost, stored, hour>>

Cancel ==
  /\ open
  /\ subs' = Disowned(subs)
  /\ Unmounted
  /\ UNCHANGED <<pageVars, lost, stored, hour>>

------------------------------------------------------------------------------
(* The request of a submission, and what comes back.                        *)

ServerStores(i) ==
  /\ subs[i].stage = "sent"
  /\ subs' = [subs EXCEPT ![i].stage = "stored"]
  /\ row' = IF Editing THEN [n \in DOMAIN row |-> subs[i].payload[n]] ELSE row
  /\ stored' = IF ~Editing /\ subs[i].mine THEN stored + 1 ELSE stored
  /\ UNCHANGED <<form, record, dialogVars, lost, hour>>

ServerRefuses(i) ==
  /\ subs[i].stage = "sent"
  /\ subs' = [subs EXCEPT ![i].stage = "refused"]
  /\ UNCHANGED <<pageVars, dialogVars, lost, stored, hour>>

\* The page loads the record again, a failure of which it shows and forgets,
\* and then closes the dialog: the one submitted, or one opened since.
Saved(i) ==
  /\ subs[i].stage = "stored"
  /\ record' \in {record, row}
  /\ subs' = Disowned(RemoveAt(subs, i))
  /\ Unmounted
  /\ UNCHANGED <<form, row, lost, stored, hour>>

\* Mutant: the dialog closes whatever came back.
NotSavedCloses(i) ==
  /\ subs[i].stage = "refused"
  /\ subs' = Disowned(RemoveAt(subs, i))
  /\ Unmounted
  /\ UNCHANGED <<pageVars, lost, stored, hour>>

\* A refusal, or an answer that is lost on the way: an error in the dialog.
NotSaved(i) ==
  /\ \/ subs[i].stage = "refused" /\ UNCHANGED lost
     \/ subs[i].mine /\ lost < MaxLost /\ lost' = lost + 1
  /\ subs' = RemoveAt(subs, i)
  /\ UNCHANGED <<pageVars, dialogVars, stored, hour>>

------------------------------------------------------------------------------
(* Around the dialog.                                                       *)

\* Mutant: in-progress values outlive the record they were read from.
PageReloadsOnly ==
  /\ Editing /\ record # row
  /\ record' = row
  /\ UNCHANGED <<form, row, saveVars, dialogVars, hour>>

\* A load of the page answers.  The values start over when the record differs.
PageReloads ==
  /\ Editing /\ record # row
  /\ record' = row
  /\ UNCHANGED <<form, row, saveVars, open, options, hour>>
  /\ IF open THEN Mounted(row) ELSE UNCHANGED <<values, touched, batches, fresh>>

OtherAdminSaves ==
  /\ Editing
  /\ \E s \in {"active", "inactive"} :
       /\ "status" \in DOMAIN row /\ row.status # s
       /\ row' = [row EXCEPT !.status = s]
  /\ UNCHANGED <<form, record, dialogVars, saveVars, hour>>

\* Only a dialog with a date reads the clock.
HourPasses ==
  /\ "expires_at" \in Names(Flds)
  /\ hour < Horizon /\ hour' = hour + 1
  /\ UNCHANGED <<pageVars, dialogVars, saveVars>>

FormNext ==
  \/ OpenDialog \/ ChangeSome \/ Submit \/ Cancel
  \/ \E i \in DOMAIN batches : OptionsArrive(i) \/ OptionsFail(i)
  \/ \E i \in DOMAIN subs : ServerStores(i) \/ ServerRefuses(i) \/ Saved(i) \/ NotSaved(i)
  \/ PageReloads \/ OtherAdminSaves \/ HourPasses

FormSpec == FormInit /\ [][FormNext]_formVars

------------------------------------------------------------------------------
(* Properties.                                                              *)

\* What the operator has not touched in an edit dialog is what the page shows:
\* a record that is loaded again under the open dialog starts the values over,
\* so a submission never sends back a value the page has already replaced.
UntouchedAreShown ==
  open /\ Editing => \A n \in Names(Flds) \ touched : values[n] = FormatInitialValue(FieldNamed(Flds, n), record)

\* A name none of whose fields is visible holds no choice made while one was:
\* an agent's runtime does not come back when the principal is an agent again.
HiddenNamesAreBlank ==
  open => \A n \in Names(Flds) \ Names(Renderable(Flds, values)) : values[n] = Blank(FieldNamed(Flds, n))

\* When the option lists applied last are the ones asked for last, every list
\* is the one its field's query calls for: the runtimes offered are the chosen
\* agent's.  (An older answer that comes in later breaks this.)
FreshOptionsFit ==
  open /\ fresh =>
    \A f \in Renderable(Flds, values) :
      f.src # "" /\ IsRemoteFieldReady(f, values) => options[f.name] = RowsOf(f.src, ResolveQueryValue(f, values))

\* One opening of a create dialog makes one row, and one more at most for every
\* answer that was lost: the button is off while a submission is under way.
OneRowPerOpening == stored <= lost + 1

\* An expiry the operator did not touch is stored again as many hours earlier
\* as the browser is ahead of UTC: it is written out in UTC and read back as
\* local time.
UntouchedExpiryMovesByOffset ==
  \A i \in DOMAIN subs :
    LET s == subs[i] IN
    Editing /\ s.kept /\ "expires_at" \in DOMAIN s.payload =>
      s.payload.expires_at = IF s.base.expires_at = NoDate THEN NoDate ELSE s.base.expires_at - Offset

\* The dialog closes when the operator cancels it or when a submission was
\* stored, which may be one of a dialog cancelled before: never on a refusal or
\* a lost answer, which leave what was typed.
ClosesOnCancelOrSave ==
  [][open /\ ~open' =>
       \/ Len(subs') = Len(subs)
       \/ \E i \in DOMAIN subs : subs[i].stage = "stored" /\ Len(subs') < Len(subs)]_formVars


\* The dialog shows what is current: its record where nothing was typed, no choice
\* of a hidden name, and the lists that were asked for last.
DialogIsCurrent == FormTypeOK /\ UntouchedAreShown /\ HiddenNamesAreBlank /\ FreshOptionsFit

\* What reaches the service: one row an opening, but for lost answers, and an
\* untouched expiry moved by the offset of the zone.
WhatIsStored == OneRowPerOpening /\ UntouchedExpiryMovesByOffset
============================================================================
