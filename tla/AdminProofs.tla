------------------------------ MODULE AdminProofs ------------------------------
(***************************************************************************)
(* Proofs about what administrators do: in the console (ConsoleForm and    *)
(* ConsolePages, as MCConsole composes them), and in rotating the signing  *)
(* keys (SigningKeys).                                                     *)
(*                                                                         *)
(* The console. DialogInv ties the values of a dialog to its requests: the *)
(* newest option request asks for what the values call for now, and only   *)
(* one submission of an opening is ever under way. PagesInv ties what      *)
(* a page was told to what the service has: a load read after an answer    *)
(* has what the answer told of, and while the page is busy exactly one     *)
(* action, or the load after it, is under way. Both hold for any dialogs   *)
(* and pages, zone and clock, and any number of requests under way.        *)
(*                                                                         *)
(* Key rotation never invalidates a token that has not expired, for any    *)
(* number of keys, administrators and signers. A key stops being active at *)
(* the instant a retirement (or a demotion) is written; whoever holds it   *)
(* then read it before, so it signs within WriteLag + SignLag of the       *)
(* retirement's time stamp, and the Grace of isVerificationKeyUsable       *)
(* covers that.                                                            *)
(***************************************************************************)
EXTENDS MCConsole, SigningKeys, FiniteSetTheorems, SequenceTheorems, TLAPS

------------------------------------------------------------------------------
(* Sequences whose elements are of no one type.                             *)

IsSeq(s) == s \in Seq({s[i] : i \in DOMAIN s})

(* A sequence is the function of its indices. *)
LEMMA SeqFacts ==
  ASSUME NEW s, IsSeq(s)
  PROVE  Len(s) \in Nat /\ DOMAIN s = 1 .. Len(s) /\ s = [i \in 1 .. Len(s) |-> s[i]]
<1>1. s \in Seq({s[i] : i \in DOMAIN s}) BY DEF IsSeq
<1>2. s \in [1 .. Len(s) -> {s[i] : i \in DOMAIN s}] BY <1>1, LenProperties
<1> QED BY <1>1, <1>2, LenProperties

(* A sequence of any type is one. *)
LEMMA TypedIsSeq ==
  ASSUME NEW S, NEW s \in Seq(S)
  PROVE  IsSeq(s)
<1>1. Len(s) \in Nat /\ DOMAIN s = 1 .. Len(s) /\ s = [i \in 1 .. Len(s) |-> s[i]]
  BY LenProperties
<1>2. s \in [1 .. Len(s) -> {s[i] : i \in DOMAIN s}] BY <1>1
<1>3. s \in Seq({s[i] : i \in DOMAIN s}) BY <1>1, <1>2
<1> QED BY <1>3 DEF IsSeq

(* Rewriting every element gives a sequence of the same length. *)
LEMMA SeqMap ==
  ASSUME NEW s, IsSeq(s), NEW t, t = [i \in DOMAIN s |-> t[i]]
  PROVE  IsSeq(t) /\ Len(t) = Len(s) /\ DOMAIN t = DOMAIN s
<1>1. Len(s) \in Nat /\ DOMAIN s = 1 .. Len(s) BY SeqFacts
<1>2. t \in [1 .. Len(s) -> {t[i] : i \in DOMAIN s}] BY <1>1
<1>3. DOMAIN t = DOMAIN s OBVIOUS
<1>4. t \in Seq({t[i] : i \in DOMAIN s}) BY <1>1, <1>2
<1>5. DOMAIN t = 1 .. Len(t) /\ Len(t) \in Nat BY <1>4, LenProperties
<1> QED BY <1>1, <1>3, <1>4, <1>5 DEF IsSeq

(* What Append does, without a type of the elements. *)
LEMMA SeqAppend ==
  ASSUME NEW s, IsSeq(s), NEW e
  PROVE  /\ IsSeq(Append(s, e)) /\ Len(Append(s, e)) = Len(s) + 1
         /\ \A i \in DOMAIN s : Append(s, e)[i] = s[i]
         /\ Append(s, e)[Len(s) + 1] = e
         /\ DOMAIN Append(s, e) = DOMAIN s \cup {Len(s) + 1}
<1> DEFINE S == {s[i] : i \in DOMAIN s} \cup {e}
<1>1. s \in Seq({s[i] : i \in DOMAIN s}) BY DEF IsSeq
<1>2. s \in Seq(S) BY <1>1, SeqMonotonic
<1>3. e \in S OBVIOUS
<1>4. /\ Append(s, e) \in Seq(S) /\ Len(Append(s, e)) = Len(s) + 1
      /\ \A i \in 1 .. Len(s) : Append(s, e)[i] = s[i]
      /\ Append(s, e)[Len(s) + 1] = e
  <2> HIDE DEF S
  <2> QED BY <1>2, <1>3, AppendProperties
<1>5. Len(s) \in Nat /\ DOMAIN s = 1 .. Len(s) BY SeqFacts
<1>6. DOMAIN Append(s, e) = 1 .. Len(Append(s, e)) BY <1>4, LenProperties
<1>7. IsSeq(Append(s, e))
  <2> HIDE DEF S
  <2>1. Append(s, e) \in Seq(S) BY <1>4
  <2> QED BY <2>1, TypedIsSeq
<1> QED BY <1>4, <1>5, <1>6, <1>7

(* What RemoveAt does: later elements move down, none but one is lost. *)
LEMMA SeqRemove ==
  ASSUME NEW s, IsSeq(s), NEW k \in DOMAIN s
  PROVE  /\ IsSeq(RemoveAt(s, k)) /\ Len(RemoveAt(s, k)) = Len(s) - 1
         /\ \A i \in DOMAIN RemoveAt(s, k) :
              /\ i \in 1 .. Len(s) - 1
              /\ RemoveAt(s, k)[i] = s[IF i < k THEN i ELSE i + 1]
         /\ DOMAIN RemoveAt(s, k) = 1 .. Len(s) - 1
         /\ \A i \in DOMAIN s \ {k} : \E j \in DOMAIN RemoveAt(s, k) : RemoveAt(s, k)[j] = s[i]
<1> DEFINE S == {s[i] : i \in DOMAIN s}
           a == SubSeq(s, 1, k - 1)
           b == SubSeq(s, k + 1, Len(s))
<1>1. s \in Seq(S) BY DEF IsSeq
<1>2. Len(s) \in Nat /\ DOMAIN s = 1 .. Len(s) BY SeqFacts
<1>3. /\ a \in Seq(S) /\ Len(a) = k - 1
      /\ \A i \in 1 .. k - 1 : a[i] = s[i]
  <2>1. 1 \in Int /\ k - 1 \in Int /\ \A i \in 1 .. k - 1 : s[i] \in S BY <1>2
  <2> HIDE DEF S
  <2>2. /\ SubSeq(s, 1, k - 1) \in Seq(S)
        /\ Len(SubSeq(s, 1, k - 1)) = IF 1 <= k - 1 THEN (k - 1) - 1 + 1 ELSE 0
        /\ \A i \in 1 .. (k - 1) - 1 + 1 : SubSeq(s, 1, k - 1)[i] = s[1 + i - 1]
    BY <2>1, SubSeqProperties
  <2> QED BY <2>2, <1>2
<1>4. /\ b \in Seq(S) /\ Len(b) = Len(s) - k
      /\ \A i \in 1 .. Len(s) - k : b[i] = s[i + k]
  <2>1. k + 1 \in Int /\ Len(s) \in Int /\ \A i \in k + 1 .. Len(s) : s[i] \in S BY <1>2
  <2> HIDE DEF S
  <2>2. /\ SubSeq(s, k + 1, Len(s)) \in Seq(S)
        /\ Len(SubSeq(s, k + 1, Len(s))) = IF k + 1 <= Len(s) THEN Len(s) - (k + 1) + 1 ELSE 0
        /\ \A i \in 1 .. Len(s) - (k + 1) + 1 : SubSeq(s, k + 1, Len(s))[i] = s[(k + 1) + i - 1]
    BY <2>1, SubSeqProperties
  <2> QED BY <2>2, <1>2
<1>5. RemoveAt(s, k) = a \o b BY DEF RemoveAt
<1>6. /\ a \o b \in Seq(S) /\ Len(a \o b) = Len(a) + Len(b)
      /\ \A i \in 1 .. Len(a) + Len(b) : (a \o b)[i] = IF i <= Len(a) THEN a[i] ELSE b[i - Len(a)]
  <2> HIDE DEF S, a, b
  <2> QED BY <1>3, <1>4, ConcatProperties
<1> HIDE DEF S, a, b
<1>7. DOMAIN RemoveAt(s, k) = 1 .. Len(s) - 1 /\ Len(RemoveAt(s, k)) = Len(s) - 1
  <2>1. RemoveAt(s, k) \in Seq(S) BY <1>5, <1>6
  <2>2. DOMAIN RemoveAt(s, k) = 1 .. Len(RemoveAt(s, k)) BY <2>1, LenProperties
  <2>3. Len(RemoveAt(s, k)) = Len(s) - 1 BY <1>2, <1>3, <1>4, <1>5, <1>6
  <2> QED BY <2>2, <2>3
<1>8. IsSeq(RemoveAt(s, k))
  <2>1. RemoveAt(s, k) \in Seq(S) BY <1>5, <1>6
  <2> QED BY <2>1, TypedIsSeq
<1>9. ASSUME NEW i \in 1 .. Len(s) - 1
      PROVE  RemoveAt(s, k)[i] = s[IF i < k THEN i ELSE i + 1]
  <2>1. (a \o b)[i] = IF i <= k - 1 THEN a[i] ELSE b[i - (k - 1)] BY <1>2, <1>3, <1>4, <1>6
  <2>2. CASE i < k BY <2>1, <2>2, <1>2, <1>3, <1>5
  <2>3. CASE ~(i < k)
    <3>1. i - (k - 1) \in 1 .. Len(s) - k /\ (i - (k - 1)) + k = i + 1 BY <2>3, <1>2
    <3>2. b[i - (k - 1)] = s[i + 1] BY <3>1, <1>4
    <3>3. (a \o b)[i] = s[i + 1] BY <2>1, <2>3, <3>2, <1>2
    <3> QED BY <3>3, <2>3, <1>5
  <2> QED BY <2>2, <2>3
<1>10. ASSUME NEW i \in DOMAIN s \ {k}
       PROVE  \E j \in DOMAIN RemoveAt(s, k) : RemoveAt(s, k)[j] = s[i]
  <2>1. CASE i < k
    <3>1. i \in 1 .. Len(s) - 1 BY <2>1, <1>2
    <3>2. RemoveAt(s, k)[i] = s[i] BY <3>1, <2>1, <1>9
    <3> QED BY <3>1, <3>2, <1>7
  <2>2. CASE ~(i < k)
    <3>1. i - 1 \in 1 .. Len(s) - 1 /\ ~(i - 1 < k) /\ (i - 1) + 1 = i BY <2>2, <1>2
    <3>2. RemoveAt(s, k)[i - 1] = s[i] BY <3>1, <1>9
    <3> QED BY <3>1, <3>2, <1>7
  <2> QED BY <2>1, <2>2
<1> QED BY <1>7, <1>8, <1>9, <1>10

(* What the proofs need to know of a field, however the tables write it. *)
HasAttributes(f, n, ty, on, vs, src) ==
  /\ f = [k \in {"name", "type", "required", "on", "when", "opts", "src", "query", "check"} |-> f[k]]
  /\ f.name = n /\ f.type = ty /\ f.on = on /\ f.when = vs /\ f.src = src

(* The attributes of a field, read off. *)
LEMMA AttributesRead ==
  ASSUME NEW f, NEW n, NEW ty, NEW on, NEW vs, NEW src, HasAttributes(f, n, ty, on, vs, src)
  PROVE  f.name = n /\ f.type = ty /\ f.on = on /\ f.when = vs /\ f.src = src
BY DEF HasAttributes

(* The attributes the field constructors give. *)
LEMMA FieldAttributes ==
  /\ \A n, ty : HasAttributes(Field(n, ty), n, ty, "", {}, "")
  /\ \A n, vs : HasAttributes(Choice(n, vs), n, "select", "", {}, "")
  /\ \A n, ep : HasAttributes(Remote(n, ep), n, "select", "", {}, ep)
<1>1. ASSUME NEW n, NEW ty PROVE HasAttributes(Field(n, ty), n, ty, "", {}, "")
  BY DEF HasAttributes, Field
<1>2. ASSUME NEW n, NEW vs PROVE HasAttributes(Choice(n, vs), n, "select", "", {}, "")
  BY DEF HasAttributes, Field, Choice
<1>3. ASSUME NEW n, NEW ep PROVE HasAttributes(Remote(n, ep), n, "select", "", {}, ep)
  BY DEF HasAttributes, Field, Remote
<1> QED BY <1>1, <1>2, <1>3

(* What the wrappers of a field change, and what they keep. *)
LEMMA WrapperAttributes ==
  ASSUME NEW f, NEW n, NEW ty, NEW on, NEW vs, NEW src, HasAttributes(f, n, ty, on, vs, src)
  PROVE  /\ HasAttributes(Optional(f), n, ty, on, vs, src)
         /\ \A c : HasAttributes(Checked(f, c), n, ty, on, vs, src)
         /\ \A o, ws : HasAttributes(ShownWhen(f, o, ws), n, ty, o, ws, src)
         /\ \A q : HasAttributes([f EXCEPT !.query = q], n, ty, on, vs, src)
<1>1. HasAttributes(Optional(f), n, ty, on, vs, src) BY DEF HasAttributes, Optional
<1>2. ASSUME NEW c PROVE HasAttributes(Checked(f, c), n, ty, on, vs, src)
  BY DEF HasAttributes, Checked
<1>3. ASSUME NEW o, NEW ws PROVE HasAttributes(ShownWhen(f, o, ws), n, ty, o, ws, src)
  BY DEF HasAttributes, ShownWhen
<1>4. ASSUME NEW q PROVE HasAttributes([f EXCEPT !.query = q], n, ty, on, vs, src)
  BY DEF HasAttributes
<1> QED BY <1>1, <1>2, <1>3, <1>4

(* A field that is always shown and has options of its own, or none. *)
Plain(f) == f.on = "" /\ f.src = "" /\ (f.name = "expires_at" => f.type = "datetime-local")

(* The constructors that give a field which is always visible and asks for  *)
(* nothing.                                                                 *)
LEMMA PlainFields ==
  /\ \A n, ty : n # "expires_at" \/ ty = "datetime-local" =>
        /\ Plain(Field(n, ty)) /\ Plain(Optional(Field(n, ty)))
        /\ \A c : Plain(Checked(Field(n, ty), c))
  /\ \A n, vs : n # "expires_at" => Plain(Choice(n, vs)) /\ Plain(Optional(Choice(n, vs)))
<1>1. \A f, n, ty : HasAttributes(f, n, ty, "", {}, "") /\ (n # "expires_at" \/ ty = "datetime-local") => Plain(f)
  BY DEF Plain, HasAttributes
<1>2. \A n, ty : /\ HasAttributes(Field(n, ty), n, ty, "", {}, "")
                 /\ HasAttributes(Optional(Field(n, ty)), n, ty, "", {}, "")
                 /\ \A c : HasAttributes(Checked(Field(n, ty), c), n, ty, "", {}, "")
  BY FieldAttributes, WrapperAttributes
<1>3. \A n, vs : /\ HasAttributes(Choice(n, vs), n, "select", "", {}, "")
                 /\ HasAttributes(Optional(Choice(n, vs)), n, "select", "", {}, "")
  BY FieldAttributes, WrapperAttributes
<1> QED BY <1>1, <1>2, <1>3

(* Every field of an edit form is plain. *)
LEMMA EditFields ==
  ASSUME NEW fm \in AllForms, fm[2] = "edit"
  PROVE  \A f \in Fields(fm) : Plain(f)
<1>1. CASE fm[1] = "applications"
  <2>1. Fields(fm) = Applications["edit"] BY <1>1 DEF Fields
  <2> QED BY <2>1, PlainFields DEF Applications
<1>2. CASE fm[1] = "agents"
  <2>1. Fields(fm) = AgentsForm["edit"] BY <1>2 DEF Fields
  <2> QED BY <2>1, PlainFields DEF AgentsForm
<1>3. CASE fm[1] = "runtimes"
  <2>1. Fields(fm) = RuntimesForm["edit"] BY <1>3 DEF Fields
  <2> QED BY <2>1, PlainFields DEF RuntimesForm
<1>4. CASE fm[1] = "target-resources"
  <2>1. Fields(fm) = TargetResources["edit"] BY <1>4 DEF Fields
  <2> QED BY <2>1, PlainFields DEF TargetResources
<1>5. CASE fm[1] = "target-connections"
  <2>1. Fields(fm) = ConnectionEdit BY <1>5 DEF Fields
  <2> QED BY <2>1, PlainFields DEF ConnectionEdit
<1>6. CASE fm[1] = "access-grants"
  <2>1. Fields(fm) = AccessGrants["edit"] BY <1>6 DEF Fields
  <2> QED BY <2>1, PlainFields DEF AccessGrants
<1>7. fm[1] \in {"applications", "agents", "runtimes", "target-resources", "target-connections", "access-grants"}
  BY DEF AllForms
<1> QED BY <1>1, <1>2, <1>3, <1>4, <1>5, <1>6, <1>7

(* Of two fields of one name that load their options, one is shown at a time. *)
RemoteApart(fs) ==
  \A f, g \in fs : f.src # "" /\ g.src # "" /\ f.name = g.name =>
    f = g \/ (f.on = g.on /\ f.on # "" /\ f.when \cap g.when = {})

(* What decides whether a field is shown is shown itself. *)
DecidersShown(fs) == \A f \in fs : f.on # "" => \E g \in fs : g.name = f.on /\ g.on = ""

(* In the form with the most conditions no two visible fields share a name  *)
(* and a list.                                                              *)
LEMMA ConnectionFields == RemoteApart(ConnectionCreate) /\ DecidersShown(ConnectionCreate)
<1> DEFINE a == Choice("principal_type", {"agent", "application", "runtime"})
           b == ShownWhen(Remote("principal_id", "applications"), "principal_type", {"application"})
           c == ShownWhen(Remote("principal_id", "agents"), "principal_type", {"agent"})
           d == ShownWhen(Remote("principal_id", "runtimes"), "principal_type", {"runtime"})
           r == [Remote("runtime_id", "runtimes") EXCEPT !.query = "principal_id"]
           e == Optional(ShownWhen(r, "principal_type", {"agent"}))
           t == Remote("target_resource", "active target-resources")
           m == Choice("external_context_mode", ContextModes)
           p == Checked(Field("allowed_context_providers", "string-array"), "providers")
           q == Optional(ShownWhen(Field("allowed_context_providers", "string-array"), "external_context_mode", {"forbidden"}))
           x == Field("max_token_ttl_seconds", "number")
<1>1. ConnectionCreate = {a, b, c, d, e, t, m, p, q, x} BY DEF ConnectionCreate
<1>2. /\ HasAttributes(a, "principal_type", "select", "", {}, "")
      /\ HasAttributes(b, "principal_id", "select", "principal_type", {"application"}, "applications")
      /\ HasAttributes(c, "principal_id", "select", "principal_type", {"agent"}, "agents")
      /\ HasAttributes(d, "principal_id", "select", "principal_type", {"runtime"}, "runtimes")
  BY FieldAttributes, WrapperAttributes
<1>3. HasAttributes(e, "runtime_id", "select", "principal_type", {"agent"}, "runtimes")
  <2>1. HasAttributes(Remote("runtime_id", "runtimes"), "runtime_id", "select", "", {}, "runtimes")
    BY FieldAttributes
  <2>2. HasAttributes(r, "runtime_id", "select", "", {}, "runtimes")
    <3> HIDE DEF r
    <3> QED BY <2>1, WrapperAttributes DEF r
  <2> QED BY <2>2, WrapperAttributes
<1>4t. HasAttributes(t, "target_resource", "select", "", {}, "active target-resources")
  BY FieldAttributes, WrapperAttributes
<1>4m. HasAttributes(m, "external_context_mode", "select", "", {}, "")
  BY FieldAttributes, WrapperAttributes
<1>4p. HasAttributes(p, "allowed_context_providers", "string-array", "", {}, "")
  BY FieldAttributes, WrapperAttributes
<1>4q. HasAttributes(q, "allowed_context_providers", "string-array", "external_context_mode", {"forbidden"}, "")
  BY FieldAttributes, WrapperAttributes
<1>4x. HasAttributes(x, "max_token_ttl_seconds", "number", "", {}, "")
  BY FieldAttributes, WrapperAttributes
<1> HIDE DEF a, b, c, d, r, e, t, m, p, q, x
<1>5. /\ a.name = "principal_type" /\ a.on = "" /\ a.src = ""
      /\ b.name = "principal_id" /\ b.on = "principal_type" /\ b.when = {"application"}
      /\ c.name = "principal_id" /\ c.on = "principal_type" /\ c.when = {"agent"}
      /\ d.name = "principal_id" /\ d.on = "principal_type" /\ d.when = {"runtime"}
      /\ e.name = "runtime_id" /\ e.on = "principal_type"
      /\ t.name = "target_resource" /\ t.on = ""
      /\ m.name = "external_context_mode" /\ m.on = "" /\ m.src = ""
      /\ p.on = "" /\ p.src = "" /\ q.on = "external_context_mode" /\ q.src = "" /\ x.on = ""
      /\ x.src = ""
  <2>1. a.name = "principal_type" /\ a.on = "" /\ a.src = "" BY <1>2, AttributesRead
  <2>2. b.name = "principal_id" /\ b.on = "principal_type" /\ b.when = {"application"}
    BY <1>2, AttributesRead
  <2>3. c.name = "principal_id" /\ c.on = "principal_type" /\ c.when = {"agent"}
    BY <1>2, AttributesRead
  <2>4. d.name = "principal_id" /\ d.on = "principal_type" /\ d.when = {"runtime"}
    BY <1>2, AttributesRead
  <2>5. e.name = "runtime_id" /\ e.on = "principal_type" BY <1>3, AttributesRead
  <2>6. t.name = "target_resource" /\ t.on = "" BY <1>4t, AttributesRead
  <2>7. m.name = "external_context_mode" /\ m.on = "" /\ m.src = "" BY <1>4m, AttributesRead
  <2>8. p.on = "" /\ p.src = "" BY <1>4p, AttributesRead
  <2>9. q.on = "external_context_mode" /\ q.src = "" BY <1>4q, AttributesRead
  <2>10. x.on = "" /\ x.src = "" BY <1>4x, AttributesRead
  <2> QED BY <2>1, <2>2, <2>3, <2>4, <2>5, <2>6, <2>7, <2>8, <2>9, <2>10
<1>6. RemoteApart(ConnectionCreate)
  <2>1. \A f \in ConnectionCreate : f.src # "" => f \in {b, c, d, e, t} BY <1>1, <1>5
  <2>2. \A f, g \in {b, c, d, e, t} : f.name = g.name =>
          f = g \/ (f.on = g.on /\ f.on # "" /\ f.when \cap g.when = {})
    <3>1. \A f, g \in {b, c, d} : f = g \/ f.when \cap g.when = {} BY <1>5
    <3>2. \A f, g \in {b, c, d, e, t} : f.name = g.name => f = g \/ (f \in {b, c, d} /\ g \in {b, c, d})
      BY <1>5
    <3>3. b.on = "principal_type" /\ c.on = "principal_type" /\ d.on = "principal_type" BY <1>5
    <3>4. \A f \in {b, c, d} : f.on = "principal_type" BY <3>3
    <3>5. ASSUME NEW f \in {b, c, d, e, t}, NEW g \in {b, c, d, e, t}, f.name = g.name, f # g
          PROVE  f.on = g.on /\ f.on # "" /\ f.when \cap g.when = {}
      <4>1. f \in {b, c, d} /\ g \in {b, c, d} BY <3>2, <3>5
      <4>2. f.on = "principal_type" /\ g.on = "principal_type" BY <3>4, <4>1
      <4>3. f.when \cap g.when = {} BY <3>1, <3>5, <4>1
      <4> QED BY <4>2, <4>3
    <3> QED BY <3>5
  <2> QED BY <2>1, <2>2 DEF RemoteApart
<1>7. DecidersShown(ConnectionCreate)
  <2>1. \A f \in ConnectionCreate : f.on # "" => f.on \in {"principal_type", "external_context_mode"}
    BY <1>1, <1>5
  <2> QED BY <1>1, <1>5, <2>1 DEF DecidersShown
<1> QED BY <1>6, <1>7

(* The same of all forms. *)
LEMMA FormFields ==
  ASSUME NEW fm \in AllForms
  PROVE  RemoteApart(Fields(fm)) /\ DecidersShown(Fields(fm))
<1>0. \A fs, g : (\A f \in fs : Plain(f) \/ f = g) /\ g.on = "" => RemoteApart(fs) /\ DecidersShown(fs)
  BY DEF Plain, RemoteApart, DecidersShown
<1>1. CASE fm[2] = "edit" BY <1>1, <1>0, EditFields, FieldAttributes DEF HasAttributes
<1>2. CASE fm = <<"applications", "create">>
  <2>1. Fields(fm) = Applications["create"] BY <1>2 DEF Fields
  <2>2. \A f \in Fields(fm) : Plain(f) BY <2>1, PlainFields DEF Applications
  <2> QED BY <2>2, <1>0, FieldAttributes DEF HasAttributes
<1>3. CASE fm = <<"agents", "create">>
  <2>1. Fields(fm) = AgentsForm["create"] BY <1>3 DEF Fields
  <2>2. \A f \in Fields(fm) : Plain(f) BY <2>1, PlainFields DEF AgentsForm
  <2> QED BY <2>2, <1>0, FieldAttributes DEF HasAttributes
<1>4. CASE fm = <<"runtimes", "create">>
  <2>1. Fields(fm) = RuntimesForm["create"] BY <1>4 DEF Fields
  <2>2. \A f \in Fields(fm) : Plain(f) \/ f = Remote("agent_id", "agents")
    BY <2>1, PlainFields DEF RuntimesForm
  <2>3. Remote("agent_id", "agents").on = "" BY FieldAttributes, AttributesRead
  <2> QED BY <2>2, <2>3, <1>0
<1>5. CASE fm = <<"target-resources", "create">>
  <2>1. Fields(fm) = TargetResources["create"] BY <1>5 DEF Fields
  <2>2. \A f \in Fields(fm) : Plain(f) BY <2>1, PlainFields DEF TargetResources
  <2> QED BY <2>2, <1>0, FieldAttributes DEF HasAttributes
<1>6. CASE fm = <<"target-connections", "create">>
  <2>1. Fields(fm) = ConnectionCreate BY <1>6 DEF Fields
  <2> QED BY <2>1, ConnectionFields
<1>7. CASE fm = <<"access-grants", "create">>
  <2>1. Fields(fm) = AccessGrants["create"] BY <1>7 DEF Fields
  <2>2. \A f \in Fields(fm) : Plain(f) \/ f = Remote("connection_id", "target-connections")
    BY <2>1, PlainFields DEF AccessGrants
  <2>3. Remote("connection_id", "target-connections").on = "" BY FieldAttributes, AttributesRead
  <2> QED BY <2>2, <2>3, <1>0
<1>8. CASE fm = <<"keys", "create">>
  <2>1. Fields(fm) = KeysForm["create"] BY <1>8 DEF Fields
  <2>2. \A f \in Fields(fm) : Plain(f) BY <2>1, PlainFields DEF KeysForm
  <2> QED BY <2>2, <1>0, FieldAttributes DEF HasAttributes
<1> QED BY <1>1, <1>2, <1>3, <1>4, <1>5, <1>6, <1>7, <1>8 DEF AllForms

IsBatch(b) == DOMAIN b = {"want", "newest"} /\ b.newest \in BOOLEAN
IsSubmission(s) == DOMAIN s = {"mine", "stage", "payload", "base", "kept"}

(* The option requests and the submissions under way are sequences of records. *)
FlowsOK ==
  /\ IsSeq(batches) /\ \A i \in DOMAIN batches : IsBatch(batches[i])
  /\ IsSeq(subs)
  /\ \A i \in DOMAIN subs : IsSubmission(subs[i])

(* A row has a value for every field of an edit form; a create form has none. *)
RecordsOK ==
  /\ Editing => DOMAIN record = Names(Flds) /\ DOMAIN row = Names(Flds)
  /\ ~Editing => record = NoRecord /\ row = NoRecord

(* A closed dialog waits for nothing. *)
ClosedIsIdle == ~open => batches = <<>> /\ ~Busy

(* The lists asked for last are those the values call for, if any. *)
NewestIsAsked ==
  \A i \in DOMAIN batches :
    batches[i].newest => RemoteWants(Flds, values) \in {batches[i].want, {}}

(* One submission of this opening is under way at most. *)
OneUnderWay == \A i, j \in DOMAIN subs : subs[i].mine /\ subs[j].mine => i = j

(* The row over and above the lost answers is the one whose answer is awaited. *)
RowsMade ==
  /\ stored <= lost + 1
  /\ open /\ stored = lost + 1 => \E i \in DOMAIN subs : subs[i].mine /\ subs[i].stage = "stored"

DialogInv ==
  /\ FormTypeOK /\ FlowsOK /\ RecordsOK /\ ClosedIsIdle
  /\ UntouchedAreShown /\ HiddenNamesAreBlank
  /\ NewestIsAsked /\ FreshOptionsFit
  /\ OneUnderWay /\ RowsMade /\ UntouchedExpiryMovesByOffset

(* An edit form shows all of its fields and asks for no options. *)
LEMMA EditShowsAll ==
  ASSUME form \in Forms, Editing, NEW vs
  PROVE  /\ Renderable(Flds, vs) = Flds /\ RemoteWants(Flds, vs) = {}
         /\ \A f \in Flds : f.name = "expires_at" => f.type = "datetime-local"
<1>1. form \in AllForms /\ form[2] = "edit" BY FormsAssumption DEF Editing
<1>2. \A f \in Flds : f.on = "" /\ f.src = "" /\ (f.name = "expires_at" => f.type = "datetime-local")
  <2>1. \A f \in Fields(form) : Plain(f) BY <1>1, EditFields
  <2> QED BY <2>1 DEF Flds, Plain
<1>3. Renderable(Flds, vs) = Flds BY <1>2 DEF Renderable, IsFieldVisible
<1>4. RemoteWants(Flds, vs) = {} BY <1>2, <1>3 DEF RemoteWants
<1> QED BY <1>2, <1>3, <1>4

(* A name of a form names one of its fields. *)
LEMMA NamedField ==
  ASSUME NEW fs, NEW n \in Names(fs)
  PROVE  FieldNamed(fs, n) \in fs /\ FieldNamed(fs, n).name = n
BY DEF FieldNamed, Names

(* What is asked for, where no list has to be loaded or none is asked for. *)
LEMMA NothingAsked ==
  ASSUME NEW fs, NEW vs, RemoteWants(fs, vs) = {}
  PROVE  \A f \in Renderable(fs, vs) : ~(f.src # "" /\ IsRemoteFieldReady(f, vs))
BY DEF RemoteWants

(* The values a record starts a form with. *)
LEMMA InitialValuesShown ==
  ASSUME NEW fs, NEW rec
  PROVE  /\ DOMAIN InitialValues(fs, rec) = Names(fs)
         /\ \A n \in Names(fs) : InitialValues(fs, rec)[n] = FormatInitialValue(FieldNamed(fs, n), rec)
BY DEF InitialValues

(* A create form starts blank. *)
LEMMA NoRecordIsBlank ==
  ASSUME NEW f
  PROVE  FormatInitialValue(f, NoRecord) = Blank(f)
<1>1. DOMAIN NoRecord = {} BY DEF NoRecord
<1> QED BY <1>1 DEF FormatInitialValue

(* The steps that leave a part of the dialog alone keep what is known of it. *)
LEMMA ValuesFrame ==
  ASSUME UntouchedAreShown, HiddenNamesAreBlank, UNCHANGED <<form, open, record, values, touched>>
  PROVE  UntouchedAreShown' /\ HiddenNamesAreBlank'
<1>1. UntouchedAreShown' BY DEF UntouchedAreShown, Editing, Flds
<1>2. HiddenNamesAreBlank' BY DEF HiddenNamesAreBlank, Flds
<1> QED BY <1>1, <1>2

(* What leaves values, options and requests alone keeps what is said of     *)
(* them.                                                                    *)
LEMMA OptionsFrame ==
  ASSUME NewestIsAsked, FreshOptionsFit, UNCHANGED <<form, open, values, options, batches, fresh>>
  PROVE  NewestIsAsked' /\ FreshOptionsFit'
<1>1. NewestIsAsked' BY DEF NewestIsAsked, Flds
<1>2. FreshOptionsFit' BY DEF FreshOptionsFit, Flds
<1> QED BY <1>1, <1>2

(* What leaves the submissions alone keeps what is said of them. *)
LEMMA SubsFrame ==
  ASSUME OneUnderWay, RowsMade, UntouchedExpiryMovesByOffset, UNCHANGED <<form, open, subs, lost,
                                                                          stored>>
  PROVE  OneUnderWay' /\ RowsMade' /\ UntouchedExpiryMovesByOffset'
<1>1. OneUnderWay' BY DEF OneUnderWay
<1>2. RowsMade' BY DEF RowsMade
<1>3. UntouchedExpiryMovesByOffset' BY DEF UntouchedExpiryMovesByOffset, Editing
<1> QED BY <1>1, <1>2, <1>3

(* The options effect, run for the values of the step. *)
LEMMA OptionsAsked ==
  ASSUME FlowsOK, NewestIsAsked, fresh \in BOOLEAN, form' = form, LoadOptions(values')
  PROVE  /\ IsSeq(batches') /\ Len(batches') <= Len(batches) + 1
         /\ \A i \in DOMAIN batches' : IsBatch(batches'[i])
         /\ RemoteWants(Flds, values') = {} => batches' = batches
         /\ NewestIsAsked' /\ FreshOptionsFit' /\ fresh' \in BOOLEAN
<1>0. Flds' = Flds BY DEF Flds
<1>1. CASE RemoteWants(Flds, values') = {}
  <2>1. UNCHANGED <<batches, fresh>> BY <1>1 DEF LoadOptions
  <2>2. Len(batches) \in Nat BY SeqFacts DEF FlowsOK
  <2>3. NewestIsAsked' BY <1>0, <1>1 DEF NewestIsAsked
  <2>4. FreshOptionsFit' BY <1>0, <1>1, NothingAsked DEF FreshOptionsFit
  <2> QED BY <2>1, <2>2, <2>3, <2>4, <1>1 DEF FlowsOK
<1>2. CASE RemoteWants(Flds, values') # {}
  <2> DEFINE w == [want |-> RemoteWants(Flds, values'), newest |-> TRUE]
             old == [i \in DOMAIN batches |-> [batches[i] EXCEPT !.newest = FALSE]]
  <2>1. batches' = Append(old, w) /\ fresh' = FALSE BY <1>2 DEF LoadOptions
  <2>2. IsSeq(old) /\ Len(old) = Len(batches) /\ DOMAIN old = DOMAIN batches
    <3>1. old = [i \in DOMAIN batches |-> old[i]] OBVIOUS
    <3> HIDE DEF old
    <3> QED BY <3>1, SeqMap DEF FlowsOK
  <2>3. \A i \in DOMAIN old : IsBatch(old[i]) /\ ~old[i].newest BY DEF FlowsOK, IsBatch
  <2>4. IsBatch(w) /\ w.want = RemoteWants(Flds, values') BY DEF IsBatch
  <2> HIDE DEF old, w
  <2>5. /\ IsSeq(batches') /\ Len(batches') = Len(batches) + 1
        /\ \A i \in DOMAIN batches' : batches'[i] = w \/ (i \in DOMAIN old /\ batches'[i] = old[i])
    BY <2>1, <2>2, SeqAppend
  <2>6. Len(batches) \in Nat BY SeqFacts DEF FlowsOK
  <2>7. NewestIsAsked' BY <2>3, <2>4, <2>5, <1>0 DEF NewestIsAsked
  <2>8. FreshOptionsFit' BY <2>1 DEF FreshOptionsFit
  <2>9. \A i \in DOMAIN batches' : IsBatch(batches'[i]) BY <2>3, <2>4, <2>5
  <2>10. IsSeq(batches') /\ Len(batches') <= Len(batches) + 1 BY <2>5, <2>6
  <2> QED BY <2>1, <2>7, <2>8, <2>9, <2>10, <1>2
<1> QED BY <1>1, <1>2

(* A form that starts over from a record of the page. *)
LEMMA MountedShows ==
  ASSUME DialogInv, form' = form, NEW rec \in {record, row}, record' = rec, Mounted(rec)
  PROVE  /\ DOMAIN values' = Names(Flds) /\ touched' = {}
         /\ UntouchedAreShown' /\ HiddenNamesAreBlank'
<1>0. Flds' = Flds /\ Editing' = Editing /\ form \in Forms BY DEF Flds, Editing, DialogInv, FormTypeOK
<1>1. values' = InitialValues(Flds, rec) /\ touched' = {} BY DEF Mounted
<1>2. UntouchedAreShown' BY <1>0, <1>1, InitialValuesShown DEF UntouchedAreShown
<1>3. HiddenNamesAreBlank'
  <2>1. CASE Editing
    <3>1. Renderable(Flds, values') = Flds BY <2>1, <1>0, EditShowsAll
    <3> QED BY <3>1, <1>0 DEF HiddenNamesAreBlank
  <2>2. CASE ~Editing
    <3>1. rec = NoRecord BY <2>2 DEF DialogInv, RecordsOK
    <3>2. \A n \in Names(Flds) : values'[n] = Blank(FieldNamed(Flds, n))
      BY <3>1, <1>1, InitialValuesShown, NoRecordIsBlank
    <3> QED BY <3>2, <1>0 DEF HiddenNamesAreBlank
  <2> QED BY <2>1, <2>2
<1> QED BY <1>1, <1>2, <1>3, InitialValuesShown

(* A dialog that is gone. *)
LEMMA UnmountedIsIdle ==
  ASSUME form' = form, form \in Forms, Unmounted
  PROVE  /\ ~open' /\ open' \in BOOLEAN /\ fresh' \in BOOLEAN
         /\ DOMAIN values' = Names(Flds) /\ touched' = {} /\ DOMAIN options' = DOMAIN NoOptions
         /\ batches' = <<>> /\ Len(batches') = 0 /\ IsSeq(batches') /\ DOMAIN batches' = {}
         /\ UntouchedAreShown' /\ HiddenNamesAreBlank' /\ NewestIsAsked' /\ FreshOptionsFit'
<1>1. open' = FALSE /\ values' = InitialValues(Flds, NoRecord) /\ touched' = {}
      /\ options' = NoOptions /\ batches' = <<>> /\ fresh' = FALSE
  BY DEF Unmounted
<1>2. <<>> \in Seq({}) /\ Len(<<>>) = 0 /\ DOMAIN <<>> = {} BY EmptySeq
<1>3. IsSeq(batches') BY <1>1, <1>2, TypedIsSeq
<1>4. UntouchedAreShown' /\ HiddenNamesAreBlank' /\ FreshOptionsFit'
  BY <1>1 DEF UntouchedAreShown, HiddenNamesAreBlank, FreshOptionsFit
<1>5. NewestIsAsked' BY <1>1, <1>2 DEF NewestIsAsked
<1> QED BY <1>1, <1>2, <1>3, <1>4, <1>5, InitialValuesShown

(* Blanking the hidden names hides no other: what decides is always shown. *)
LEMMA ResetKeepsShown ==
  ASSUME form \in Forms, NEW vs, DOMAIN vs = Names(Flds)
  PROVE  /\ DOMAIN HiddenReset(Flds, vs) = Names(Flds)
         /\ Renderable(Flds, HiddenReset(Flds, vs)) = Renderable(Flds, vs)
         /\ \A n \in Names(Renderable(Flds, vs)) : HiddenReset(Flds, vs)[n] = vs[n]
         /\ \A n \in Names(Flds) \ Names(Renderable(Flds, vs)) :
              HiddenReset(Flds, vs)[n] = Blank(FieldNamed(Flds, n))
<1> DEFINE ws == HiddenReset(Flds, vs)
<1>1. /\ DOMAIN ws = Names(Flds)
      /\ \A n \in Names(Flds) : ws[n] = IF n \in Names(Renderable(Flds, vs)) THEN vs[n]
                                                   ELSE Blank(FieldNamed(Flds, n))
  BY DEF HiddenReset
<1>2. Names(Renderable(Flds, vs)) \subseteq Names(Flds) BY DEF Names, Renderable
<1>3. DecidersShown(Flds) BY FormFields, FormsAssumption DEF Flds
<1> HIDE DEF ws
<1>4. ASSUME NEW f \in Flds PROVE IsFieldVisible(f, ws) <=> IsFieldVisible(f, vs)
  <2>1. CASE f.on = "" BY <2>1 DEF IsFieldVisible
  <2>2. CASE f.on # ""
    <3>1. PICK g \in Flds : g.name = f.on /\ g.on = "" BY <2>2, <1>3 DEF DecidersShown
    <3>2. g \in Renderable(Flds, vs) BY <3>1 DEF Renderable, IsFieldVisible
    <3>3. f.on \in Names(Renderable(Flds, vs)) BY <3>1, <3>2 DEF Names
    <3>4. ws[f.on] = vs[f.on] BY <3>3, <1>1, <1>2
    <3> QED BY <3>4 DEF IsFieldVisible
  <2> QED BY <2>1, <2>2
<1>5. Renderable(Flds, ws) = Renderable(Flds, vs) BY <1>4 DEF Renderable
<1> QED BY <1>1, <1>2, <1>5 DEF ws

(* The types that a step of the dialog can disturb. *)
LEMMA TypesKept ==
  ASSUME FormTypeOK, form' = form, open' \in BOOLEAN, fresh' \in BOOLEAN,
         DOMAIN values' = Names(Flds), touched' \subseteq Names(Flds), DOMAIN options' = DOMAIN NoOptions,
         Len(batches') <= MaxBatches, Len(subs') <= MaxSubs[form],
         \A i \in DOMAIN subs' : subs'[i].stage \in {"sent", "stored", "refused"},
         hour' \in 0 .. Horizon, lost' \in 0 .. MaxLost, stored' \in Nat
  PROVE  FormTypeOK'
<1>1. Flds' = Flds BY DEF Flds
<1>2. NoOptions' = NoOptions BY <1>1 DEF NoOptions
<1> QED BY <1>1, <1>2 DEF FormTypeOK

(* The dialog opens: values and requests start over, and there is no        *)
(* submission of this opening.                                              *)
LEMMA OpenDialogKeeps == ASSUME DialogInv, OpenDialog PROVE DialogInv'
<1> USE DEF DialogInv
<1>1. /\ ~open /\ open' = TRUE /\ lost' = 0 /\ stored' = 0 /\ Mounted(record)
      /\ UNCHANGED <<form, record, row, options, subs, hour>>
  BY DEF OpenDialog, pageVars
<1>2. DOMAIN values' = Names(Flds) /\ touched' = {} /\ UntouchedAreShown' /\ HiddenNamesAreBlank'
  BY <1>1, MountedShows
<1>3. LoadOptions(values') BY <1>1 DEF Mounted
<1>4. fresh \in BOOLEAN BY DEF FormTypeOK
<1>5. /\ IsSeq(batches') /\ Len(batches') <= Len(batches) + 1
      /\ \A i \in DOMAIN batches' : IsBatch(batches'[i])
      /\ NewestIsAsked' /\ FreshOptionsFit' /\ fresh' \in BOOLEAN
  BY <1>1, <1>3, <1>4, OptionsAsked
<1>6. Len(batches) = 0 /\ Len(batches') \in Nat
  <2>1. batches = <<>> BY <1>1 DEF ClosedIsIdle
  <2> QED BY <2>1, <1>5, EmptySeq, SeqFacts
<1>7. FormTypeOK' BY <1>1, <1>2, <1>5, <1>6, TypesKept, BoundsAssumption DEF FormTypeOK
<1>8. FlowsOK' BY <1>1, <1>5 DEF FlowsOK
<1>9. RecordsOK' /\ ClosedIsIdle' BY <1>1 DEF RecordsOK, ClosedIsIdle, Editing, Flds
<1>10. OneUnderWay' /\ UntouchedExpiryMovesByOffset'
  BY <1>1 DEF OneUnderWay, UntouchedExpiryMovesByOffset, Editing
<1>11. RowsMade' BY <1>1 DEF RowsMade
<1> QED BY <1>2, <1>5, <1>7, <1>8, <1>9, <1>10, <1>11

(* A change blanks what it hides and asks anew; older requests are no       *)
(* longer the newest.                                                       *)
LEMMA ChangeKeeps ==
  ASSUME DialogInv, NEW f \in Renderable(Flds, values), NEW v, Change(f.name, v) PROVE DialogInv'
<1> USE DEF DialogInv
<1> DEFINE n == f.name
           vs == [values EXCEPT ![n] = v]
<1>1. /\ open /\ Len(batches) < MaxBatches /\ values' = HiddenReset(Flds, vs)
      /\ touched' = IF Editing THEN touched \cup {n} ELSE {}
      /\ UNCHANGED <<form, record, row, subs, lost, stored, open, options, hour>>
      /\ LoadOptions(values')
  BY DEF Change, pageVars, saveVars
<1>2. n \in Names(Flds) BY DEF Renderable, Names
<1>3. /\ form \in Forms /\ DOMAIN values = Names(Flds) /\ DOMAIN vs = Names(Flds)
      /\ fresh \in BOOLEAN
      /\ touched \subseteq Names(Flds)
  BY DEF FormTypeOK
<1>4. Flds' = Flds /\ Editing' = Editing BY <1>1 DEF Flds, Editing
<1>5. \A m \in Names(Flds) : vs[m] = IF m = n THEN v ELSE values[m] BY <1>3
<1> HIDE DEF n, vs
<1>6. /\ DOMAIN values' = Names(Flds) /\ Renderable(Flds, values') = Renderable(Flds, vs)
      /\ \A m \in Names(Renderable(Flds, vs)) : values'[m] = vs[m]
      /\ \A m \in Names(Flds) \ Names(Renderable(Flds, vs)) : values'[m] = Blank(FieldNamed(Flds, m))
  BY <1>1, <1>3, ResetKeepsShown
<1>7. HiddenNamesAreBlank' BY <1>4, <1>6 DEF HiddenNamesAreBlank
<1>8. UntouchedAreShown'
  <2> SUFFICES ASSUME Editing, NEW m \in Names(Flds) \ touched'
               PROVE  values'[m] = FormatInitialValue(FieldNamed(Flds, m), record)
    BY <1>1, <1>4 DEF UntouchedAreShown
  <2>1. m # n /\ m \notin touched BY <1>1
  <2>2. Renderable(Flds, vs) = Flds BY <1>3, EditShowsAll
  <2>3. values'[m] = values[m] BY <2>1, <2>2, <1>5, <1>6
  <2> QED BY <2>1, <2>3, <1>1 DEF UntouchedAreShown
<1>9. /\ IsSeq(batches') /\ Len(batches') <= Len(batches) + 1
      /\ \A i \in DOMAIN batches' : IsBatch(batches'[i])
      /\ NewestIsAsked' /\ FreshOptionsFit' /\ fresh' \in BOOLEAN
  BY <1>1, <1>3, OptionsAsked
<1>10. Len(batches') <= MaxBatches BY <1>1, <1>9, SeqFacts, BoundsAssumption DEF FlowsOK
<1>11. touched' \subseteq Names(Flds) BY <1>1, <1>2, <1>3
<1>12. FormTypeOK' BY <1>1, <1>6, <1>9, <1>10, <1>11, TypesKept DEF FormTypeOK
<1>13. FlowsOK' BY <1>1, <1>9 DEF FlowsOK
<1>14. RecordsOK' /\ ClosedIsIdle' BY <1>1 DEF RecordsOK, ClosedIsIdle, Editing, Flds
<1>15. OneUnderWay' /\ RowsMade' /\ UntouchedExpiryMovesByOffset' BY <1>1, SubsFrame
<1> QED BY <1>7, <1>8, <1>9, <1>12, <1>13, <1>14, <1>15

(* An answer of the option lists that is the one asked for last fits.       *)
LEMMA ArrivedFit ==
  ASSUME form \in Forms, NEW want, want = RemoteWants(Flds, values),
         DOMAIN options = DOMAIN NoOptions,
         NEW opts,
         opts = [n \in DOMAIN options |->
                   IF \E g \in {<<w[1], RowsOf(w[2], w[3])>> : w \in want} : g[1] = n
                   THEN (CHOOSE g \in {<<w[1], RowsOf(w[2], w[3])>> : w \in want} : g[1] = n)[2]
                   ELSE options[n]],
         NEW f \in Renderable(Flds, values), f.src # "", IsRemoteFieldReady(f, values)
  PROVE  opts[f.name] = RowsOf(f.src, ResolveQueryValue(f, values))
<1> DEFINE got == {<<w[1], RowsOf(w[2], w[3])>> : w \in want}
           R == {g \in Renderable(Flds, values) : g.src # "" /\ IsRemoteFieldReady(g, values)}
           Row(g) == RowsOf(g.src, ResolveQueryValue(g, values))
<1>1. f.name \in DOMAIN options BY DEF NoOptions, Names, Renderable
<1>2. \A g \in R : g.name = f.name => g = f
  <2>1. RemoteApart(Flds) BY FormFields, FormsAssumption DEF Flds
  <2> SUFFICES ASSUME NEW g \in R, g.name = f.name, g # f PROVE FALSE OBVIOUS
  <2>2. g \in Flds /\ f \in Flds /\ IsFieldVisible(g, values) /\ IsFieldVisible(f, values)
    BY DEF Renderable
  <2>3. g.on = f.on /\ g.on # "" /\ g.when \cap f.when = {} BY <2>1, <2>2 DEF RemoteApart
  <2>4. values[g.on] \in g.when /\ values[g.on] \in f.when BY <2>2, <2>3 DEF IsFieldVisible
  <2> QED BY <2>3, <2>4
<1>3. want = {<<g.name, g.src, ResolveQueryValue(g, values)>> : g \in R} BY DEF RemoteWants
<1>4. \A x \in got : \E g \in R : x = <<g.name, Row(g)>>
  <2> SUFFICES ASSUME NEW w \in want
               PROVE  \E g \in R : <<w[1], RowsOf(w[2], w[3])>> = <<g.name, Row(g)>>
    OBVIOUS
  <2>1. PICK g \in R : w = <<g.name, g.src, ResolveQueryValue(g, values)>> BY <1>3
  <2>2. <<w[1], RowsOf(w[2], w[3])>> = <<g.name, Row(g)>> BY <2>1
  <2> QED BY <2>2
<1>5. <<f.name, Row(f)>> \in got
  <2> DEFINE w == <<f.name, f.src, ResolveQueryValue(f, values)>>
  <2>1. w \in want BY <1>3
  <2>2. <<w[1], RowsOf(w[2], w[3])>> = <<f.name, Row(f)>> OBVIOUS
  <2> QED BY <2>1, <2>2
<1>6. \A x \in got : x[1] = f.name => x = <<f.name, Row(f)>>
  <2> SUFFICES ASSUME NEW x \in got, x[1] = f.name PROVE x = <<f.name, Row(f)>> OBVIOUS
  <2>1. PICK g \in R : x = <<g.name, Row(g)>> BY <1>4
  <2>2. g = f BY <2>1, <1>2
  <2> QED BY <2>1, <2>2
<1>7. opts = [n \in DOMAIN options |->
                IF \E g \in got : g[1] = n THEN (CHOOSE g \in got : g[1] = n)[2] ELSE options[n]]
  OBVIOUS
<1> HIDE DEF got, Row, R
<1>8. <<f.name, Row(f)>>[1] = f.name /\ <<f.name, Row(f)>>[2] = Row(f) OBVIOUS
<1>9. (CHOOSE g \in got : g[1] = f.name) = <<f.name, Row(f)>>
  <2>1. (CHOOSE g \in got : g[1] = f.name) \in got /\ (CHOOSE g \in got : g[1] = f.name)[1] = f.name
    BY <1>5, <1>8
  <2> QED BY <2>1, <1>6
<1>10. opts[f.name] = Row(f)
  <2>1. \E g \in got : g[1] = f.name BY <1>5, <1>8
  <2>2. opts[f.name] = (CHOOSE g \in got : g[1] = f.name)[2] BY <1>1, <1>7, <2>1
  <2> QED BY <2>2, <1>8, <1>9
<1> QED BY <1>10 DEF Row

(* One request of the options ends: the others go on as they were. *)
LEMMA RequestEnds ==
  ASSUME DialogInv, NEW i \in DOMAIN batches, batches' = RemoveAt(batches, i),
         UNCHANGED <<form, values>>
  PROVE  /\ IsSeq(batches') /\ Len(batches') <= MaxBatches /\ batches # <<>>
         /\ \A j \in DOMAIN batches' : IsBatch(batches'[j])
         /\ NewestIsAsked'
<1> USE DEF DialogInv
<1>1. IsSeq(batches) /\ Len(batches) <= MaxBatches BY DEF FlowsOK, FormTypeOK
<1>2. Len(batches) \in Nat /\ DOMAIN batches = 1 .. Len(batches) BY <1>1, SeqFacts
<1>3. /\ IsSeq(batches') /\ Len(batches') = Len(batches) - 1
      /\ \A j \in DOMAIN batches' : \E k \in DOMAIN batches : batches'[j] = batches[k]
  <2>1. /\ IsSeq(batches') /\ Len(batches') = Len(batches) - 1
        /\ \A j \in DOMAIN batches' :
             j \in 1 .. Len(batches) - 1 /\ batches'[j] = batches[IF j < i THEN j ELSE j + 1]
    BY <1>1, SeqRemove
  <2> QED BY <2>1, <1>2
<1>4. \A j \in DOMAIN batches' : IsBatch(batches'[j]) BY <1>3 DEF FlowsOK
<1>5. NewestIsAsked' BY <1>3 DEF NewestIsAsked, Flds
<1>6. Len(batches') <= MaxBatches BY <1>1, <1>2, <1>3, BoundsAssumption
<1>7. batches # <<>> BY EmptySeq, <1>2
<1> QED BY <1>3, <1>4, <1>5, <1>6, <1>7

(* Only the newest answer makes the lists fresh, and it was asked for with  *)
(* the values there are.                                                    *)
LEMMA OptionsArriveKeeps ==
  ASSUME DialogInv, NEW i \in DOMAIN batches, OptionsArrive(i) PROVE DialogInv'
<1> USE DEF DialogInv
<1>1. /\ fresh' = batches[i].newest /\ batches' = RemoveAt(batches, i)
      /\ UNCHANGED <<form, record, row, subs, lost, stored, open, values, touched, hour>>
      /\ options' = [n \in DOMAIN options |->
           IF \E g \in {<<w[1], RowsOf(w[2], w[3])>> : w \in batches[i].want} : g[1] = n
           THEN (CHOOSE g \in {<<w[1], RowsOf(w[2], w[3])>> : w \in batches[i].want} : g[1] = n)[2]
           ELSE options[n]]
  BY DEF OptionsArrive, pageVars, saveVars
<1>2. form \in Forms /\ DOMAIN options = DOMAIN NoOptions BY DEF FormTypeOK
<1>3. /\ IsSeq(batches') /\ Len(batches') <= MaxBatches /\ batches # <<>>
      /\ \A j \in DOMAIN batches' : IsBatch(batches'[j])
      /\ NewestIsAsked'
  BY <1>1, RequestEnds
<1>4. FreshOptionsFit'
  <2> SUFFICES ASSUME fresh', NEW f \in Renderable(Flds, values), f.src # "",
                      IsRemoteFieldReady(f, values)
               PROVE  options'[f.name] = RowsOf(f.src, ResolveQueryValue(f, values))
    BY <1>1 DEF FreshOptionsFit, Flds
  <2>1. RemoteWants(Flds, values) \in {batches[i].want, {}} BY <1>1 DEF NewestIsAsked
  <2>2. batches[i].want = RemoteWants(Flds, values) BY <2>1, NothingAsked
  <2> QED BY <1>1, <1>2, <2>2, ArrivedFit
<1>5. fresh' \in BOOLEAN BY <1>1 DEF FlowsOK, IsBatch
<1>6. DOMAIN options' = DOMAIN NoOptions BY <1>1, <1>2
<1>7. FormTypeOK' BY <1>1, <1>3, <1>5, <1>6, TypesKept DEF FormTypeOK
<1>8. FlowsOK' BY <1>1, <1>3 DEF FlowsOK
<1>9. RecordsOK' /\ ClosedIsIdle' BY <1>1, <1>3 DEF RecordsOK, ClosedIsIdle, Editing, Flds
<1>10. UntouchedAreShown' /\ HiddenNamesAreBlank' BY <1>1, ValuesFrame
<1>11. OneUnderWay' /\ RowsMade' /\ UntouchedExpiryMovesByOffset' BY <1>1, SubsFrame
<1> QED BY <1>3, <1>4, <1>7, <1>8, <1>9, <1>10, <1>11

(* A failed request leaves the lists as they are. *)
LEMMA OptionsFailKeeps ==
  ASSUME DialogInv, NEW i \in DOMAIN batches, OptionsFail(i) PROVE DialogInv'
<1> USE DEF DialogInv
<1>1. /\ batches' = RemoveAt(batches, i)
      /\ UNCHANGED <<form, record, row, subs, lost, stored, open, values, options, touched, fresh,
                     hour>>
  BY DEF OptionsFail, pageVars, saveVars
<1>2. /\ IsSeq(batches') /\ Len(batches') <= MaxBatches /\ batches # <<>>
      /\ \A j \in DOMAIN batches' : IsBatch(batches'[j])
      /\ NewestIsAsked'
  BY <1>1, RequestEnds
<1>3. FreshOptionsFit' BY <1>1 DEF FreshOptionsFit, Flds
<1>4. FormTypeOK' BY <1>1, <1>2, TypesKept DEF FormTypeOK
<1>5. FlowsOK' BY <1>1, <1>2 DEF FlowsOK
<1>6. RecordsOK' /\ ClosedIsIdle' BY <1>1, <1>2 DEF RecordsOK, ClosedIsIdle, Editing, Flds
<1>7. UntouchedAreShown' /\ HiddenNamesAreBlank' BY <1>1, ValuesFrame
<1>8. OneUnderWay' /\ RowsMade' /\ UntouchedExpiryMovesByOffset' BY <1>1, SubsFrame
<1> QED BY <1>2, <1>3, <1>4, <1>5, <1>6, <1>7, <1>8

(* A submission is made only while none of this opening is under way. *)
LEMMA SubmitKeeps == ASSUME DialogInv, Submit PROVE DialogInv'
<1> USE DEF DialogInv
<1> DEFINE s == [mine |-> TRUE, stage |-> "sent",
                 payload |-> IF Editing THEN BuildPayload(Flds, values) ELSE NoRecord,
                 base |-> record, kept |-> "expires_at" \notin touched]
<1>1. /\ open /\ ~Busy /\ Len(subs) < MaxSubs[form] /\ subs' = Append(subs, s)
      /\ UNCHANGED <<form, record, row, open, values, options, batches, touched, fresh, lost,
                     stored, hour>>
  BY DEF Submit, pageVars, dialogVars
<1>2. /\ IsSubmission(s) /\ s.stage = "sent" /\ s.base = record
      /\ s.kept = ("expires_at" \notin touched)
      /\ Editing => s.payload = BuildPayload(Flds, values)
  BY DEF IsSubmission
<1> HIDE DEF s
<1>3. IsSeq(subs) /\ form \in Forms /\ DOMAIN values = Names(Flds) BY DEF FlowsOK, FormTypeOK
<1>4. /\ IsSeq(subs') /\ Len(subs') = Len(subs) + 1 /\ subs'[Len(subs) + 1] = s
      /\ \A i \in DOMAIN subs : subs'[i] = subs[i]
      /\ DOMAIN subs' = DOMAIN subs \cup {Len(subs) + 1}
  BY <1>1, <1>3, SeqAppend
<1>5. Len(subs) \in Nat /\ MaxSubs[form] \in Nat BY <1>3, SeqFacts, BoundsAssumption
<1>6. Len(subs') <= MaxSubs[form] BY <1>1, <1>4, <1>5
<1>7. \A i \in DOMAIN subs' : subs'[i].stage \in {"sent", "stored", "refused"}
  BY <1>2, <1>4 DEF FormTypeOK
<1>8. FormTypeOK' BY <1>1, <1>6, <1>7, TypesKept DEF FormTypeOK
<1>9. FlowsOK' BY <1>1, <1>2, <1>4 DEF FlowsOK
<1>10. RecordsOK' /\ ClosedIsIdle' BY <1>1 DEF RecordsOK, ClosedIsIdle, Editing, Flds
<1>11. UntouchedAreShown' /\ HiddenNamesAreBlank' BY <1>1, ValuesFrame
<1>12. NewestIsAsked' /\ FreshOptionsFit' BY <1>1, OptionsFrame
<1>13. \A i \in DOMAIN subs : ~subs[i].mine BY <1>1 DEF Busy
<1>14. OneUnderWay' BY <1>4, <1>13 DEF OneUnderWay
<1>15. RowsMade' BY <1>1, <1>13 DEF RowsMade
<1>16. Editing /\ s.kept /\ "expires_at" \in DOMAIN s.payload =>
         s.payload.expires_at = IF s.base.expires_at = NoDate THEN NoDate ELSE s.base.expires_at - Offset
  <2> SUFFICES ASSUME Editing, s.kept, "expires_at" \in DOMAIN s.payload
               PROVE  s.payload.expires_at = IF record.expires_at = NoDate THEN NoDate ELSE record.expires_at - Offset
    BY <1>2
  <2>1. /\ Renderable(Flds, values) = Flds
        /\ \A f \in Flds : f.name = "expires_at" => f.type = "datetime-local"
    BY <1>3, EditShowsAll
  <2>2. /\ DOMAIN s.payload = Names(Flds)
        /\ \A n \in Names(Flds) : s.payload[n] = IF FieldNamed(Flds, n).type = "datetime-local"
                                               THEN Instant(values[n]) ELSE values[n]
    BY <1>2, <2>1 DEF BuildPayload
  <2> DEFINE f == FieldNamed(Flds, "expires_at")
  <2>3. f \in Flds /\ f.name = "expires_at" BY <2>2, NamedField
  <2>4. s.payload.expires_at = Instant(values["expires_at"]) BY <2>1, <2>2, <2>3
  <2>5. values["expires_at"] = FormatInitialValue(f, record)
    BY <1>1, <1>2, <2>2 DEF UntouchedAreShown
  <2>6. DOMAIN record = Names(Flds) BY DEF RecordsOK
  <2>7. values["expires_at"] = record["expires_at"]
    <3> HIDE DEF f
    <3> QED BY <2>2, <2>3, <2>5, <2>6 DEF FormatInitialValue
  <2> QED BY <2>4, <2>7 DEF Instant
<1>17. UntouchedExpiryMovesByOffset' BY <1>1, <1>4, <1>16 DEF UntouchedExpiryMovesByOffset, Editing
<1> QED BY <1>8, <1>9, <1>10, <1>11, <1>12, <1>14, <1>15, <1>17

(* The stage of one submission moves on; all else about it stays. *)
LEMMA StageMoves ==
  ASSUME FlowsOK, NEW i \in DOMAIN subs, NEW st, subs' = [subs EXCEPT ![i].stage = st]
  PROVE  /\ IsSeq(subs') /\ Len(subs') = Len(subs) /\ DOMAIN subs' = DOMAIN subs
         /\ \A j \in DOMAIN subs :
              /\ IsSubmission(subs'[j]) /\ subs'[j].mine = subs[j].mine
              /\ subs'[j].payload = subs[j].payload
              /\ subs'[j].base = subs[j].base /\ subs'[j].kept = subs[j].kept
              /\ subs'[j].stage = IF j = i THEN st ELSE subs[j].stage
<1>1. \A j \in DOMAIN subs : subs'[j] = IF j = i THEN [subs[i] EXCEPT !.stage = st] ELSE subs[j] OBVIOUS
<1>2. subs' = [j \in DOMAIN subs |-> subs'[j]] OBVIOUS
<1>3. IsSeq(subs') /\ Len(subs') = Len(subs) /\ DOMAIN subs' = DOMAIN subs
  BY <1>2, SeqMap DEF FlowsOK
<1>4. ASSUME NEW j \in DOMAIN subs
      PROVE  /\ IsSubmission(subs'[j]) /\ subs'[j].mine = subs[j].mine
             /\ subs'[j].payload = subs[j].payload
             /\ subs'[j].base = subs[j].base /\ subs'[j].kept = subs[j].kept
             /\ subs'[j].stage = IF j = i THEN st ELSE subs[j].stage
  BY <1>1 DEF FlowsOK, IsSubmission
<1> QED BY <1>3, <1>4

(* The submissions of a dialog that is gone are nobody's. *)
LEMMA DisownedSubs ==
  ASSUME NEW ss, IsSeq(ss), \A j \in DOMAIN ss : IsSubmission(ss[j]), NEW ts, ts = Disowned(ss)
  PROVE  /\ IsSeq(ts) /\ Len(ts) = Len(ss) /\ DOMAIN ts = DOMAIN ss
         /\ \A j \in DOMAIN ss :
              /\ IsSubmission(ts[j]) /\ ~ts[j].mine /\ ts[j].payload = ss[j].payload
              /\ ts[j].base = ss[j].base /\ ts[j].kept = ss[j].kept /\ ts[j].stage = ss[j].stage
<1>1. ts = [j \in DOMAIN ss |-> [ss[j] EXCEPT !.mine = FALSE]] BY DEF Disowned
<1>2. ts = [j \in DOMAIN ss |-> ts[j]] BY <1>1
<1>3. IsSeq(ts) /\ Len(ts) = Len(ss) /\ DOMAIN ts = DOMAIN ss BY <1>2, SeqMap
<1>4. ASSUME NEW j \in DOMAIN ss
      PROVE  /\ IsSubmission(ts[j]) /\ ~ts[j].mine /\ ts[j].payload = ss[j].payload
             /\ ts[j].base = ss[j].base /\ ts[j].kept = ss[j].kept /\ ts[j].stage = ss[j].stage
  BY <1>1 DEF IsSubmission
<1> QED BY <1>3, <1>4

(* One submission is over: the others are what they were. *)
LEMMA SubmissionEnds ==
  ASSUME DialogInv, NEW i \in DOMAIN subs, NEW ss, ss = RemoveAt(subs, i)
  PROVE  /\ IsSeq(ss) /\ Len(ss) = Len(subs) - 1 /\ Len(ss) <= MaxSubs[form]
         /\ \A j \in DOMAIN ss : IsSubmission(ss[j]) /\ \E k \in DOMAIN subs : ss[j] = subs[k]
         /\ \A k \in DOMAIN subs \ {i} : \E j \in DOMAIN ss : ss[j] = subs[k]
         /\ \A j, k \in DOMAIN ss : ss[j].mine /\ ss[k].mine => j = k
<1> USE DEF DialogInv
<1>1. IsSeq(subs) /\ Len(subs) <= MaxSubs[form] /\ form \in Forms BY DEF FlowsOK, FormTypeOK
<1>2. Len(subs) \in Nat /\ DOMAIN subs = 1 .. Len(subs) /\ MaxSubs[form] \in Nat
  BY <1>1, SeqFacts, BoundsAssumption
<1>3. /\ IsSeq(ss) /\ Len(ss) = Len(subs) - 1
      /\ \A j \in DOMAIN ss :
           j \in 1 .. Len(subs) - 1 /\ ss[j] = subs[IF j < i THEN j ELSE j + 1]
      /\ \A k \in DOMAIN subs \ {i} : \E j \in DOMAIN ss : ss[j] = subs[k]
  BY <1>1, SeqRemove
<1>4. \A j \in DOMAIN ss : (IF j < i THEN j ELSE j + 1) \in DOMAIN subs BY <1>2, <1>3
<1>5. \A j \in DOMAIN ss : IsSubmission(ss[j]) /\ \E k \in DOMAIN subs : ss[j] = subs[k]
  BY <1>3, <1>4 DEF FlowsOK
<1>6. ASSUME NEW j \in DOMAIN ss, NEW k \in DOMAIN ss, ss[j].mine, ss[k].mine PROVE j = k
  <2>1. (IF j < i THEN j ELSE j + 1) = (IF k < i THEN k ELSE k + 1)
    BY <1>3, <1>4, <1>6 DEF OneUnderWay
  <2> QED BY <2>1, <1>2, <1>3
<1> QED BY <1>1, <1>2, <1>3, <1>5, <1>6

(* Cancelling disowns what is under way and takes no submission away. *)
LEMMA CancelKeeps == ASSUME DialogInv, Cancel PROVE DialogInv' /\ Len(subs') = Len(subs)
<1> USE DEF DialogInv
<1>1. open /\ subs' = Disowned(subs) /\ Unmounted /\ UNCHANGED <<form, record, row, lost, stored,
                                                                 hour>>
  BY DEF Cancel, pageVars
<1>2. form \in Forms /\ IsSeq(subs) /\ \A j \in DOMAIN subs : IsSubmission(subs[j])
  BY DEF FlowsOK, FormTypeOK
<1>3. /\ ~open' /\ open' \in BOOLEAN /\ fresh' \in BOOLEAN
      /\ DOMAIN values' = Names(Flds) /\ touched' = {} /\ DOMAIN options' = DOMAIN NoOptions
      /\ batches' = <<>> /\ Len(batches') = 0 /\ IsSeq(batches') /\ DOMAIN batches' = {}
      /\ UntouchedAreShown' /\ HiddenNamesAreBlank' /\ NewestIsAsked' /\ FreshOptionsFit'
  BY <1>1, <1>2, UnmountedIsIdle
<1>4. /\ IsSeq(subs') /\ Len(subs') = Len(subs) /\ DOMAIN subs' = DOMAIN subs
      /\ \A j \in DOMAIN subs :
           /\ IsSubmission(subs'[j]) /\ ~subs'[j].mine /\ subs'[j].payload = subs[j].payload
           /\ subs'[j].base = subs[j].base /\ subs'[j].kept = subs[j].kept
           /\ subs'[j].stage = subs[j].stage
  BY <1>1, <1>2, DisownedSubs
<1>5. FormTypeOK'
  <2>1. /\ Len(subs') <= MaxSubs[form]
        /\ \A j \in DOMAIN subs' : subs'[j].stage \in {"sent", "stored", "refused"}
    BY <1>4 DEF FormTypeOK
  <2>2. Len(batches') <= MaxBatches /\ touched' \subseteq Names(Flds) BY <1>3, BoundsAssumption
  <2> QED BY <1>1, <1>3, <2>1, <2>2, TypesKept DEF FormTypeOK
<1>6. FlowsOK' BY <1>3, <1>4 DEF FlowsOK
<1>7. RecordsOK' /\ ClosedIsIdle'
  BY <1>1, <1>3, <1>4 DEF RecordsOK, ClosedIsIdle, Busy, Editing, Flds
<1>8. OneUnderWay' BY <1>4 DEF OneUnderWay
<1>9. RowsMade' BY <1>1, <1>3 DEF RowsMade
<1>10. UntouchedExpiryMovesByOffset' BY <1>1, <1>4 DEF UntouchedExpiryMovesByOffset, Editing
<1> QED BY <1>3, <1>4, <1>5, <1>6, <1>7, <1>8, <1>9, <1>10

(* A row stored is the one whose answer is awaited. *)
LEMMA ServerStoresKeeps == ASSUME DialogInv, NEW i \in DOMAIN subs, ServerStores(i) PROVE DialogInv'
<1> USE DEF DialogInv
<1>1. /\ subs[i].stage = "sent" /\ subs' = [subs EXCEPT ![i].stage = "stored"]
      /\ row' = IF Editing THEN [n \in DOMAIN row |-> subs[i].payload[n]] ELSE row
      /\ stored' = IF ~Editing /\ subs[i].mine THEN stored + 1 ELSE stored
      /\ UNCHANGED <<form, record, open, values, options, batches, touched, fresh, lost, hour>>
  BY DEF ServerStores, dialogVars
<1>2. /\ IsSeq(subs') /\ Len(subs') = Len(subs) /\ DOMAIN subs' = DOMAIN subs
      /\ \A j \in DOMAIN subs :
           /\ IsSubmission(subs'[j]) /\ subs'[j].mine = subs[j].mine
           /\ subs'[j].payload = subs[j].payload
           /\ subs'[j].base = subs[j].base /\ subs'[j].kept = subs[j].kept
           /\ subs'[j].stage = IF j = i THEN "stored" ELSE subs[j].stage
  BY <1>1, StageMoves
<1>3. stored \in Nat /\ lost \in Nat /\ stored' \in Nat BY <1>1, BoundsAssumption DEF FormTypeOK
<1>4. FormTypeOK'
  <2>1. /\ Len(subs') <= MaxSubs[form]
        /\ \A j \in DOMAIN subs' : subs'[j].stage \in {"sent", "stored", "refused"}
    BY <1>2 DEF FormTypeOK
  <2> QED BY <1>1, <1>3, <2>1, TypesKept DEF FormTypeOK
<1>5. FlowsOK' BY <1>1, <1>2 DEF FlowsOK
<1>6. RecordsOK' BY <1>1 DEF RecordsOK, Editing, Flds
<1>7. ClosedIsIdle' BY <1>1, <1>2 DEF ClosedIsIdle, Busy
<1>8. UntouchedAreShown' /\ HiddenNamesAreBlank' BY <1>1, ValuesFrame
<1>9. NewestIsAsked' /\ FreshOptionsFit' BY <1>1, OptionsFrame
<1>10. OneUnderWay' BY <1>2 DEF OneUnderWay
<1>11. RowsMade'
  <2>1. CASE ~Editing /\ subs[i].mine
    <3>1. open BY <2>1 DEF ClosedIsIdle, Busy
    <3>2. \A j \in DOMAIN subs : ~(subs[j].mine /\ subs[j].stage = "stored")
      BY <2>1, <1>1 DEF OneUnderWay
    <3>3. stored <= lost BY <3>1, <3>2, <1>3 DEF RowsMade
    <3>4. subs'[i].mine /\ subs'[i].stage = "stored" /\ i \in DOMAIN subs' BY <2>1, <1>2
    <3> QED BY <3>3, <3>4, <2>1, <1>1, <1>3 DEF RowsMade
  <2>2. CASE ~(~Editing /\ subs[i].mine)
    <3>1. stored' = stored BY <2>2, <1>1
    <3>2. ASSUME NEW j \in DOMAIN subs, subs[j].mine, subs[j].stage = "stored"
          PROVE  \E k \in DOMAIN subs' : subs'[k].mine /\ subs'[k].stage = "stored"
      BY <3>2, <1>2
    <3> QED BY <3>1, <3>2, <1>1 DEF RowsMade
  <2> QED BY <2>1, <2>2
<1>12. UntouchedExpiryMovesByOffset' BY <1>1, <1>2 DEF UntouchedExpiryMovesByOffset, Editing
<1> QED BY <1>4, <1>5, <1>6, <1>7, <1>8, <1>9, <1>10, <1>11, <1>12

(* A refusal stores nothing. *)
LEMMA ServerRefusesKeeps ==
  ASSUME DialogInv, NEW i \in DOMAIN subs, ServerRefuses(i)
  PROVE  DialogInv'
<1> USE DEF DialogInv
<1>1. /\ subs[i].stage = "sent" /\ subs' = [subs EXCEPT ![i].stage = "refused"]
      /\ UNCHANGED <<form, record, row, open, values, options, batches, touched, fresh, lost,
                     stored, hour>>
  BY DEF ServerRefuses, dialogVars, pageVars
<1>2. /\ IsSeq(subs') /\ Len(subs') = Len(subs) /\ DOMAIN subs' = DOMAIN subs
      /\ \A j \in DOMAIN subs :
           /\ IsSubmission(subs'[j]) /\ subs'[j].mine = subs[j].mine
           /\ subs'[j].payload = subs[j].payload
           /\ subs'[j].base = subs[j].base /\ subs'[j].kept = subs[j].kept
           /\ subs'[j].stage = IF j = i THEN "refused" ELSE subs[j].stage
  BY <1>1, StageMoves
<1>3. FormTypeOK'
  <2>1. /\ Len(subs') <= MaxSubs[form]
        /\ \A j \in DOMAIN subs' : subs'[j].stage \in {"sent", "stored", "refused"}
    BY <1>2 DEF FormTypeOK
  <2> QED BY <1>1, <2>1, TypesKept DEF FormTypeOK
<1>4. FlowsOK' BY <1>1, <1>2 DEF FlowsOK
<1>5. RecordsOK' BY <1>1 DEF RecordsOK, Editing, Flds
<1>6. ClosedIsIdle' BY <1>1, <1>2 DEF ClosedIsIdle, Busy
<1>7. UntouchedAreShown' /\ HiddenNamesAreBlank' BY <1>1, ValuesFrame
<1>8. NewestIsAsked' /\ FreshOptionsFit' BY <1>1, OptionsFrame
<1>9. OneUnderWay' BY <1>2 DEF OneUnderWay
<1>10. RowsMade'
  <2>1. ASSUME NEW j \in DOMAIN subs, subs[j].mine, subs[j].stage = "stored"
        PROVE  \E k \in DOMAIN subs' : subs'[k].mine /\ subs'[k].stage = "stored"
    BY <2>1, <1>1, <1>2
  <2> QED BY <2>1, <1>1 DEF RowsMade
<1>11. UntouchedExpiryMovesByOffset' BY <1>1, <1>2 DEF UntouchedExpiryMovesByOffset, Editing
<1> QED BY <1>3, <1>4, <1>5, <1>6, <1>7, <1>8, <1>9, <1>10, <1>11

(* The answer to a stored submission closes the dialog, whose ever it was. *)
LEMMA SavedKeeps ==
  ASSUME DialogInv, NEW i \in DOMAIN subs, Saved(i)
  PROVE  DialogInv' /\ subs[i].stage = "stored" /\ Len(subs') < Len(subs)
<1> USE DEF DialogInv
<1> DEFINE ss == RemoveAt(subs, i)
<1>1. /\ subs[i].stage = "stored" /\ record' \in {record, row} /\ subs' = Disowned(ss) /\ Unmounted
      /\ UNCHANGED <<form, row, lost, stored, hour>>
  BY DEF Saved
<1>2. form \in Forms BY DEF FormTypeOK
<1>3. /\ ~open' /\ open' \in BOOLEAN /\ fresh' \in BOOLEAN
      /\ DOMAIN values' = Names(Flds) /\ touched' = {} /\ DOMAIN options' = DOMAIN NoOptions
      /\ batches' = <<>> /\ Len(batches') = 0 /\ IsSeq(batches') /\ DOMAIN batches' = {}
      /\ UntouchedAreShown' /\ HiddenNamesAreBlank' /\ NewestIsAsked' /\ FreshOptionsFit'
  BY <1>1, <1>2, UnmountedIsIdle
<1>4. /\ IsSeq(ss) /\ Len(ss) = Len(subs) - 1 /\ Len(ss) <= MaxSubs[form]
      /\ \A j \in DOMAIN ss : IsSubmission(ss[j]) /\ \E k \in DOMAIN subs : ss[j] = subs[k]
  BY SubmissionEnds
<1> HIDE DEF ss
<1>5. /\ IsSeq(subs') /\ Len(subs') = Len(ss) /\ DOMAIN subs' = DOMAIN ss
      /\ \A j \in DOMAIN ss :
           /\ IsSubmission(subs'[j]) /\ ~subs'[j].mine /\ subs'[j].payload = ss[j].payload
           /\ subs'[j].base = ss[j].base /\ subs'[j].kept = ss[j].kept
           /\ subs'[j].stage = ss[j].stage
  BY <1>1, <1>4, DisownedSubs
<1>6. FormTypeOK'
  <2>1. /\ Len(subs') <= MaxSubs[form]
        /\ \A j \in DOMAIN subs' : subs'[j].stage \in {"sent", "stored", "refused"}
    BY <1>4, <1>5 DEF FormTypeOK
  <2>2. Len(batches') <= MaxBatches /\ touched' \subseteq Names(Flds) BY <1>3, BoundsAssumption
  <2> QED BY <1>1, <1>3, <2>1, <2>2, TypesKept DEF FormTypeOK
<1>7. FlowsOK' BY <1>3, <1>5 DEF FlowsOK
<1>8. RecordsOK' /\ ClosedIsIdle'
  BY <1>1, <1>3, <1>5 DEF RecordsOK, ClosedIsIdle, Busy, Editing, Flds
<1>9. OneUnderWay' BY <1>5 DEF OneUnderWay
<1>10. RowsMade' BY <1>1, <1>3 DEF RowsMade
<1>11. UntouchedExpiryMovesByOffset' BY <1>1, <1>4, <1>5 DEF UntouchedExpiryMovesByOffset, Editing
<1>12. Len(subs') < Len(subs) BY <1>4, <1>5, SeqFacts DEF FlowsOK
<1> QED BY <1>1, <1>3, <1>6, <1>7, <1>8, <1>9, <1>10, <1>11, <1>12

(* A refusal comes, or an answer is lost, which leaves one row more than    *)
(* was told of.                                                             *)
LEMMA NotSavedKeeps == ASSUME DialogInv, NEW i \in DOMAIN subs, NotSaved(i) PROVE DialogInv'
<1> USE DEF DialogInv
<1>1. /\ subs' = RemoveAt(subs, i)
      /\ UNCHANGED <<form, record, row, open, values, options, batches, touched, fresh, stored,
                     hour>>
  BY DEF NotSaved, dialogVars, pageVars
<1>2. \/ subs[i].stage = "refused" /\ lost' = lost
      \/ subs[i].mine /\ lost < MaxLost /\ lost' = lost + 1
  BY DEF NotSaved
<1>3. /\ IsSeq(subs') /\ Len(subs') <= MaxSubs[form]
      /\ \A j \in DOMAIN subs' : IsSubmission(subs'[j]) /\ \E k \in DOMAIN subs : subs'[j] = subs[k]
      /\ \A k \in DOMAIN subs \ {i} : \E j \in DOMAIN subs' : subs'[j] = subs[k]
      /\ \A j, k \in DOMAIN subs' : subs'[j].mine /\ subs'[k].mine => j = k
  BY <1>1, SubmissionEnds
<1>4. stored \in Nat /\ lost \in Nat /\ lost' \in 0 .. MaxLost BY <1>2, BoundsAssumption DEF FormTypeOK
<1>5. FormTypeOK'
  <2>1. \A j \in DOMAIN subs' : subs'[j].stage \in {"sent", "stored", "refused"} BY <1>3 DEF FormTypeOK
  <2> QED BY <1>1, <1>3, <1>4, <2>1, TypesKept DEF FormTypeOK
<1>6. FlowsOK' BY <1>1, <1>3 DEF FlowsOK
<1>7. RecordsOK' BY <1>1 DEF RecordsOK, Editing, Flds
<1>8. ClosedIsIdle' BY <1>1, <1>3 DEF ClosedIsIdle, Busy
<1>9. UntouchedAreShown' /\ HiddenNamesAreBlank' BY <1>1, ValuesFrame
<1>10. NewestIsAsked' /\ FreshOptionsFit' BY <1>1, OptionsFrame
<1>11. OneUnderWay' BY <1>3 DEF OneUnderWay
<1>12. RowsMade'
  <2>1. CASE subs[i].stage = "refused" /\ lost' = lost
    <3>1. ASSUME NEW k \in DOMAIN subs, subs[k].mine, subs[k].stage = "stored"
          PROVE  \E j \in DOMAIN subs' : subs'[j].mine /\ subs'[j].stage = "stored"
      <4>1. k # i BY <2>1, <3>1
      <4> QED BY <4>1, <3>1, <1>3
    <3> QED BY <2>1, <3>1, <1>1 DEF RowsMade
  <2>2. CASE lost' = lost + 1 BY <2>2, <1>1, <1>4 DEF RowsMade
  <2> QED BY <2>1, <2>2, <1>2
<1>13. UntouchedExpiryMovesByOffset' BY <1>1, <1>3 DEF UntouchedExpiryMovesByOffset, Editing
<1> QED BY <1>5, <1>6, <1>7, <1>8, <1>9, <1>10, <1>11, <1>12, <1>13

(* A new record starts the values of an edit form over. *)
LEMMA PageReloadsKeeps == ASSUME DialogInv, PageReloads PROVE DialogInv'
<1> USE DEF DialogInv
<1>1. /\ Editing /\ record' = row /\ UNCHANGED <<form, row, subs, lost, stored, open, options, hour>>
      /\ IF open THEN Mounted(row) ELSE UNCHANGED <<values, touched, batches, fresh>>
  BY DEF PageReloads, saveVars
<1>2. form \in Forms /\ fresh \in BOOLEAN BY DEF FormTypeOK
<1>3. RecordsOK' BY <1>1 DEF RecordsOK, Editing, Flds
<1>4. OneUnderWay' /\ RowsMade' /\ UntouchedExpiryMovesByOffset' BY <1>1, SubsFrame
<1>5. CASE open
  <2>1. DOMAIN values' = Names(Flds) /\ touched' = {} /\ UntouchedAreShown' /\ HiddenNamesAreBlank'
    BY <1>1, <1>5, MountedShows
  <2>2. LoadOptions(values') BY <1>1, <1>5 DEF Mounted
  <2>3. RemoteWants(Flds, values') = {} BY <1>1, <1>2, EditShowsAll
  <2>4. /\ IsSeq(batches') /\ \A i \in DOMAIN batches' : IsBatch(batches'[i])
        /\ batches' = batches /\ NewestIsAsked' /\ FreshOptionsFit' /\ fresh' \in BOOLEAN
    BY <1>1, <1>2, <2>2, <2>3, OptionsAsked
  <2>5. FormTypeOK' BY <1>1, <2>1, <2>4, TypesKept DEF FormTypeOK
  <2>6. FlowsOK' BY <1>1, <2>4 DEF FlowsOK
  <2>7. ClosedIsIdle' BY <1>1, <1>5 DEF ClosedIsIdle
  <2> QED BY <1>3, <1>4, <2>1, <2>4, <2>5, <2>6, <2>7
<1>6. CASE ~open
  <2>1. UNCHANGED <<values, touched, batches, fresh>> BY <1>1, <1>6
  <2>2. UntouchedAreShown' /\ HiddenNamesAreBlank'
    BY <1>1, <1>6 DEF UntouchedAreShown, HiddenNamesAreBlank
  <2>3. NewestIsAsked' /\ FreshOptionsFit' BY <1>1, <2>1, OptionsFrame
  <2>4. FormTypeOK' BY <1>1, <2>1, TypesKept DEF FormTypeOK
  <2>5. FlowsOK' /\ ClosedIsIdle' BY <1>1, <2>1 DEF FlowsOK, ClosedIsIdle, Busy
  <2> QED BY <1>3, <1>4, <2>2, <2>3, <2>4, <2>5
<1> QED BY <1>5, <1>6

(* Another administrator changes the row, not the record the page has. *)
LEMMA OtherAdminSavesKeeps == ASSUME DialogInv, OtherAdminSaves PROVE DialogInv'
<1> USE DEF DialogInv
<1>1. PICK s \in {"active", "inactive"} : row' = [row EXCEPT !.status = s] BY DEF OtherAdminSaves
<1>2. /\ Editing /\ DOMAIN row' = DOMAIN row
      /\ UNCHANGED <<form, record, open, values, options, batches, touched, fresh, subs, lost,
                     stored, hour>>
  BY <1>1 DEF OtherAdminSaves, dialogVars, saveVars
<1>3. FormTypeOK' BY <1>2, TypesKept DEF FormTypeOK
<1>4. FlowsOK' /\ ClosedIsIdle' BY <1>2 DEF FlowsOK, ClosedIsIdle, Busy
<1>5. RecordsOK' BY <1>2 DEF RecordsOK, Editing, Flds
<1>6. UntouchedAreShown' /\ HiddenNamesAreBlank' BY <1>2, ValuesFrame
<1>7. NewestIsAsked' /\ FreshOptionsFit' BY <1>2, OptionsFrame
<1>8. OneUnderWay' /\ RowsMade' /\ UntouchedExpiryMovesByOffset' BY <1>2, SubsFrame
<1> QED BY <1>3, <1>4, <1>5, <1>6, <1>7, <1>8

(* A tick of the clock, and a step of the pages. *)
LEMMA DialogStandsStill ==
  ASSUME DialogInv, hour' \in 0 .. Horizon, UNCHANGED <<pageVars, dialogVars, saveVars>>
  PROVE  DialogInv'
<1> USE DEF DialogInv
<1>1. UNCHANGED <<form, record, row, open, values, options, batches, touched, fresh, subs, lost,
                  stored>>
  BY DEF pageVars, dialogVars, saveVars
<1>2. FormTypeOK' BY <1>1, TypesKept DEF FormTypeOK
<1>3. FlowsOK' /\ ClosedIsIdle' BY <1>1 DEF FlowsOK, ClosedIsIdle, Busy
<1>4. RecordsOK' BY <1>1 DEF RecordsOK, Editing, Flds
<1>5. UntouchedAreShown' /\ HiddenNamesAreBlank' BY <1>1, ValuesFrame
<1>6. NewestIsAsked' /\ FreshOptionsFit' BY <1>1, OptionsFrame
<1>7. OneUnderWay' /\ RowsMade' /\ UntouchedExpiryMovesByOffset' BY <1>1, SubsFrame
<1> QED BY <1>2, <1>3, <1>4, <1>5, <1>6, <1>7

(* The dialog keeps its invariant. *)
LEMMA DialogNext == ASSUME DialogInv, [FormNext]_formVars PROVE DialogInv'
<1>1. hour \in 0 .. Horizon BY DEF DialogInv, FormTypeOK
<1>2. CASE OpenDialog BY <1>2, OpenDialogKeeps
<1>3. CASE ChangeSome
  <2>1. PICK f \in Renderable(Flds, values) : \E v \in Typed(f, options) : Change(f.name, v)
    BY <1>3 DEF ChangeSome
  <2>2. PICK v \in Typed(f, options) : Change(f.name, v) BY <2>1
  <2> QED BY <2>2, ChangeKeeps
<1>4. CASE Submit BY <1>4, SubmitKeeps
<1>5. CASE Cancel BY <1>5, CancelKeeps
<1>6. ASSUME NEW i \in DOMAIN batches, OptionsArrive(i) \/ OptionsFail(i) PROVE DialogInv'
  BY <1>6, OptionsArriveKeeps, OptionsFailKeeps
<1>7. ASSUME NEW i \in DOMAIN subs, ServerStores(i) \/ ServerRefuses(i) \/ Saved(i) \/ NotSaved(i)
      PROVE  DialogInv'
  BY <1>7, ServerStoresKeeps, ServerRefusesKeeps, SavedKeeps, NotSavedKeeps
<1>8. CASE PageReloads BY <1>8, PageReloadsKeeps
<1>9. CASE OtherAdminSaves BY <1>9, OtherAdminSavesKeeps
<1>10. CASE HourPasses
  <2>1. hour' \in 0 .. Horizon BY <1>1, <1>10, BoundsAssumption DEF HourPasses
  <2> QED BY <2>1, <1>10, DialogStandsStill DEF HourPasses
<1>11. CASE UNCHANGED formVars BY <1>1, <1>11, DialogStandsStill DEF formVars
<1> QED BY <1>2, <1>3, <1>4, <1>5, <1>6, <1>7, <1>8, <1>9, <1>10, <1>11 DEF FormNext

(* A closed dialog on rows that have the fields of the form. *)
LEMMA ClosedDialog ==
  ASSUME form \in Forms, open = FALSE, values = InitialValues(Flds, NoRecord), options = NoOptions,
         batches = <<>>, subs = <<>>, hour = 0, lost = 0, RecordsOK, touched = {}, fresh = FALSE, stored = 0
  PROVE  DialogInv
<1>1. <<>> \in Seq({}) /\ Len(<<>>) = 0 /\ DOMAIN <<>> = {} BY EmptySeq
<1>2. IsSeq(<<>>) BY <1>1, TypedIsSeq
<1>3. MaxSubs[form] \in Nat BY BoundsAssumption
<1>4. FormTypeOK
  <2>1. DOMAIN values = Names(Flds) BY InitialValuesShown
  <2>2. Len(batches) <= MaxBatches /\ Len(subs) <= MaxSubs[form] BY <1>1, <1>3, BoundsAssumption
  <2>3. \A i \in DOMAIN subs : subs[i].stage \in {"sent", "stored", "refused"} BY <1>1
  <2>4. hour \in 0 .. Horizon /\ lost \in 0 .. MaxLost /\ stored \in Nat BY BoundsAssumption
  <2> QED BY <2>1, <2>2, <2>3, <2>4 DEF FormTypeOK
<1>5. FlowsOK BY <1>1, <1>2 DEF FlowsOK
<1>6. ClosedIsIdle BY <1>1 DEF ClosedIsIdle, Busy
<1>7. UntouchedAreShown /\ HiddenNamesAreBlank /\ FreshOptionsFit
  BY DEF UntouchedAreShown, HiddenNamesAreBlank, FreshOptionsFit
<1>8. NewestIsAsked BY <1>1 DEF NewestIsAsked
<1>9. OneUnderWay /\ UntouchedExpiryMovesByOffset
  BY <1>1 DEF OneUnderWay, UntouchedExpiryMovesByOffset
<1>10. RowsMade BY DEF RowsMade
<1> QED BY <1>4, <1>5, <1>6, <1>7, <1>8, <1>9, <1>10 DEF DialogInv

(* It holds at first. *)
LEMMA DialogInit == FormInit => DialogInv
<1> SUFFICES ASSUME FormInit PROVE DialogInv OBVIOUS
<1>1. form \in Forms BY DEF FormInit
<1>2. RecordsOK
  <2>1. CASE Editing
    <3>1. PICK d \in Dates, c \in {"optional", "forbidden"} : row = SavedRow(form[1], d, c)
      BY <2>1 DEF FormInit
    <3>2. <<form[1], "edit">> = form BY <1>1, <2>1, FormsAssumption DEF AllForms, Editing
    <3>3. DOMAIN row = Names(Flds) BY <3>1, <3>2 DEF SavedRow, Flds
    <3>4. record = row BY DEF FormInit
    <3> QED BY <2>1, <3>3, <3>4 DEF RecordsOK
  <2>2. CASE ~Editing BY <2>2 DEF RecordsOK, FormInit
  <2> QED BY <2>1, <2>2
<1> QED BY <1>1, <1>2, ClosedDialog DEF FormInit

(* It implies both properties. *)
LEMMA DialogHolds == DialogInv => DialogIsCurrent /\ WhatIsStored
BY DEF DialogInv, DialogIsCurrent, WhatIsStored, OneRowPerOpening, RowsMade

(* Of all steps only a cancel and a save close the dialog. *)
LEMMA DialogCloses ==
  ASSUME DialogInv, [FormNext]_formVars, open, ~open'
  PROVE  \/ Len(subs') = Len(subs)
         \/ \E i \in DOMAIN subs : subs[i].stage = "stored" /\ Len(subs') < Len(subs)
<1>1. CASE Cancel BY <1>1, CancelKeeps
<1>2. ASSUME NEW i \in DOMAIN subs, Saved(i)
      PROVE  subs[i].stage = "stored" /\ Len(subs') < Len(subs)
  BY <1>2, SavedKeeps
<1>3. CASE OpenDialog \/ Submit \/ PageReloads \/ OtherAdminSaves \/ HourPasses
  BY <1>3 DEF OpenDialog, Submit, PageReloads, OtherAdminSaves, HourPasses, dialogVars
<1>4. CASE ChangeSome BY <1>4 DEF ChangeSome, Change
<1>5. ASSUME NEW i \in DOMAIN batches, OptionsArrive(i) \/ OptionsFail(i) PROVE FALSE
  BY <1>5 DEF OptionsArrive, OptionsFail
<1>6. ASSUME NEW i \in DOMAIN subs, ServerStores(i) \/ ServerRefuses(i) \/ NotSaved(i) PROVE FALSE
  BY <1>6 DEF ServerStores, ServerRefuses, NotSaved, dialogVars
<1>7. CASE UNCHANGED formVars BY <1>7 DEF formVars, dialogVars
<1> QED BY <1>1, <1>2, <1>3, <1>4, <1>5, <1>6, <1>7 DEF FormNext

(* What a list page shows in rows, any other in secrets. *)
Size(r, pg) == IF pg = "list" THEN r.rows ELSE Len(r.secrets)

ShownOK(r) ==
  /\ DOMAIN r = {"rows", "name", "status", "secrets"} /\ r.rows \in Nat
  /\ r.secrets \in Seq({"active", "revoked"})

LoadOK(l, pg, mn) ==
  /\ DOMAIN l = {"stage", "snap", "newest", "frees"} /\ l.newest \in BOOLEAN /\ l.frees \in BOOLEAN
  /\ ShownOK(l.snap)
  /\ l.newest /\ l.stage = "read" => \A k \in mn : k <= Size(l.snap, pg)

(* The secret of the only rotation since the page was mounted is the last one. *)
IsOnly(k, rot, sv) == rot >= 1 /\ (rot = 1 => k = Len(sv.secrets))

Ops == {"create", "rotate", "issue", "revoke", "reveal", "delete", "activate", "retire"}

RequestOK(r, pg, sv, rot) ==
  /\ DOMAIN r = {"op", "arg", "typed", "stage", "got", "ours"} /\ r.op \in Ops /\ r.got \in Nat
  /\ r.op = "create" => pg = "list"
  /\ r.op = "rotate" => pg = "applications"
  /\ r.op \in {"issue", "revoke"} => pg = "agents"
  /\ r.op \in {"activate", "retire"} => pg = "keys"
  /\ r.op = "reveal" => r.arg \in Nat
  /\ r.op = "delete" => r.arg = r.typed
  /\ r.stage = "done" /\ r.op \in {"create", "rotate", "issue"} => r.got <= Size(sv, pg)
  /\ r.stage = "done" /\ r.op = "rotate" /\ r.ours => IsOnly(r.got, rot, sv)

LoadsOK(ls, pg, mn) == IsSeq(ls) /\ \A i \in DOMAIN ls : LoadOK(ls[i], pg, mn)
RequestsOK(rs, pg, sv, rot) == IsSeq(rs) /\ \A i \in DOMAIN rs : RequestOK(rs[i], pg, sv, rot)

(* Nothing was told of that is not there. *)
WorkIsServed == \A k \in mine : k <= Size(srv, page)

Acting(r) == r.ours /\ r.op \in P!Acts

(* One confirmed action, or the load that follows it, while the page is busy. *)
OneAct(rs, ls, b) ==
  /\ ~b => (\A i \in DOMAIN rs : ~Acting(rs[i])) /\ (\A i \in DOMAIN ls : ~ls[i].frees)
  /\ b => (\E i \in DOMAIN rs : Acting(rs[i])) \/ (\E i \in DOMAIN ls : ls[i].frees)
  /\ \A i, j \in DOMAIN rs : Acting(rs[i]) /\ Acting(rs[j]) => i = j
  /\ \A i, j \in DOMAIN ls : ls[i].frees /\ ls[j].frees => i = j
  /\ \A i \in DOMAIN rs, j \in DOMAIN ls : ~(Acting(rs[i]) /\ ls[j].frees)

LastIsActive ==
  page = "applications" /\ srv.status = "active" =>
    Len(srv.secrets) > 0 /\ srv.secrets[Len(srv.secrets)] = "active"

FieldIsOnly == page = "applications" /\ field # 0 => IsOnly(field, rotations, srv)
KeysAreConfirmed == dialog \in {"activate", "retire"} => page = "keys"
LeftIsIdle == left => ~busy /\ dialog = ""

PagesInv ==
  /\ P!TypeOK /\ ShownOK(srv) /\ ShownOK(view) /\ LoadsOK(loads, page, mine)
  /\ RequestsOK(reqs, page, srv, rotations)
  /\ rotations \in Nat
  /\ WorkIsServed /\ P!FreshViewHasOwnWork /\ OneAct(reqs, loads, busy) /\ P!DeletedAsTyped
  /\ LastIsActive /\ FieldIsOnly /\ KeysAreConfirmed /\ LeftIsIdle

Origin(i, k) == IF i < k THEN i ELSE i + 1

(* RemoveAt by where each element was. *)
LEMMA SeqRemoved ==
  ASSUME NEW s, IsSeq(s), NEW k \in DOMAIN s, NEW t, t = RemoveAt(s, k)
  PROVE  /\ IsSeq(t) /\ Len(t) = Len(s) - 1 /\ Len(t) <= Len(s)
         /\ \A i \in DOMAIN t : Origin(i, k) \in DOMAIN s /\ Origin(i, k) # k /\ t[i] = s[Origin(i, k)]
         /\ \A i, j \in DOMAIN t : Origin(i, k) = Origin(j, k) => i = j
         /\ \A i \in DOMAIN s \ {k} : \E j \in DOMAIN t : t[j] = s[i]
<1>1. Len(s) \in Nat /\ DOMAIN s = 1 .. Len(s) BY SeqFacts
<1>2. /\ IsSeq(t) /\ Len(t) = Len(s) - 1 /\ DOMAIN t = 1 .. Len(s) - 1
      /\ \A i \in DOMAIN t : t[i] = s[IF i < k THEN i ELSE i + 1]
      /\ \A i \in DOMAIN s \ {k} : \E j \in DOMAIN t : t[j] = s[i]
  BY SeqRemove
<1>3. \A i \in DOMAIN t : Origin(i, k) \in DOMAIN s /\ Origin(i, k) # k /\ t[i] = s[Origin(i, k)]
  BY <1>1, <1>2 DEF Origin
<1>4. \A i, j \in DOMAIN t : Origin(i, k) = Origin(j, k) => i = j BY <1>1, <1>2 DEF Origin
<1> QED BY <1>1, <1>2, <1>3, <1>4

(* The flag over the ways the requests and the loads change. *)
LEMMA RequestGoes ==
  ASSUME NEW rs, NEW ls, NEW b, OneAct(rs, ls, b), IsSeq(rs), NEW k \in DOMAIN rs, NEW ts,
         ts = RemoveAt(rs, k)
  PROVE  (Acting(rs[k]) => OneAct(ts, ls, FALSE)) /\ (~Acting(rs[k]) => OneAct(ts, ls, b))
<1>1. /\ \A i \in DOMAIN ts : Origin(i, k) \in DOMAIN rs /\ Origin(i, k) # k /\ ts[i] = rs[Origin(i, k)]
      /\ \A i, j \in DOMAIN ts : Origin(i, k) = Origin(j, k) => i = j
      /\ \A i \in DOMAIN rs \ {k} : \E j \in DOMAIN ts : ts[j] = rs[i]
  BY SeqRemoved
<1>2. \A i, j \in DOMAIN ts : Acting(ts[i]) /\ Acting(ts[j]) => i = j BY <1>1 DEF OneAct
<1>3. \A i \in DOMAIN ts, j \in DOMAIN ls : ~(Acting(ts[i]) /\ ls[j].frees) BY <1>1 DEF OneAct
<1>4. CASE Acting(rs[k])
  <2>1. \A i \in DOMAIN ts : ~Acting(ts[i]) BY <1>1, <1>4 DEF OneAct
  <2>2. \A i \in DOMAIN ls : ~ls[i].frees BY <1>4 DEF OneAct
  <2> QED BY <2>1, <2>2, <1>2, <1>3, <1>4 DEF OneAct
<1>5. CASE ~Acting(rs[k])
  <2>1. ASSUME NEW i \in DOMAIN rs, Acting(rs[i]) PROVE \E j \in DOMAIN ts : Acting(ts[j])
    BY <2>1, <1>1, <1>5
  <2>2. (\A i \in DOMAIN rs : ~Acting(rs[i])) => \A i \in DOMAIN ts : ~Acting(ts[i]) BY <1>1
  <2> QED BY <2>1, <2>2, <1>2, <1>3, <1>5 DEF OneAct
<1> QED BY <1>4, <1>5

(* A load ends: the page is free if it was the load to free it. *)
LEMMA LoadGoes ==
  ASSUME NEW rs, NEW ls, NEW b, OneAct(rs, ls, b), IsSeq(ls), NEW k \in DOMAIN ls, NEW ts,
         ts = RemoveAt(ls, k)
  PROVE  (ls[k].frees => OneAct(rs, ts, FALSE)) /\ (~ls[k].frees => OneAct(rs, ts, b))
<1>1. /\ \A i \in DOMAIN ts : Origin(i, k) \in DOMAIN ls /\ Origin(i, k) # k /\ ts[i] = ls[Origin(i, k)]
      /\ \A i, j \in DOMAIN ts : Origin(i, k) = Origin(j, k) => i = j
      /\ \A i \in DOMAIN ls \ {k} : \E j \in DOMAIN ts : ts[j] = ls[i]
  BY SeqRemoved
<1>2. \A i, j \in DOMAIN ts : ts[i].frees /\ ts[j].frees => i = j BY <1>1 DEF OneAct
<1>3. \A i \in DOMAIN rs, j \in DOMAIN ts : ~(Acting(rs[i]) /\ ts[j].frees) BY <1>1 DEF OneAct
<1>4. CASE ls[k].frees
  <2>1. \A i \in DOMAIN ts : ~ts[i].frees BY <1>1, <1>4 DEF OneAct
  <2>2. \A i \in DOMAIN rs : ~Acting(rs[i]) BY <1>4 DEF OneAct
  <2> QED BY <2>1, <2>2, <1>2, <1>3, <1>4 DEF OneAct
<1>5. CASE ~ls[k].frees
  <2>1. ASSUME NEW i \in DOMAIN ls, ls[i].frees PROVE \E j \in DOMAIN ts : ts[j].frees
    BY <2>1, <1>1, <1>5
  <2>2. (\A i \in DOMAIN ls : ~ls[i].frees) => \A i \in DOMAIN ts : ~ts[i].frees BY <1>1
  <2> QED BY <2>1, <2>2, <1>2, <1>3, <1>5 DEF OneAct
<1> QED BY <1>4, <1>5

(* A request is sent: one that acts finds a page that is not busy. *)
LEMMA RequestComes ==
  ASSUME NEW rs, NEW ls, NEW b, OneAct(rs, ls, b), IsSeq(rs), NEW r, NEW ts, ts = Append(rs, r)
  PROVE  (~Acting(r) => OneAct(ts, ls, b)) /\ (Acting(r) /\ b = FALSE => OneAct(ts, ls, TRUE))
<1>1. /\ \A i \in DOMAIN rs : ts[i] = rs[i] /\ i \in DOMAIN ts
      /\ ts[Len(rs) + 1] = r /\ DOMAIN ts = DOMAIN rs \cup {Len(rs) + 1}
  BY SeqAppend
<1> QED BY <1>1 DEF OneAct

Longer(ls, ts, fr) ==
  /\ DOMAIN ts = DOMAIN ls \cup {Len(ls) + 1}
  /\ \A i \in DOMAIN ls : ts[i].frees = ls[i].frees
  /\ ts[Len(ls) + 1].frees = fr

(* A load is started: one that frees follows an action that has gone. *)
LEMMA LoadComes ==
  ASSUME NEW rs, NEW ls, NEW b, OneAct(rs, ls, b), IsSeq(ls), NEW ts
  PROVE  /\ Longer(ls, ts, FALSE) => OneAct(rs, ts, b)
         /\ Longer(ls, ts, TRUE) /\ b = FALSE => OneAct(rs, ts, TRUE)
<1>1. Len(ls) + 1 \notin DOMAIN ls BY SeqFacts
<1>2. ASSUME Longer(ls, ts, TRUE), b = FALSE PROVE OneAct(rs, ts, TRUE)
  BY <1>1, <1>2 DEF OneAct, Longer
<1>3. ASSUME Longer(ls, ts, FALSE) PROVE OneAct(rs, ts, b) BY <1>1, <1>3 DEF OneAct, Longer
<1> QED BY <1>2, <1>3

(* What is under way is what the flag says. *)
LEMMA OneActIsUnderWay == ASSUME OneAct(reqs, loads, busy), busy \in BOOLEAN PROVE P!BusyIsUnderWay
<1> DEFINE A == {i \in DOMAIN reqs : reqs[i].ours /\ reqs[i].op \in P!Acts}
           F == {i \in DOMAIN loads : loads[i].frees}
<1>1. Cardinality({}) = 0 /\ \A x : Cardinality({x}) = 1 BY FS_EmptySet, FS_Singleton
<1>2. ASSUME ~busy PROVE Cardinality(A) = 0 /\ Cardinality(F) = 0
  <2>1. A = {} /\ F = {} BY <1>2 DEF OneAct, Acting
  <2> QED BY <2>1, <1>1
<1>3. ASSUME busy, \E i \in DOMAIN reqs : Acting(reqs[i])
      PROVE  Cardinality(A) = 1 /\ Cardinality(F) = 0
  <2>1. PICK i \in DOMAIN reqs : Acting(reqs[i]) BY <1>3
  <2>2. A = {i} BY <2>1 DEF OneAct, Acting
  <2>3. F = {} BY <2>1 DEF OneAct, Acting
  <2> QED BY <2>2, <2>3, <1>1
<1>4. ASSUME busy, \E i \in DOMAIN loads : loads[i].frees
      PROVE  Cardinality(A) = 0 /\ Cardinality(F) = 1
  <2>1. PICK i \in DOMAIN loads : loads[i].frees BY <1>4
  <2>2. A = {} BY <2>1 DEF OneAct, Acting
  <2>3. F = {i} BY <2>1 DEF OneAct, Acting
  <2> QED BY <2>2, <2>3, <1>1
<1>5. P!BusyIsUnderWay <=> Cardinality(A) + Cardinality(F) = IF busy THEN 1 ELSE 0
  BY DEF P!BusyIsUnderWay, P!Cardinality, Cardinality
<1>6. busy => (\E i \in DOMAIN reqs : Acting(reqs[i])) \/ (\E i \in DOMAIN loads : loads[i].frees)
  BY DEF OneAct
<1> HIDE DEF A, F
<1> QED BY <1>2, <1>3, <1>4, <1>5, <1>6

(* The invariant implies what the run checks. *)
LEMMA PagesHold == PagesInv => PagesKeepUp
<1> SUFFICES ASSUME PagesInv PROVE PagesKeepUp OBVIOUS
<1>1. P!OneRotationIsActive
  BY DEF PagesInv, P!OneRotationIsActive, FieldIsOnly, LastIsActive, IsOnly
<1> QED BY <1>1, OneActIsUnderWay DEF PagesInv, PagesKeepUp, P!PagesKeepUp, P!TypeOK

(* A set of naturals has a least element. *)
LEMMA Least == ASSUME NEW S, S \subseteq Nat, S # {} PROVE \E m \in S : \A j \in S : m <= j
<1> DEFINE R == OpToRel(<, Nat)
<1>1. IsWellFoundedOn(R, Nat) BY NatLessThanWellFounded
<1>2. \A j, m \in Nat : <<j, m>> \in R <=> j < m BY DEF OpToRel
<1> HIDE DEF R
<1>3. PICK m \in S : \A j \in S : ~(<<j, m>> \in R) BY <1>1, WFMin
<1>4. ASSUME NEW j \in S PROVE m <= j
  <2>1. j \in Nat /\ m \in Nat BY <1>3
  <2>2. <<j, m>> \in R <=> j < m BY <1>2, <2>1
  <2>3. ~(j < m) BY <2>2, <1>3
  <2> QED BY <2>1, <2>3
<1> QED BY <1>3, <1>4

(* The RemoveAt of the instance is the one of the sequence lemmas. *)
LEMMA SameRemove == \A s, k : P!RemoveAt(s, k) = RemoveAt(s, k)
BY DEF P!RemoveAt, RemoveAt

(* A sequence keeps its type when its elements stay in it. *)
LEMMA SeqRewritten ==
  ASSUME NEW S, NEW s \in Seq(S), NEW t, t = [i \in DOMAIN s |-> t[i]],
         \A i \in DOMAIN s : t[i] \in S
  PROVE  t \in Seq(S) /\ Len(t) = Len(s)
<1>1. Len(s) \in Nat /\ DOMAIN s = 1 .. Len(s) BY LenProperties
<1>2. t \in [1 .. Len(s) -> S] BY <1>1
<1>3. t \in Seq(S) BY <1>1, <1>2
<1>4. DOMAIN t = 1 .. Len(t) /\ Len(t) \in Nat /\ DOMAIN t = 1 .. Len(s)
  BY <1>1, <1>2, <1>3, LenProperties
<1> QED BY <1>1, <1>3, <1>4

(* The empty sequence. *)
LEMMA EmptyIsSeq == IsSeq(<<>>) /\ DOMAIN <<>> = {} /\ Len(<<>>) = 0
<1>1. <<>> \in Seq({}) /\ Len(<<>>) = 0 BY EmptySeq
<1>2. IsSeq(<<>>) BY <1>1, TypedIsSeq
<1> QED BY <1>1, <1>2, SeqFacts

(* A page before its first load shows nothing. *)
LEMMA NoViewShown == ShownOK(P!NoView) /\ P!NoView.rows = 0 /\ P!NoView.secrets = <<>>
<1>1. P!NoView.secrets \in Seq({"active", "revoked"}) BY EmptySeq DEF P!NoView
<1> QED BY <1>1 DEF ShownOK, P!NoView

------------------------------------------------------------------------------
(* The loads without one. *)
LEMMA LoadsLess ==
  ASSUME NEW ls, NEW pg, NEW mn, LoadsOK(ls, pg, mn), NEW k \in DOMAIN ls, NEW ts,
         ts = RemoveAt(ls, k)
  PROVE  LoadsOK(ts, pg, mn) /\ Len(ts) <= Len(ls) /\ Len(ts) \in Nat /\ Len(ls) \in Nat
<1>1. IsSeq(ls) BY DEF LoadsOK
<1>2. /\ IsSeq(ts) /\ Len(ts) <= Len(ls)
      /\ \A i \in DOMAIN ts : Origin(i, k) \in DOMAIN ls /\ ts[i] = ls[Origin(i, k)]
  BY <1>1, SeqRemoved
<1> QED BY <1>1, <1>2, SeqFacts DEF LoadsOK

(* The requests without one. *)
LEMMA RequestsLess ==
  ASSUME NEW rs, NEW pg, NEW sv, NEW rot, RequestsOK(rs, pg, sv, rot), NEW k \in DOMAIN rs, NEW ts,
         ts = RemoveAt(rs, k)
  PROVE  RequestsOK(ts, pg, sv, rot) /\ Len(ts) <= Len(rs) /\ Len(ts) \in Nat /\ Len(rs) \in Nat
<1>1. IsSeq(rs) BY DEF RequestsOK
<1>2. /\ IsSeq(ts) /\ Len(ts) <= Len(rs)
      /\ \A i \in DOMAIN ts : Origin(i, k) \in DOMAIN rs /\ ts[i] = rs[Origin(i, k)]
  BY <1>1, SeqRemoved
<1> QED BY <1>1, <1>2, SeqFacts DEF RequestsOK

(* StartLoad and Send, on what they extend. *)
Started(ls, fr) ==
  Append([i \in DOMAIN ls |-> [ls[i] EXCEPT !.newest = FALSE]],
         [stage |-> "sent", snap |-> P!NoView, newest |-> TRUE, frees |-> fr])

(* The loads after one was started: it is the newest, and has read nothing. *)
LEMMA LoadStarts ==
  ASSUME NEW ls, NEW pg, NEW mn, LoadsOK(ls, pg, mn), NEW fr \in BOOLEAN, NEW ts,
         ts = Started(ls, fr)
  PROVE  /\ \A nn : LoadsOK(ts, pg, nn)
         /\ Len(ts) = Len(ls) + 1 /\ Len(ls) \in Nat
         /\ Longer(ls, ts, fr)
<1> DEFINE us == [i \in DOMAIN ls |-> [ls[i] EXCEPT !.newest = FALSE]]
           e == [stage |-> "sent", snap |-> P!NoView, newest |-> TRUE, frees |-> fr]
<1>1. /\ IsSeq(ls) /\ us = [i \in DOMAIN ls |-> us[i]]
      /\ \A i \in DOMAIN ls : us[i] = [ls[i] EXCEPT !.newest = FALSE]
  BY DEF LoadsOK
<1>2. ASSUME NEW i \in DOMAIN ls PROVE (\A nn : LoadOK(us[i], pg, nn)) /\ us[i].frees = ls[i].frees
  <2>1. LoadOK(ls[i], pg, mn) BY DEF LoadsOK
  <2> QED BY <2>1, <1>1 DEF LoadOK
<1>3. \A nn : LoadOK(e, pg, nn) BY NoViewShown DEF LoadOK
<1>4. ts = Append(us, e) /\ e.frees = fr BY DEF Started
<1> HIDE DEF us, e
<1>5. IsSeq(us) /\ Len(us) = Len(ls) /\ DOMAIN us = DOMAIN ls BY <1>1, SeqMap
<1>6. /\ IsSeq(ts) /\ Len(ts) = Len(us) + 1 /\ ts[Len(us) + 1] = e
      /\ \A i \in DOMAIN us : ts[i] = us[i]
      /\ DOMAIN ts = DOMAIN us \cup {Len(us) + 1}
  <2>1. /\ IsSeq(Append(us, e)) /\ Len(Append(us, e)) = Len(us) + 1
        /\ Append(us, e)[Len(us) + 1] = e
        /\ \A i \in DOMAIN us : Append(us, e)[i] = us[i]
        /\ DOMAIN Append(us, e) = DOMAIN us \cup {Len(us) + 1}
    BY <1>5, SeqAppend
  <2> QED BY <2>1, <1>4
<1>7. \A nn : LoadsOK(ts, pg, nn) BY <1>2, <1>3, <1>5, <1>6 DEF LoadsOK
<1>8. Len(ls) \in Nat BY <1>1, SeqFacts
<1>9. Longer(ls, ts, fr) BY <1>2, <1>4, <1>5, <1>6 DEF Longer
<1> QED BY <1>5, <1>6, <1>7, <1>8, <1>9

(* The requests after one was sent. *)
LEMMA RequestSent ==
  ASSUME NEW rs, NEW pg, NEW sv, NEW rot, RequestsOK(rs, pg, sv, rot), NEW r,
         RequestOK(r, pg, sv, rot), NEW ts, ts = Append(rs, r)
  PROVE  RequestsOK(ts, pg, sv, rot) /\ Len(ts) = Len(rs) + 1 /\ Len(rs) \in Nat
<1>1. IsSeq(rs) BY DEF RequestsOK
<1>2. /\ IsSeq(ts) /\ Len(ts) = Len(rs) + 1 /\ ts[Len(rs) + 1] = r
      /\ \A i \in DOMAIN rs : ts[i] = rs[i]
      /\ DOMAIN ts = DOMAIN rs \cup {Len(rs) + 1}
  BY <1>1, SeqAppend
<1>3. RequestsOK(ts, pg, sv, rot) BY <1>2 DEF RequestsOK
<1> QED BY <1>1, <1>2, <1>3, SeqFacts

(* The requests of a page that was left: nobody waits for them. *)
LEMMA RequestsLeft ==
  ASSUME NEW rs, NEW pg, NEW sv, NEW rot, RequestsOK(rs, pg, sv, rot),
         NEW ts, ts = [i \in DOMAIN rs |-> [rs[i] EXCEPT !.ours = FALSE]], NEW ro
  PROVE  RequestsOK(ts, pg, sv, ro) /\ Len(ts) = Len(rs) /\ OneAct(ts, <<>>, FALSE)
<1>1. /\ IsSeq(rs) /\ ts = [i \in DOMAIN rs |-> ts[i]]
      /\ \A i \in DOMAIN rs : ts[i] = [rs[i] EXCEPT !.ours = FALSE]
  BY DEF RequestsOK
<1>2. IsSeq(ts) /\ Len(ts) = Len(rs) /\ DOMAIN ts = DOMAIN rs BY <1>1, SeqMap
<1>3. ASSUME NEW i \in DOMAIN rs PROVE RequestOK(ts[i], pg, sv, ro) /\ ~Acting(ts[i])
  <2>1. RequestOK(rs[i], pg, sv, rot) BY DEF RequestsOK
  <2>2. /\ DOMAIN ts[i] = {"op", "arg", "typed", "stage", "got", "ours"}
        /\ ts[i].op = rs[i].op /\ ts[i].arg = rs[i].arg /\ ts[i].typed = rs[i].typed
        /\ ts[i].stage = rs[i].stage /\ ts[i].got = rs[i].got /\ ts[i].ours = FALSE
    BY <2>1, <1>1 DEF RequestOK
  <2>3. RequestOK(ts[i], pg, sv, ro) BY <2>1, <2>2 DEF RequestOK
  <2> QED BY <2>2, <2>3 DEF Acting
<1>4. RequestsOK(ts, pg, sv, ro) BY <1>2, <1>3 DEF RequestsOK
<1>5. \A i \in DOMAIN ts : ~Acting(ts[i]) BY <1>2, <1>3
<1>6. OneAct(ts, <<>>, FALSE) BY <1>5, EmptyIsSeq DEF OneAct
<1> QED BY <1>2, <1>4, <1>6

------------------------------------------------------------------------------
(* The pages, action by action. *)
LEMMA Leaves ==
  ASSUME PagesInv, NEW rs, RequestsOK(rs, page, srv, rotations), Len(rs) <= MaxReqs,
         P!Leave(rs), UNCHANGED <<page, srv, ops, others, named>>
  PROVE  PagesInv'
<1>1. RequestsOK(reqs', page', srv', 0) /\ Len(reqs') = Len(rs) /\ OneAct(reqs', <<>>, FALSE)
  BY RequestsLeft DEF P!Leave
<1>2. LoadsOK(<<>>, page', {}) BY EmptyIsSeq DEF LoadsOK
<1>3. P!TypeOK'
  <2>1. P!TypeOK BY DEF PagesInv
  <2>2. Len(loads') <= MaxLoads
    <3>1. loads' = <<>> BY DEF P!Leave
    <3>2. MaxLoads \in Nat BY PagesAssumption
    <3> QED BY <3>1, <3>2, EmptyIsSeq
  <2>3. Len(reqs') <= MaxReqs BY <1>1
  <2>4. UNCHANGED <<page, srv>> OBVIOUS
  <2>5. {issued', field', revealed'} \subseteq Nat /\ mine' \subseteq Nat
    <3>1. issued' = 0 /\ field' = 0 /\ revealed' = 0 /\ mine' = {} BY DEF P!Leave
    <3> QED BY <3>1
  <2>6. /\ left' \in BOOLEAN /\ loading' \in BOOLEAN /\ busy' \in BOOLEAN /\ loadFresh' \in BOOLEAN
        /\ dialog' \in {""} \cup P!Acts /\ typed' \in {""} \cup RecNames
    BY DEF P!Leave
  <2> QED BY <2>1, <2>2, <2>3, <2>4, <2>5, <2>6 DEF P!TypeOK
<1>4. ShownOK(srv') /\ ShownOK(view') BY NoViewShown DEF PagesInv, P!Leave
<1>5. LoadsOK(loads', page', mine') /\ OneAct(reqs', loads', busy') BY <1>1, <1>2 DEF P!Leave
<1>6. RequestsOK(reqs', page', srv', rotations') /\ rotations' \in Nat BY <1>1 DEF P!Leave
<1> QED BY <1>3, <1>4, <1>5, <1>6
  DEF PagesInv, P!Leave, P!FreshViewHasOwnWork, P!DeletedAsTyped, WorkIsServed, LastIsActive,
      FieldIsOnly, KeysAreConfirmed, LeftIsIdle

(* The operator leaves the page. *)
LEMMA Navigates == ASSUME PagesInv, P!Navigate PROVE PagesInv'
BY Leaves DEF P!Navigate, PagesInv, P!TypeOK

(* A load answered 401 leads to the login. *)
LEMMA UnauthorizedLeaves ==
  ASSUME PagesInv, NEW i \in DOMAIN loads, P!LoadUnauthorized(i)
  PROVE  PagesInv'
BY Leaves DEF P!LoadUnauthorized, PagesInv, P!TypeOK

(* A deletion goes back to the list. *)
LEMMA DeletedLeaves == ASSUME PagesInv, NEW i \in DOMAIN reqs, P!AnswerDelete(i) PROVE PagesInv'
<1>1. RequestsOK(RemoveAt(reqs, i), page, srv, rotations) /\ Len(RemoveAt(reqs, i)) <= MaxReqs
  <2>1. RequestsOK(reqs, page, srv, rotations) /\ Len(reqs) <= MaxReqs BY DEF PagesInv, P!TypeOK
  <2> QED BY <2>1, RequestsLess, PagesAssumption
<1>2. P!Leave(RemoveAt(reqs, i)) /\ UNCHANGED <<page, srv, ops, others, named>>
  BY SameRemove DEF P!AnswerDelete
<1> QED BY <1>1, <1>2, Leaves

(* Nothing of the page's own loads, requests and flag changes. *)
LEMMA DialogOnly ==
  ASSUME PagesInv, P!TypeOK', KeysAreConfirmed', LeftIsIdle',
         UNCHANGED <<page, srv, view, loads, loadFresh, busy, field, reqs, mine, rotations, named>>
  PROVE  PagesInv'
BY DEF PagesInv, P!FreshViewHasOwnWork, P!DeletedAsTyped, WorkIsServed, LastIsActive, FieldIsOnly

(* Typing a name touches nothing else. *)
LEMMA NameTyped ==
  ASSUME PagesInv, NEW n \in RecNames, P!TypeName(n)
  PROVE  PagesInv'
<1>1. P!TypeOK' BY DEF PagesInv, P!TypeOK, P!TypeName, P!viewVars, P!secretVars, P!history
<1>2. KeysAreConfirmed' BY DEF PagesInv, P!TypeName, KeysAreConfirmed
<1>4. LeftIsIdle' BY DEF PagesInv, P!TypeName, LeftIsIdle
<1>3. UNCHANGED <<page, srv, view, loads, loadFresh, busy, field, reqs, mine, rotations, named>>
  BY DEF P!TypeName, P!viewVars, P!secretVars, P!history
<1> QED BY <1>1, <1>2, <1>3, <1>4, DialogOnly

(* The confirm dialog is closed. *)
LEMMA Closes == ASSUME PagesInv, P!CloseConfirm PROVE PagesInv'
<1>1. P!TypeOK' BY DEF PagesInv, P!TypeOK, P!CloseConfirm, P!viewVars, P!secretVars, P!history
<1>2. KeysAreConfirmed' /\ LeftIsIdle'
  BY DEF PagesInv, P!CloseConfirm, KeysAreConfirmed, LeftIsIdle
<1>3. UNCHANGED <<page, srv, view, loads, loadFresh, busy, field, reqs, mine, rotations, named>>
  BY DEF P!CloseConfirm, P!viewVars, P!secretVars, P!history
<1> QED BY <1>1, <1>2, <1>3, DialogOnly

(* The confirm dialog is opened. *)
LEMMA Opens == ASSUME PagesInv, NEW a \in P!Acts, P!OpenConfirm(a) PROVE PagesInv'
<1>1. P!TypeOK' BY DEF PagesInv, P!TypeOK, P!OpenConfirm, P!viewVars, P!secretVars, P!history
<1>2. KeysAreConfirmed' /\ LeftIsIdle' BY DEF P!OpenConfirm, P!Shown, KeysAreConfirmed, LeftIsIdle
<1>3. UNCHANGED <<page, srv, view, loads, loadFresh, busy, field, reqs, mine, rotations, named>>
  BY DEF P!OpenConfirm, P!viewVars, P!secretVars, P!history
<1> QED BY <1>1, <1>2, <1>3, DialogOnly

(* A mounted page has one load under way, the newest, and it frees nothing. *)
LEMMA FirstLoadOK ==
  /\ \A pg, mn : LoadsOK(P!FirstLoad, pg, mn)
  /\ Len(P!FirstLoad) = 1
  /\ \A rs : (\A i \in DOMAIN rs : ~Acting(rs[i])) => OneAct(rs, P!FirstLoad, FALSE)
<1> DEFINE e == [stage |-> "sent", snap |-> P!NoView, newest |-> TRUE, frees |-> FALSE]
<1>1. P!FirstLoad = Append(<<>>, e) BY DEF P!FirstLoad
<1>2. \A pg, mn : LoadOK(e, pg, mn) BY NoViewShown DEF LoadOK
<1>3. ~e.frees OBVIOUS
<1> HIDE DEF e
<1>4. /\ IsSeq(P!FirstLoad) /\ Len(P!FirstLoad) = 0 + 1
      /\ P!FirstLoad[0 + 1] = e /\ DOMAIN P!FirstLoad = {} \cup {0 + 1}
  BY <1>1, SeqAppend, EmptyIsSeq
<1>5. \A i \in DOMAIN P!FirstLoad : P!FirstLoad[i] = e BY <1>4
<1>6. \A pg, mn : LoadsOK(P!FirstLoad, pg, mn) BY <1>2, <1>4, <1>5 DEF LoadsOK
<1>7. \A rs : (\A i \in DOMAIN rs : ~Acting(rs[i])) => OneAct(rs, P!FirstLoad, FALSE)
  BY <1>3, <1>4, <1>5 DEF OneAct
<1>8. Len(P!FirstLoad) = 1 BY <1>4
<1> QED BY <1>6, <1>7, <1>8

(* A page is mounted. *)
LEMMA Mounts == ASSUME PagesInv, P!Mount PROVE PagesInv'
<1>1. left' = FALSE /\ loads' = P!FirstLoad /\ loading' = TRUE BY DEF P!Mount
<1>2. UNCHANGED <<page, srv, view, loadFresh, dialog, typed, busy, issued, field, revealed, reqs,
                  mine, ops, rotations, others, named>>
  BY DEF P!Mount, P!dialogVars, P!secretVars, P!history
<1>3. busy = FALSE /\ \A i \in DOMAIN reqs : ~Acting(reqs[i])
  BY DEF PagesInv, P!TypeOK, LeftIsIdle, P!Mount, OneAct
<1>4. OneAct(reqs', loads', busy') BY <1>1, <1>2, <1>3, FirstLoadOK
<1>5. LoadsOK(loads', page', mine') BY <1>1, FirstLoadOK
<1>6. Len(loads') <= MaxLoads BY <1>1, FirstLoadOK, PagesAssumption
<1>7. P!TypeOK' BY <1>1, <1>2, <1>6 DEF PagesInv, P!TypeOK
<1> QED BY <1>1, <1>2, <1>4, <1>5, <1>7
  DEF PagesInv, P!FreshViewHasOwnWork, P!DeletedAsTyped, WorkIsServed, LastIsActive, FieldIsOnly,
      KeysAreConfirmed, LeftIsIdle

(* An operation loads again after its answer. *)
LEMMA LoadsAgain ==
  ASSUME PagesInv, NEW fr \in BOOLEAN, P!StartLoad(fr), Len(loads) < MaxLoads
  PROVE  /\ \A nn : LoadsOK(loads', page, nn)
         /\ Len(loads') <= MaxLoads
         /\ Longer(loads, loads', fr)
         /\ view' = view /\ loading' = TRUE /\ loadFresh' = FALSE
<1>1. LoadsOK(loads, page, mine) /\ IsSeq(loads) BY DEF PagesInv, LoadsOK
<1>2. loads' = Started(loads, fr) /\ loading' = TRUE /\ loadFresh' = FALSE /\ view' = view
  BY DEF P!StartLoad, Started
<1>7. \A nn : LoadsOK(loads', page, nn) BY <1>1, <1>2, LoadStarts
<1>3. Len(loads') = Len(loads) + 1 /\ Len(loads) \in Nat /\ Longer(loads, loads', fr)
  BY <1>1, <1>2, LoadStarts
<1>5. MaxLoads \in Nat BY PagesAssumption
<1>6. Len(loads') <= MaxLoads BY <1>3, <1>5
<1> QED BY <1>2, <1>3, <1>6, <1>7

(* The operator loads again. *)
LEMMA Refreshes == ASSUME PagesInv, P!Refresh PROVE PagesInv'
<1>1. P!StartLoad(FALSE) /\ Len(loads) < MaxLoads BY DEF P!Refresh
<1>2. UNCHANGED <<page, srv, left, dialog, typed, busy, issued, field, revealed, reqs, mine,
                  rotations, named>>
  BY DEF P!Refresh, P!dialogVars, P!secretVars, P!history
<1>3. /\ LoadsOK(loads', page, mine) /\ Len(loads') <= MaxLoads
      /\ Longer(loads, loads', FALSE)
      /\ view' = view /\ loading' = TRUE /\ loadFresh' = FALSE
  BY <1>1, LoadsAgain
<1>4. P!TypeOK' BY <1>2, <1>3 DEF PagesInv, P!TypeOK
<1>5. OneAct(reqs', loads', busy') BY <1>2, <1>3, LoadComes DEF PagesInv, LoadsOK
<1> QED BY <1>2, <1>3, <1>4, <1>5
  DEF PagesInv, P!FreshViewHasOwnWork, P!DeletedAsTyped, WorkIsServed, LastIsActive, FieldIsOnly,
      KeysAreConfirmed, LeftIsIdle

(* A request sent: it is right, and where it confirms an action the page is busy. *)
Request(op, arg, t) == [op |-> op, arg |-> arg, typed |-> t, stage |-> "sent", got |-> 0, ours |-> TRUE]

(* What sending a right request does. *)
LEMMA Sends ==
  ASSUME PagesInv, NEW op, NEW arg, P!Send(op, arg),
         RequestOK(Request(op, arg, typed), page, srv, rotations)
  PROVE  /\ RequestsOK(reqs', page, srv, rotations) /\ Len(reqs') <= MaxReqs
         /\ op \notin P!Acts => OneAct(reqs', loads, busy)
         /\ op \in P!Acts /\ busy = FALSE => OneAct(reqs', loads, TRUE)
<1> DEFINE r == Request(op, arg, typed)
<1>1. reqs' = Append(reqs, r) /\ Len(reqs) < MaxReqs BY DEF P!Send, Request
<1>2. Acting(r) <=> op \in P!Acts BY DEF Acting, Request
<1>3. RequestsOK(reqs, page, srv, rotations) /\ IsSeq(reqs) /\ OneAct(reqs, loads, busy)
  BY DEF PagesInv, RequestsOK
<1>7. RequestOK(r, page, srv, rotations) OBVIOUS
<1> HIDE DEF r
<1>8. /\ RequestsOK(Append(reqs, r), page, srv, rotations) /\ Len(Append(reqs, r)) = Len(reqs) + 1
      /\ Len(reqs) \in Nat
  BY <1>3, <1>7, RequestSent
<1>4. RequestsOK(reqs', page, srv, rotations) /\ Len(reqs') = Len(reqs) + 1 /\ Len(reqs) \in Nat
  BY <1>1, <1>8
<1>5. /\ (~Acting(r) => OneAct(reqs', loads, busy))
      /\ (Acting(r) /\ busy = FALSE => OneAct(reqs', loads, TRUE))
  BY <1>1, <1>3, RequestComes
<1>6. Len(reqs') <= MaxReqs BY <1>1, <1>4, PagesAssumption
<1> QED BY <1>2, <1>4, <1>5, <1>6

(* A request that confirms no action changes nothing else. *)
LEMMA SendsOnly ==
  ASSUME PagesInv, NEW op \in Ops \ P!Acts, NEW arg, P!Send(op, arg),
         RequestOK(Request(op, arg, typed), page, srv, rotations),
         UNCHANGED <<page, srv, left, view, loads, loading, loadFresh, dialog, typed, busy, issued,
                     field, revealed, mine, rotations, others, named>>
  PROVE  PagesInv'
<1>1. RequestsOK(reqs', page, srv, rotations) /\ Len(reqs') <= MaxReqs /\ OneAct(reqs', loads, busy)
  BY Sends
<1>2. P!TypeOK' BY <1>1 DEF PagesInv, P!TypeOK
<1> QED BY <1>1, <1>2
  DEF PagesInv, P!FreshViewHasOwnWork, P!DeletedAsTyped, WorkIsServed, LastIsActive, FieldIsOnly,
      KeysAreConfirmed, LeftIsIdle

(* A row is created from the list page. *)
LEMMA Creates == ASSUME PagesInv, P!Create PROVE PagesInv'
<1>1. P!Send("create", 0) /\ page = "list" BY DEF P!Create
<1>2. RequestOK(Request("create", 0, typed), page, srv, rotations)
  BY <1>1 DEF RequestOK, Request, Ops
<1>3. UNCHANGED <<page, srv, left, view, loads, loading, loadFresh, dialog, typed, busy, issued,
                  field, revealed, mine, rotations, others, named>>
  BY DEF P!Create, P!viewVars, P!dialogVars, P!secretVars
<1> QED BY <1>1, <1>2, <1>3, SendsOnly DEF Ops, P!Acts

(* The buttons of the sections: rotate, issue, revoke. *)
LEMMA Presses == ASSUME PagesInv, P!SectionButton PROVE PagesInv'
<1>1. UNCHANGED <<page, srv, left, view, loads, loading, loadFresh, dialog, typed, busy, issued,
                  field, revealed, mine, rotations, others, named>>
  BY DEF P!SectionButton, P!viewVars, P!dialogVars, P!secretVars
<1>2. CASE page = "applications" /\ P!Send("rotate", 0)
  <2>1. RequestOK(Request("rotate", 0, typed), page, srv, rotations)
    BY <1>2 DEF RequestOK, Request, Ops
  <2> QED BY <1>1, <1>2, <2>1, SendsOnly DEF Ops, P!Acts
<1>3. CASE page = "agents" /\ P!Send("issue", 0)
  <2>1. RequestOK(Request("issue", 0, typed), page, srv, rotations)
    BY <1>3 DEF RequestOK, Request, Ops
  <2> QED BY <1>1, <1>3, <2>1, SendsOnly DEF Ops, P!Acts
<1>4. CASE page = "agents" /\ \E k \in P!ActiveSecrets(view) : P!Send("revoke", k)
  <2>1. PICK k \in P!ActiveSecrets(view) : P!Send("revoke", k) BY <1>4
  <2>2. RequestOK(Request("revoke", k, typed), page, srv, rotations)
    BY <1>4 DEF RequestOK, Request, Ops
  <2> QED BY <1>1, <2>1, <2>2, SendsOnly DEF Ops, P!Acts
<1> QED BY <1>2, <1>3, <1>4 DEF P!SectionButton

(* The secret to reveal is one of those shown. *)
LEMMA FirstActive ==
  ASSUME NEW r, ShownOK(r), P!ActiveSecrets(r) # {}
  PROVE  P!ActiveSecret(r) \in Nat
<1>1. DOMAIN r.secrets \subseteq Nat BY LenProperties DEF ShownOK
<1>2. P!ActiveSecrets(r) \subseteq Nat BY <1>1 DEF P!ActiveSecrets
<1>3. \E k \in P!ActiveSecrets(r) : \A j \in P!ActiveSecrets(r) : k <= j BY <1>2, Least
<1>4. P!ActiveSecret(r) \in P!ActiveSecrets(r) BY <1>3 DEF P!ActiveSecret
<1> QED BY <1>2, <1>4

(* A secret is revealed. *)
LEMMA Reveals == ASSUME PagesInv, P!Reveal PROVE PagesInv'
<1>1. P!Send("reveal", P!ActiveSecret(view)) /\ P!ActiveSecrets(view) # {} BY DEF P!Reveal
<1>2. P!ActiveSecret(view) \in Nat BY <1>1, FirstActive DEF PagesInv
<1>3. RequestOK(Request("reveal", P!ActiveSecret(view), typed), page, srv, rotations)
  BY <1>2 DEF RequestOK, Request, Ops
<1>4. UNCHANGED <<page, srv, left, view, loads, loading, loadFresh, dialog, typed, busy, issued,
                  field, revealed, mine, rotations, others, named>>
  BY DEF P!Reveal, P!viewVars, P!dialogVars, P!secretVars
<1> QED BY <1>1, <1>3, <1>4, SendsOnly DEF Ops, P!Acts

(* A confirmed action is sent from a page that was not busy, a deletion     *)
(* with the name typed.                                                     *)
LEMMA Confirms == ASSUME PagesInv, P!Confirm PROVE PagesInv'
<1> DEFINE arg == IF dialog = "delete" THEN view.name ELSE 0
<1>1. /\ dialog # "" /\ ~busy /\ (dialog = "delete" => typed = view.name) /\ P!Send(dialog, arg)
      /\ busy' = TRUE
      /\ UNCHANGED <<page, srv, left, view, loads, loading, loadFresh, dialog, typed, issued,
                     field, revealed, mine, rotations, others, named>>
  BY DEF P!Confirm, P!viewVars, P!secretVars
<1>2. dialog \in P!Acts /\ busy = FALSE BY <1>1 DEF PagesInv, P!TypeOK
<1>3. RequestOK(Request(dialog, arg, typed), page, srv, rotations)
  BY <1>1, <1>2 DEF PagesInv, KeysAreConfirmed, RequestOK, Request, Ops, P!Acts
<1> HIDE DEF arg
<1>4. RequestsOK(reqs', page, srv, rotations) /\ Len(reqs') <= MaxReqs /\ OneAct(reqs', loads, TRUE)
  BY <1>1, <1>2, <1>3, Sends
<1>5. P!TypeOK' BY <1>1, <1>4 DEF PagesInv, P!TypeOK
<1>6. left = FALSE BY <1>1 DEF PagesInv, LeftIsIdle, P!TypeOK
<1> QED BY <1>1, <1>4, <1>5, <1>6
  DEF PagesInv, P!FreshViewHasOwnWork, P!DeletedAsTyped, WorkIsServed, LastIsActive, FieldIsOnly,
      KeysAreConfirmed, LeftIsIdle

(* The loads end. *)
LEMMA Reads == ASSUME PagesInv, NEW i \in DOMAIN loads, P!LoadRead(i) PROVE PagesInv'
<1>1. UNCHANGED <<page, srv, left, view, loading, loadFresh, dialog, typed, busy, issued, field,
                  revealed, reqs, mine, ops, rotations, others, named>>
  BY DEF P!LoadRead, P!dialogVars, P!secretVars, P!history
<1>2. LoadsOK(loads, page, mine) /\ IsSeq(loads) /\ ShownOK(srv) BY DEF PagesInv, LoadsOK
<1>3. LoadOK(loads[i], page, mine) BY <1>2 DEF LoadsOK
<1>4. PICK e : /\ loads' = [loads EXCEPT ![i] = e] /\ LoadOK(e, page, mine) /\ e.frees = loads[i].frees
  <2>1. CASE loads' = [loads EXCEPT ![i].stage = "failed"]
    <3>1. loads' = [loads EXCEPT ![i] = [loads[i] EXCEPT !.stage = "failed"]] BY <2>1
    <3>2. LoadOK([loads[i] EXCEPT !.stage = "failed"], page, mine) BY <1>3 DEF LoadOK
    <3>3. [loads[i] EXCEPT !.stage = "failed"].frees = loads[i].frees BY <1>3 DEF LoadOK
    <3> QED BY <3>1, <3>2, <3>3
  <2>2. CASE loads' = [loads EXCEPT ![i].stage = "read", ![i].snap = srv]
    <3> DEFINE e == [loads[i] EXCEPT !.stage = "read", !.snap = srv]
    <3>1. loads' = [loads EXCEPT ![i] = e] BY <2>2
    <3>2. \A k \in mine : k <= Size(srv, page) BY DEF PagesInv, WorkIsServed
    <3>3. LoadOK(e, page, mine) BY <1>2, <1>3, <3>2 DEF LoadOK
    <3>4. e.frees = loads[i].frees BY <1>3 DEF LoadOK
    <3> QED BY <3>1, <3>3, <3>4
  <2> QED BY <2>1, <2>2 DEF P!LoadRead
<1>5. /\ loads' = [j \in DOMAIN loads |-> loads'[j]]
      /\ \A j \in DOMAIN loads : loads'[j] = IF j = i THEN e ELSE loads[j]
  BY <1>4
<1>6. IsSeq(loads') /\ Len(loads') = Len(loads) /\ DOMAIN loads' = DOMAIN loads
  BY <1>2, <1>5, SeqMap
<1>7. \A j \in DOMAIN loads : LoadOK(loads'[j], page, mine) /\ loads'[j].frees = loads[j].frees
  BY <1>2, <1>4, <1>5 DEF LoadsOK
<1>8. LoadsOK(loads', page, mine) BY <1>6, <1>7 DEF LoadsOK
<1>9. OneAct(reqs, loads', busy) BY <1>6, <1>7 DEF PagesInv, OneAct
<1>10. P!TypeOK' BY <1>1, <1>6 DEF PagesInv, P!TypeOK
<1> QED BY <1>1, <1>8, <1>9, <1>10
  DEF PagesInv, P!FreshViewHasOwnWork, P!DeletedAsTyped, WorkIsServed, LastIsActive, FieldIsOnly,
      KeysAreConfirmed, LeftIsIdle

(* The load taken away, and the flag as LoadArrives and LoadFails leave it. *)
LEMMA LoadEnds ==
  ASSUME PagesInv, NEW i \in DOMAIN loads, loads' = RemoveAt(loads, i),
         busy' = (busy /\ ~loads[i].frees)
  PROVE  /\ LoadsOK(loads', page, mine) /\ Len(loads') <= MaxLoads /\ OneAct(reqs, loads', busy')
         /\ busy' \in BOOLEAN /\ (busy' => busy)
<1>1. /\ LoadsOK(loads, page, mine) /\ IsSeq(loads) /\ OneAct(reqs, loads, busy)
      /\ Len(loads) <= MaxLoads /\ busy \in BOOLEAN
  BY DEF PagesInv, LoadsOK, P!TypeOK
<1>2. /\ LoadsOK(loads', page, mine) /\ Len(loads') <= Len(loads) /\ Len(loads') \in Nat
      /\ Len(loads) \in Nat
  BY <1>1, LoadsLess
<1>3. Len(loads') <= MaxLoads BY <1>1, <1>2, PagesAssumption
<1>4. /\ (loads[i].frees => OneAct(reqs, loads', FALSE))
      /\ (~loads[i].frees => OneAct(reqs, loads', busy))
  BY <1>1, LoadGoes
<1>5. CASE loads[i].frees
  <2>1. busy' = FALSE BY <1>5
  <2> QED BY <1>2, <1>3, <1>4, <1>5, <2>1
<1>6. CASE ~loads[i].frees
  <2>1. busy' = busy BY <1>1, <1>6
  <2> QED BY <1>1, <1>2, <1>3, <1>4, <1>6, <2>1
<1> QED BY <1>5, <1>6

(* A load is applied: if it is the newest it has everything the page was    *)
(* told of.                                                                 *)
LEMMA Arrives == ASSUME PagesInv, NEW i \in DOMAIN loads, P!LoadArrives(i) PROVE PagesInv'
<1>1. /\ loads[i].stage = "read" /\ view' = loads[i].snap /\ loadFresh' = loads[i].newest
      /\ loads' = RemoveAt(loads, i) /\ loading' = FALSE
      /\ busy' = (busy /\ ~loads[i].frees)
      /\ typed' \in {"", typed}
      /\ UNCHANGED <<page, srv, left, dialog, issued, field, revealed, reqs, mine, ops, rotations,
                     others, named>>
  BY SameRemove DEF P!LoadArrives, P!secretVars, P!history
<1>2. /\ LoadsOK(loads', page, mine) /\ Len(loads') <= MaxLoads /\ OneAct(reqs, loads', busy')
      /\ busy' \in BOOLEAN /\ (busy' => busy)
  BY <1>1, LoadEnds
<1>3. LoadOK(loads[i], page, mine) BY DEF PagesInv, LoadsOK
<1>4. /\ ShownOK(view') /\ loadFresh' \in BOOLEAN
      /\ (loadFresh' => \A k \in mine : k <= Size(view', page))
  BY <1>1, <1>3 DEF LoadOK
<1>5. P!FreshViewHasOwnWork' BY <1>1, <1>4 DEF P!FreshViewHasOwnWork, Size
<1>6. P!TypeOK' BY <1>1, <1>2, <1>4 DEF PagesInv, P!TypeOK
<1>7. LeftIsIdle' BY <1>1, <1>2 DEF PagesInv, LeftIsIdle
<1> QED BY <1>1, <1>2, <1>4, <1>5, <1>6, <1>7
  DEF PagesInv, P!DeletedAsTyped, WorkIsServed, LastIsActive, FieldIsOnly, KeysAreConfirmed

(* A load fails and frees the page as an applied one does. *)
LEMMA Fails == ASSUME PagesInv, NEW i \in DOMAIN loads, P!LoadFails(i) PROVE PagesInv'
<1>1. /\ loads' = RemoveAt(loads, i) /\ loading' = FALSE /\ busy' = (busy /\ ~loads[i].frees)
      /\ UNCHANGED <<page, srv, left, view, loadFresh, dialog, typed, issued, field, revealed,
                     reqs, mine, ops, rotations, others, named>>
  BY SameRemove DEF P!LoadFails, P!secretVars, P!history
<1>2. /\ LoadsOK(loads', page, mine) /\ Len(loads') <= MaxLoads /\ OneAct(reqs, loads', busy')
      /\ busy' \in BOOLEAN /\ (busy' => busy)
  BY <1>1, LoadEnds
<1>3. P!TypeOK' BY <1>1, <1>2 DEF PagesInv, P!TypeOK
<1>4. LeftIsIdle' BY <1>1, <1>2 DEF PagesInv, LeftIsIdle
<1> QED BY <1>1, <1>2, <1>3, <1>4
  DEF PagesInv, P!FreshViewHasOwnWork, P!DeletedAsTyped, WorkIsServed, LastIsActive, FieldIsOnly,
      KeysAreConfirmed

(* The answers: the request goes, and most of them load again. *)
LEMMA RequestAnswered ==
  ASSUME PagesInv, NEW i \in DOMAIN reqs, NEW ts, ts = RemoveAt(reqs, i)
  PROVE  /\ RequestsOK(ts, page, srv, rotations) /\ Len(ts) <= MaxReqs
         /\ Acting(reqs[i]) => OneAct(ts, loads, FALSE)
         /\ ~Acting(reqs[i]) => OneAct(ts, loads, busy)
<1>1. /\ RequestsOK(reqs, page, srv, rotations) /\ IsSeq(reqs) /\ OneAct(reqs, loads, busy)
      /\ Len(reqs) <= MaxReqs /\ busy \in BOOLEAN
  BY DEF PagesInv, RequestsOK, P!TypeOK
<1>2. /\ RequestsOK(ts, page, srv, rotations) /\ Len(ts) <= Len(reqs) /\ Len(ts) \in Nat
      /\ Len(reqs) \in Nat
  BY <1>1, RequestsLess
<1>3. Len(ts) <= MaxReqs BY <1>1, <1>2, PagesAssumption
<1>4. (Acting(reqs[i]) => OneAct(ts, loads, FALSE)) /\ (~Acting(reqs[i]) => OneAct(ts, loads, busy))
  BY <1>1, RequestGoes
<1>5. RequestsOK(ts, page, srv, rotations) BY <1>2
<1> QED BY <1>3, <1>4, <1>5

(* A create, rotate or issue is answered: the page was told of one row or   *)
(* secret more, and loads again.                                            *)
LEMMA AnswersSecret == ASSUME PagesInv, NEW i \in DOMAIN reqs, P!AnswerSecret(i) PROVE PagesInv'
<1> DEFINE r == reqs[i]
<1>1. /\ r.ours /\ r.stage = "done" /\ r.op \in {"create", "rotate", "issue"}
      /\ Len(loads) < MaxLoads
      /\ reqs' = RemoveAt(reqs, i)
      /\ field' = (IF field = 0 THEN r.got ELSE field) /\ issued' = r.got /\ mine' = mine \cup {r.got}
      /\ UNCHANGED <<page, srv, left, dialog, typed, busy, revealed, ops, rotations, others, named>>
      /\ P!StartLoad(FALSE)
  BY SameRemove DEF P!AnswerSecret, P!SecretFieldKeeps, P!dialogVars
<1>2. RequestOK(r, page, srv, rotations) BY DEF PagesInv, RequestsOK
<1>3. ~Acting(r) BY <1>1 DEF Acting, P!Acts
<1> HIDE DEF r
<1>4. RequestsOK(reqs', page, srv, rotations) /\ Len(reqs') <= MaxReqs /\ OneAct(reqs', loads, busy)
  BY <1>1, <1>3, RequestAnswered DEF r
<1>5. /\ \A nn : LoadsOK(loads', page, nn)
      /\ Len(loads') <= MaxLoads /\ Longer(loads, loads', FALSE)
      /\ view' = view /\ loading' = TRUE /\ loadFresh' = FALSE
  BY <1>1, LoadsAgain
<1>6. OneAct(reqs', loads', busy') BY <1>1, <1>4, <1>5, LoadComes DEF PagesInv, LoadsOK
<1>7. r.got \in Nat /\ r.got <= Size(srv, page) BY <1>1, <1>2 DEF RequestOK
<1>8. P!TypeOK' BY <1>1, <1>4, <1>5, <1>7 DEF PagesInv, P!TypeOK
<1>9. page = "applications" => IsOnly(r.got, rotations, srv)
  BY <1>1, <1>2 DEF RequestOK
<1>10. FieldIsOnly' BY <1>1, <1>9 DEF PagesInv, FieldIsOnly
<1>11. WorkIsServed' BY <1>1, <1>7 DEF PagesInv, WorkIsServed
<1> QED BY <1>1, <1>4, <1>5, <1>6, <1>8, <1>10, <1>11
  DEF PagesInv, P!FreshViewHasOwnWork, P!DeletedAsTyped, LastIsActive, KeysAreConfirmed, LeftIsIdle

(* A revocation is answered, and the page loads again. *)
LEMMA AnswersRevoke == ASSUME PagesInv, NEW i \in DOMAIN reqs, P!AnswerRevoke(i) PROVE PagesInv'
<1>1. /\ reqs[i].op = "revoke" /\ Len(loads) < MaxLoads
      /\ reqs' = RemoveAt(reqs, i)
      /\ UNCHANGED <<page, srv, left, dialog, typed, busy, issued, field, revealed, mine, ops,
                     rotations, others, named>>
      /\ P!StartLoad(FALSE)
  BY SameRemove DEF P!AnswerRevoke, P!dialogVars, P!secretVars, P!history
<1>2. ~Acting(reqs[i]) BY <1>1 DEF Acting, P!Acts
<1>3. RequestsOK(reqs', page, srv, rotations) /\ Len(reqs') <= MaxReqs /\ OneAct(reqs', loads, busy)
  BY <1>1, <1>2, RequestAnswered
<1>4. /\ LoadsOK(loads', page, mine) /\ Len(loads') <= MaxLoads /\ Longer(loads, loads', FALSE)
      /\ view' = view /\ loading' = TRUE /\ loadFresh' = FALSE
  BY <1>1, LoadsAgain
<1>5. OneAct(reqs', loads', busy') BY <1>1, <1>3, <1>4, LoadComes DEF PagesInv, LoadsOK
<1>6. P!TypeOK' BY <1>1, <1>3, <1>4 DEF PagesInv, P!TypeOK
<1> QED BY <1>1, <1>3, <1>4, <1>5, <1>6
  DEF PagesInv, P!FreshViewHasOwnWork, P!DeletedAsTyped, WorkIsServed, LastIsActive, FieldIsOnly,
      KeysAreConfirmed, LeftIsIdle

(* A secret is revealed, or refused. *)
LEMMA AnswersReveal == ASSUME PagesInv, NEW i \in DOMAIN reqs, P!AnswerReveal(i) PROVE PagesInv'
<1>1. /\ reqs[i].op = "reveal" /\ reqs' = RemoveAt(reqs, i)
      /\ revealed' \in {reqs[i].got, 0}
      /\ UNCHANGED <<page, srv, left, view, loads, loading, loadFresh, dialog, typed, busy, issued,
                     field, mine, ops, rotations, others, named>>
  BY SameRemove DEF P!AnswerReveal, P!viewVars, P!dialogVars, P!history
<1>2. ~Acting(reqs[i]) BY <1>1 DEF Acting, P!Acts
<1>3. RequestsOK(reqs', page, srv, rotations) /\ Len(reqs') <= MaxReqs /\ OneAct(reqs', loads, busy)
  BY <1>1, <1>2, RequestAnswered
<1>4. revealed' \in Nat BY <1>1 DEF PagesInv, RequestsOK, RequestOK
<1>5. P!TypeOK' BY <1>1, <1>3, <1>4 DEF PagesInv, P!TypeOK
<1> QED BY <1>1, <1>3, <1>5
  DEF PagesInv, P!FreshViewHasOwnWork, P!DeletedAsTyped, WorkIsServed, LastIsActive, FieldIsOnly,
      KeysAreConfirmed, LeftIsIdle

(* An action on a key is answered: the load that follows takes its place    *)
(* and frees the page.                                                      *)
LEMMA AnswersAct == ASSUME PagesInv, NEW i \in DOMAIN reqs, P!AnswerAct(i) PROVE PagesInv'
<1>1. /\ reqs[i].ours /\ reqs[i].op \in {"activate", "retire"} /\ Len(loads) < MaxLoads
      /\ reqs' = RemoveAt(reqs, i) /\ dialog' = "" /\ typed' = ""
      /\ UNCHANGED <<page, srv, left, busy, issued, field, revealed, mine, ops, rotations, others,
                     named>>
      /\ P!StartLoad(TRUE)
  BY SameRemove DEF P!AnswerAct, P!secretVars, P!history
<1>2. Acting(reqs[i]) BY <1>1 DEF Acting, P!Acts
<1>3. /\ RequestsOK(reqs', page, srv, rotations) /\ Len(reqs') <= MaxReqs
      /\ OneAct(reqs', loads, FALSE)
  BY <1>1, <1>2, RequestAnswered
<1>4. /\ LoadsOK(loads', page, mine) /\ Len(loads') <= MaxLoads /\ Longer(loads, loads', TRUE)
      /\ view' = view /\ loading' = TRUE /\ loadFresh' = FALSE
  BY <1>1, LoadsAgain
<1>5. OneAct(reqs', loads', TRUE) BY <1>3, <1>4, LoadComes DEF PagesInv, LoadsOK
<1>6. P!TypeOK' BY <1>1, <1>3, <1>4 DEF PagesInv, P!TypeOK
<1>7. busy' = TRUE BY <1>1, <1>2 DEF PagesInv, P!TypeOK, OneAct
<1>8. OneAct(reqs', loads', busy') BY <1>5, <1>7
<1>9. left' = FALSE BY <1>1, <1>7 DEF PagesInv, P!TypeOK, LeftIsIdle
<1> QED BY <1>1, <1>3, <1>4, <1>6, <1>8, <1>9
  DEF PagesInv, P!FreshViewHasOwnWork, P!DeletedAsTyped, WorkIsServed, LastIsActive, FieldIsOnly,
      KeysAreConfirmed, LeftIsIdle

(* A failed request frees the page if it had made it busy. *)
LEMMA AnswersError == ASSUME PagesInv, NEW i \in DOMAIN reqs, P!AnswerError(i) PROVE PagesInv'
<1>1. /\ reqs' = RemoveAt(reqs, i) /\ busy' = (busy /\ ~(reqs[i].ours /\ reqs[i].op \in P!Acts))
      /\ UNCHANGED <<page, srv, left, view, loads, loading, loadFresh, dialog, typed, issued,
                     field, revealed, mine, ops, rotations, others, named>>
  BY SameRemove DEF P!AnswerError, P!viewVars, P!secretVars, P!history
<1>2. /\ RequestsOK(reqs', page, srv, rotations) /\ Len(reqs') <= MaxReqs
      /\ Acting(reqs[i]) => OneAct(reqs', loads, FALSE)
      /\ ~Acting(reqs[i]) => OneAct(reqs', loads, busy)
  BY <1>1, RequestAnswered
<1>3. busy \in BOOLEAN BY DEF PagesInv, P!TypeOK
<1>4. OneAct(reqs', loads, busy') /\ busy' \in BOOLEAN /\ (busy' => busy)
  <2>1. CASE Acting(reqs[i])
    <3>1. busy' = FALSE BY <1>1, <2>1 DEF Acting
    <3> QED BY <1>2, <2>1, <3>1
  <2>2. CASE ~Acting(reqs[i])
    <3>1. busy' = busy BY <1>1, <1>3, <2>2 DEF Acting
    <3> QED BY <1>2, <1>3, <2>2, <3>1
  <2> QED BY <2>1, <2>2
<1>5. P!TypeOK' BY <1>1, <1>2, <1>4 DEF PagesInv, P!TypeOK
<1>6. LeftIsIdle' BY <1>1, <1>4 DEF PagesInv, LeftIsIdle
<1> QED BY <1>1, <1>2, <1>4, <1>5, <1>6
  DEF PagesInv, P!FreshViewHasOwnWork, P!DeletedAsTyped, WorkIsServed, LastIsActive, FieldIsOnly,
      KeysAreConfirmed

(* The service moved on: nothing a request or a page was told is lost. *)
Onward(sv, rot, tv, rut, pg) ==
  /\ ShownOK(tv) /\ tv.name \in RecNames /\ rut \in Nat
  /\ Size(sv, pg) \in Nat /\ Size(tv, pg) \in Nat /\ Size(sv, pg) <= Size(tv, pg)
  /\ pg = "applications" => \A k : IsOnly(k, rot, sv) => IsOnly(k, rut, tv)
  /\ pg = "applications" /\ tv.status = "active" => Len(tv.secrets) > 0 /\ tv.secrets[Len(tv.secrets)] = "active"

(* A request stays right as the service moves on. *)
LEMMA StillOK ==
  ASSUME NEW r, NEW pg, NEW sv, NEW rot, NEW tv, NEW rut, RequestOK(r, pg, sv, rot),
         Onward(sv, rot, tv, rut, pg)
  PROVE  RequestOK(r, pg, tv, rut)
<1>1. r.stage = "done" /\ r.op \in {"create", "rotate", "issue"} => r.got <= Size(tv, pg)
  BY DEF RequestOK, Onward
<1>2. r.stage = "done" /\ r.op = "rotate" /\ r.ours => IsOnly(r.got, rut, tv)
  BY DEF RequestOK, Onward
<1> QED BY <1>1, <1>2 DEF RequestOK

(* What the service keeps of a secret list. *)
Secrets == Seq({"active", "revoked"})

(* Revoking every secret keeps their number. *)
LEMMA RevokedAll ==
  ASSUME NEW ss \in Secrets
  PROVE  P!Revoked(ss) \in Secrets /\ Len(P!Revoked(ss)) = Len(ss)
<1>1. /\ P!Revoked(ss) = [i \in DOMAIN ss |-> P!Revoked(ss)[i]]
      /\ \A i \in DOMAIN ss : P!Revoked(ss)[i] \in {"active", "revoked"}
  BY DEF P!Revoked
<1> QED BY <1>1, SeqRewritten DEF Secrets

RevokedAt(ss, k) == [ss EXCEPT ![k] = "revoked"]

(* Revoking one keeps their number. *)
LEMMA RevokedOne ==
  ASSUME NEW ss \in Secrets, NEW k
  PROVE  RevokedAt(ss, k) \in Secrets /\ Len(RevokedAt(ss, k)) = Len(ss)
<1> DEFINE tt == [ss EXCEPT ![k] = "revoked"]
           S == {"active", "revoked"}
<1>1. \A i \in DOMAIN ss : ss[i] \in {"active", "revoked"} BY LenProperties DEF Secrets
<1>2. tt = [i \in DOMAIN ss |-> tt[i]] /\ \A i \in DOMAIN ss : tt[i] \in S BY <1>1
<1>3. ss \in Seq(S) BY DEF Secrets
<1>4. \A i \in DOMAIN ss : tt[i] \in S BY <1>2
<1>5. tt \in Seq(S) /\ Len(tt) = Len(ss)
  <2> HIDE DEF tt, S
  <2> QED BY <1>2, <1>3, <1>4, SeqRewritten
<1> QED BY <1>5 DEF Secrets, RevokedAt

(* One secret more, the last. *)
LEMMA OneMore ==
  ASSUME NEW ss \in Secrets
  PROVE  /\ Append(ss, "active") \in Secrets /\ Len(Append(ss, "active")) = Len(ss) + 1
         /\ Len(ss) \in Nat
         /\ Append(ss, "active")[Len(ss) + 1] = "active"
BY AppendProperties, LenProperties DEF Secrets

(* A rotation, whoever makes it. *)
LEMMA Rotated ==
  ASSUME NEW sv, ShownOK(sv), sv.name \in RecNames, NEW rot \in Nat, NEW tv, tv = P!RotateSecret(sv)
  PROVE  /\ Onward(sv, rot, tv, rot + 1, "applications")
         /\ Len(tv.secrets) = Len(sv.secrets) + 1 /\ Len(sv.secrets) \in Nat
<1> DEFINE ss == P!Revoked(sv.secrets)
<1>1. ss \in Secrets /\ Len(ss) = Len(sv.secrets) BY RevokedAll DEF ShownOK, Secrets
<1>2. tv = [sv EXCEPT !.secrets = Append(ss, "active")] BY DEF P!RotateSecret
<1> HIDE DEF ss
<1>3. /\ DOMAIN tv = DOMAIN sv /\ tv.secrets = Append(ss, "active") /\ tv.rows = sv.rows
      /\ tv.name = sv.name /\ tv.status = sv.status
  BY <1>2 DEF ShownOK
<1>4. /\ tv.secrets \in Secrets /\ Len(tv.secrets) = Len(sv.secrets) + 1 /\ Len(sv.secrets) \in Nat
      /\ tv.secrets[Len(tv.secrets)] = "active"
  BY <1>1, <1>3, OneMore
<1>5. ShownOK(tv) BY <1>3, <1>4 DEF ShownOK, Secrets
<1>6. \A k : IsOnly(k, rot, sv) => IsOnly(k, rot + 1, tv) BY DEF IsOnly
<1> QED BY <1>3, <1>4, <1>5, <1>6 DEF Onward, Size

(* Rows and secrets are numbered by naturals. *)
LEMMA KeptSizes ==
  ASSUME NEW sv, ShownOK(sv)
  PROVE  sv.rows \in Nat /\ sv.secrets \in Secrets /\ Len(sv.secrets) \in Nat
BY LenProperties DEF ShownOK, Secrets

(* What serving a request makes of the service, and what its answer tells. *)
Told(r, got, pg, tv, rut) ==
  /\ got \in Nat
  /\ r.op \in {"create", "rotate", "issue"} => got <= Size(tv, pg)
  /\ r.op = "rotate" => IsOnly(got, rut, tv)

(* Every operation moves the service on, and its answer tells what is there *)
(* then.                                                                    *)
LEMMA Served ==
  ASSUME PagesInv, NEW r, RequestOK(r, page, srv, rotations), P!Accepts(r), NEW rut,
         rut = IF r.op = "rotate" THEN rotations + 1 ELSE rotations
  PROVE  Onward(srv, rotations, P!After(r), rut, page) /\ Told(r, P!Got(r), page, P!After(r), rut)
<1> DEFINE tv == P!After(r)
           got == P!Got(r)
<1>1. ShownOK(srv) /\ srv.name \in RecNames /\ rotations \in Nat /\ LastIsActive
  BY DEF PagesInv, P!TypeOK
<1>2. srv.rows \in Nat /\ srv.secrets \in Secrets /\ Len(srv.secrets) \in Nat BY <1>1, KeptSizes
<1>3. DOMAIN srv = {"rows", "name", "status", "secrets"} BY <1>1 DEF ShownOK
<1>4. CASE r.op = "create"
  <2>1. tv = [srv EXCEPT !.rows = @ + 1] /\ got = srv.rows + 1 BY <1>4 DEF P!After, P!Got
  <2>2. page = "list" /\ rut = rotations BY <1>4 DEF RequestOK
  <2> HIDE DEF tv, got
  <2>3. /\ DOMAIN tv = DOMAIN srv /\ tv.rows = srv.rows + 1 /\ tv.secrets = srv.secrets
        /\ tv.name = srv.name
    BY <2>1, <1>3
  <2>4. ShownOK(tv) BY <2>3, <1>1, <1>2 DEF ShownOK
  <2>5. Onward(srv, rotations, tv, rut, page) BY <2>2, <2>3, <2>4, <1>1, <1>2 DEF Onward, Size
  <2>6. Told(r, got, page, tv, rut) BY <2>1, <2>2, <2>3, <1>2, <1>4 DEF Told, Size
  <2> QED BY <2>5, <2>6 DEF tv, got
<1>5. CASE r.op = "rotate"
  <2>1. tv = P!RotateSecret(srv) /\ got = Len(srv.secrets) + 1 BY <1>5 DEF P!After, P!Got
  <2>2. page = "applications" /\ rut = rotations + 1 BY <1>5 DEF RequestOK
  <2> HIDE DEF tv, got
  <2>3. Onward(srv, rotations, tv, rut, page) /\ Len(tv.secrets) = Len(srv.secrets) + 1
    BY <2>1, <2>2, <1>1, Rotated
  <2>4. IsOnly(got, rut, tv) BY <2>1, <2>2, <2>3, <1>1 DEF IsOnly
  <2>5. Told(r, got, page, tv, rut) BY <2>1, <2>2, <2>3, <2>4, <1>2, <1>5 DEF Told, Size
  <2> QED BY <2>3, <2>5 DEF tv, got
<1>6. CASE r.op = "issue"
  <2>1. tv = [srv EXCEPT !.secrets = Append(@, "active")] /\ got = Len(srv.secrets) + 1
    BY <1>6 DEF P!After, P!Got
  <2>2. page = "agents" /\ rut = rotations BY <1>6 DEF RequestOK
  <2> HIDE DEF tv, got
  <2>3. /\ DOMAIN tv = DOMAIN srv /\ tv.rows = srv.rows
        /\ tv.secrets = Append(srv.secrets, "active") /\ tv.name = srv.name
    BY <2>1, <1>3
  <2>4. tv.secrets \in Secrets /\ Len(tv.secrets) = Len(srv.secrets) + 1 BY <2>3, <1>2, OneMore
  <2>5. ShownOK(tv) BY <2>3, <2>4, <1>1, <1>2 DEF ShownOK, Secrets
  <2>6. Onward(srv, rotations, tv, rut, page) BY <2>2, <2>3, <2>4, <2>5, <1>1, <1>2 DEF Onward, Size
  <2>7. Told(r, got, page, tv, rut) BY <2>1, <2>2, <2>4, <1>2, <1>6 DEF Told, Size
  <2> QED BY <2>6, <2>7 DEF tv, got
<1>7. CASE r.op = "revoke"
  <2>1. tv = [srv EXCEPT !.secrets[r.arg] = "revoked"] /\ got = 0 BY <1>7 DEF P!After, P!Got
  <2>2. page = "agents" /\ rut = rotations BY <1>7 DEF RequestOK
  <2> HIDE DEF tv, got
  <2>3. /\ DOMAIN tv = DOMAIN srv /\ tv.rows = srv.rows
        /\ tv.secrets = RevokedAt(srv.secrets, r.arg) /\ tv.name = srv.name
    BY <2>1, <1>3 DEF RevokedAt
  <2>4. tv.secrets \in Secrets /\ Len(tv.secrets) = Len(srv.secrets) BY <2>3, <1>2, RevokedOne
  <2>5. ShownOK(tv) BY <2>3, <2>4, <1>1, <1>2 DEF ShownOK, Secrets
  <2>6. Onward(srv, rotations, tv, rut, page) BY <2>2, <2>3, <2>4, <2>5, <1>1, <1>2 DEF Onward, Size
  <2>7. Told(r, got, page, tv, rut) BY <2>1, <1>7 DEF Told
  <2> QED BY <2>6, <2>7 DEF tv, got
<1>8. CASE r.op = "reveal"
  <2>1. tv = srv /\ got = r.arg BY <1>8 DEF P!After, P!Got
  <2>2. rut = rotations /\ r.arg \in Nat BY <1>8 DEF RequestOK
  <2> HIDE DEF tv, got
  <2>3. Onward(srv, rotations, tv, rut, page)
    BY <2>1, <2>2, <1>1, <1>2 DEF Onward, Size, LastIsActive
  <2>4. Told(r, got, page, tv, rut) BY <2>1, <2>2, <1>8 DEF Told
  <2> QED BY <2>3, <2>4 DEF tv, got
<1>9. CASE r.op = "delete"
  <2>1. tv = [srv EXCEPT !.status = "deleted", !.secrets = P!Revoked(@)] /\ got = 0
    BY <1>9 DEF P!After, P!Got
  <2>2. rut = rotations BY <1>9
  <2> HIDE DEF tv, got
  <2>3. /\ DOMAIN tv = DOMAIN srv /\ tv.rows = srv.rows /\ tv.secrets = P!Revoked(srv.secrets)
        /\ tv.name = srv.name /\ tv.status = "deleted"
    BY <2>1, <1>3
  <2>4. tv.secrets \in Secrets /\ Len(tv.secrets) = Len(srv.secrets) BY <2>3, <1>2, RevokedAll
  <2>5. ShownOK(tv) BY <2>3, <2>4, <1>1, <1>2 DEF ShownOK, Secrets
  <2>6. \A k : IsOnly(k, rotations, srv) => IsOnly(k, rut, tv) BY <2>2, <2>4 DEF IsOnly
  <2>7. Onward(srv, rotations, tv, rut, page)
    BY <2>2, <2>3, <2>4, <2>5, <2>6, <1>1, <1>2 DEF Onward, Size
  <2>8. Told(r, got, page, tv, rut) BY <2>1, <1>9 DEF Told
  <2> QED BY <2>7, <2>8 DEF tv, got
<1>10. CASE r.op \in {"activate", "retire"}
  <2>1. (tv = [srv EXCEPT !.status = "active"] \/ tv = [srv EXCEPT !.status = "retired"]) /\ got = 0
    BY <1>10 DEF P!After, P!Got
  <2>2. page = "keys" /\ rut = rotations BY <1>10 DEF RequestOK
  <2> HIDE DEF tv, got
  <2>3. /\ DOMAIN tv = DOMAIN srv /\ tv.rows = srv.rows /\ tv.secrets = srv.secrets
        /\ tv.name = srv.name
    BY <2>1, <1>3
  <2>4. ShownOK(tv) BY <2>3, <1>1 DEF ShownOK
  <2>5. Onward(srv, rotations, tv, rut, page) BY <2>2, <2>3, <2>4, <1>1, <1>2 DEF Onward, Size
  <2>6. Told(r, got, page, tv, rut) BY <2>1, <1>10 DEF Told
  <2> QED BY <2>5, <2>6 DEF tv, got
<1> QED BY <1>4, <1>5, <1>6, <1>7, <1>8, <1>9, <1>10 DEF RequestOK, Ops

(* The service carries out a request. *)
LEMMA Serves == ASSUME PagesInv, NEW i \in DOMAIN reqs, P!Serve(i) PROVE PagesInv'
<1> DEFINE r == reqs[i]
           e == [r EXCEPT !.stage = "done", !.got = P!Got(r)]
<1>1. /\ P!Accepts(r) /\ srv' = P!After(r)
      /\ reqs' = [reqs EXCEPT ![i] = e]
      /\ named' = (IF r.op = "delete" THEN <<r.typed, srv.name>> ELSE named)
      /\ rotations' = (IF r.op = "rotate" THEN rotations + 1 ELSE rotations)
      /\ UNCHANGED <<page, left, view, loads, loading, loadFresh, dialog, typed, busy, issued,
                     field, revealed, mine, ops, others>>
  BY DEF P!Serve, P!viewVars, P!dialogVars, P!secretVars
<1>2. RequestOK(r, page, srv, rotations) /\ IsSeq(reqs) BY DEF PagesInv, RequestsOK
<1>3. /\ DOMAIN e = DOMAIN r /\ e.op = r.op /\ e.arg = r.arg /\ e.typed = r.typed /\ e.ours = r.ours
      /\ e.stage = "done" /\ e.got = P!Got(r)
  BY <1>2 DEF RequestOK
<1>4. named'[1] = named'[2]
  <2>1. CASE r.op = "delete"
    <3>1. r.arg = srv.name BY <1>1, <2>1 DEF P!Accepts
    <3>2. r.arg = r.typed BY <1>2, <2>1 DEF RequestOK
    <3> QED BY <1>1, <2>1, <3>1, <3>2
  <2>2. CASE r.op # "delete" BY <1>1, <2>2 DEF PagesInv, P!DeletedAsTyped
  <2> QED BY <2>1, <2>2
<1> HIDE DEF r, e
<1>5. Onward(srv, rotations, srv', rotations', page) /\ Told(r, P!Got(r), page, srv', rotations')
  BY <1>1, <1>2, Served
<1>6. RequestOK(r, page, srv', rotations') BY <1>2, <1>5, StillOK
<1>7. RequestOK(e, page, srv', rotations') BY <1>3, <1>5, <1>6 DEF RequestOK, Told
<1>8. /\ reqs' = [j \in DOMAIN reqs |-> reqs'[j]]
      /\ \A j \in DOMAIN reqs : reqs'[j] = IF j = i THEN e ELSE reqs[j]
  BY <1>1
<1>9. IsSeq(reqs') /\ Len(reqs') = Len(reqs) /\ DOMAIN reqs' = DOMAIN reqs BY <1>2, <1>8, SeqMap
<1>10. ASSUME NEW j \in DOMAIN reqs PROVE RequestOK(reqs'[j], page, srv', rotations')
  <2>1. RequestOK(reqs[j], page, srv, rotations) BY DEF PagesInv, RequestsOK
  <2>2. RequestOK(reqs[j], page, srv', rotations') BY <2>1, <1>5, StillOK
  <2> QED BY <2>2, <1>7, <1>8
<1>11. RequestsOK(reqs', page, srv', rotations') BY <1>9, <1>10 DEF RequestsOK
<1>12. \A j \in DOMAIN reqs : Acting(reqs'[j]) <=> Acting(reqs[j]) BY <1>3, <1>8 DEF Acting, r
<1>13. OneAct(reqs', loads', busy') BY <1>1, <1>9, <1>12 DEF PagesInv, OneAct
<1>14. ShownOK(srv') /\ srv'.name \in RecNames /\ rotations' \in Nat BY <1>5 DEF Onward
<1>15. P!TypeOK'
  <2>1. \A k \in DOMAIN srv'.secrets : srv'.secrets[k] \in {"active", "revoked"}
    BY <1>14, LenProperties DEF ShownOK
  <2> QED BY <1>1, <1>9, <1>14, <2>1 DEF PagesInv, P!TypeOK
<1>16. WorkIsServed'
  <2>1. mine \subseteq Nat /\ \A k \in mine : k <= Size(srv, page)
    BY DEF PagesInv, P!TypeOK, WorkIsServed
  <2>2. Size(srv, page) \in Nat /\ Size(srv', page) \in Nat /\ Size(srv, page) <= Size(srv', page)
    BY <1>5 DEF Onward
  <2>3. \A k \in mine : k <= Size(srv', page) BY <2>1, <2>2
  <2> QED BY <1>1, <2>3 DEF WorkIsServed
<1>17. LastIsActive' BY <1>1, <1>5 DEF LastIsActive, Onward
<1>18. FieldIsOnly' BY <1>1, <1>5 DEF PagesInv, FieldIsOnly, Onward
<1>19. P!DeletedAsTyped' BY <1>4 DEF P!DeletedAsTyped
<1> QED BY <1>1, <1>11, <1>13, <1>14, <1>15, <1>16, <1>17, <1>18, <1>19
  DEF PagesInv, P!FreshViewHasOwnWork, KeysAreConfirmed, LeftIsIdle

(* Another administrator renames the record or rotates its secret. *)
LEMMA OthersAct == ASSUME PagesInv, P!OtherAdmin PROVE PagesInv'
<1>1. UNCHANGED <<page, left, view, loads, loading, loadFresh, dialog, typed, busy, issued, field,
                  revealed, reqs, mine, ops, named>>
  BY DEF P!OtherAdmin, P!viewVars, P!dialogVars, P!secretVars
<1>2. ShownOK(srv) /\ srv.name \in RecNames /\ rotations \in Nat /\ LastIsActive
  BY DEF PagesInv, P!TypeOK
<1>3. srv.rows \in Nat /\ srv.secrets \in Secrets /\ Len(srv.secrets) \in Nat BY <1>2, KeptSizes
<1>4. Onward(srv, rotations, srv', rotations', page)
  <2>1. ASSUME NEW n \in RecNames, srv' = [srv EXCEPT !.name = n], rotations' = rotations
        PROVE  Onward(srv, rotations, srv', rotations', page)
    <3>1. /\ DOMAIN srv' = DOMAIN srv /\ srv'.rows = srv.rows /\ srv'.secrets = srv.secrets
          /\ srv'.name = n /\ srv'.status = srv.status
      BY <1>2, <2>1 DEF ShownOK
    <3>2. ShownOK(srv') BY <3>1, <1>2 DEF ShownOK
    <3> QED BY <2>1, <3>1, <3>2, <1>2, <1>3 DEF Onward, Size, IsOnly, LastIsActive
  <2>2. ASSUME page = "applications", srv' = P!RotateSecret(srv), rotations' = rotations + 1
        PROVE  Onward(srv, rotations, srv', rotations', page)
    BY <2>2, <1>2, Rotated
  <2> QED BY <2>1, <2>2 DEF P!OtherAdmin
<1>5. ASSUME NEW j \in DOMAIN reqs PROVE RequestOK(reqs[j], page, srv', rotations')
  <2>1. RequestOK(reqs[j], page, srv, rotations) BY DEF PagesInv, RequestsOK
  <2> QED BY <2>1, <1>4, StillOK
<1>6. RequestsOK(reqs, page, srv', rotations') BY <1>5 DEF PagesInv, RequestsOK
<1>7. ShownOK(srv') /\ srv'.name \in RecNames /\ rotations' \in Nat BY <1>4 DEF Onward
<1>8. P!TypeOK'
  <2>1. \A k \in DOMAIN srv'.secrets : srv'.secrets[k] \in {"active", "revoked"}
    BY <1>7, LenProperties DEF ShownOK
  <2> QED BY <1>1, <1>7, <2>1 DEF PagesInv, P!TypeOK
<1>9. WorkIsServed'
  <2>1. mine \subseteq Nat /\ \A k \in mine : k <= Size(srv, page)
    BY DEF PagesInv, P!TypeOK, WorkIsServed
  <2>2. Size(srv, page) \in Nat /\ Size(srv', page) \in Nat /\ Size(srv, page) <= Size(srv', page)
    BY <1>4 DEF Onward
  <2>3. \A k \in mine : k <= Size(srv', page) BY <2>1, <2>2
  <2> QED BY <1>1, <2>3 DEF WorkIsServed
<1>10. LastIsActive' BY <1>1, <1>4 DEF LastIsActive, Onward
<1>11. FieldIsOnly' BY <1>1, <1>4 DEF PagesInv, FieldIsOnly, Onward
<1> QED BY <1>1, <1>6, <1>7, <1>8, <1>9, <1>10, <1>11
  DEF PagesInv, P!FreshViewHasOwnWork, P!DeletedAsTyped, KeysAreConfirmed, LeftIsIdle

(* The pages keep their invariant. *)
LEMMA PagesNext == ASSUME PagesInv, P!Next PROVE PagesInv'
<1>1. CASE P!Mount BY <1>1, Mounts
<1>2. CASE P!Navigate BY <1>2, Navigates
<1>3. CASE P!Refresh BY <1>3, Refreshes
<1>4. CASE P!Create BY <1>4, Creates
<1>5. CASE P!SectionButton BY <1>5, Presses
<1>6. CASE P!Reveal BY <1>6, Reveals
<1>7. CASE P!CloseConfirm BY <1>7, Closes
<1>8. CASE P!Confirm BY <1>8, Confirms
<1>9. CASE P!OtherAdmin BY <1>9, OthersAct
<1>10. ASSUME NEW a \in P!Acts, P!OpenConfirm(a) PROVE PagesInv' BY <1>10, Opens
<1>11. ASSUME NEW n \in RecNames, P!TypeName(n) PROVE PagesInv' BY <1>11, NameTyped
<1>12. ASSUME NEW i \in DOMAIN loads, P!LoadRead(i) PROVE PagesInv' BY <1>12, Reads
<1>13. ASSUME NEW i \in DOMAIN loads, P!LoadUnauthorized(i) PROVE PagesInv'
  BY <1>13, UnauthorizedLeaves
<1>14. ASSUME NEW i \in DOMAIN loads, P!LoadArrives(i) PROVE PagesInv' BY <1>14, Arrives
<1>15. ASSUME NEW i \in DOMAIN loads, P!LoadFails(i) PROVE PagesInv' BY <1>15, Fails
<1>16. ASSUME NEW i \in DOMAIN reqs, P!Serve(i) PROVE PagesInv' BY <1>16, Serves
<1>17. ASSUME NEW i \in DOMAIN reqs, P!AnswerSecret(i) PROVE PagesInv' BY <1>17, AnswersSecret
<1>18. ASSUME NEW i \in DOMAIN reqs, P!AnswerRevoke(i) PROVE PagesInv' BY <1>18, AnswersRevoke
<1>19. ASSUME NEW i \in DOMAIN reqs, P!AnswerReveal(i) PROVE PagesInv' BY <1>19, AnswersReveal
<1>20. ASSUME NEW i \in DOMAIN reqs, P!AnswerAct(i) PROVE PagesInv' BY <1>20, AnswersAct
<1>21. ASSUME NEW i \in DOMAIN reqs, P!AnswerDelete(i) PROVE PagesInv' BY <1>21, DeletedLeaves
<1>22. ASSUME NEW i \in DOMAIN reqs, P!AnswerError(i) PROVE PagesInv' BY <1>22, AnswersError
<1> QED
  BY <1>1, <1>2, <1>3, <1>4, <1>5, <1>6, <1>7, <1>8, <1>9, <1>10, <1>11, <1>12, <1>13, <1>14,
     <1>15, <1>16, <1>17,
     <1>18, <1>19, <1>20, <1>21, <1>22 DEF P!Next

(* A sequence of one element. *)
LEMMA OneIsAppended == \A e : <<e>> = Append(<<>>, e)
OBVIOUS

(* Secrets are active or revoked. *)
LEMMA ShownSecrets ==
  ASSUME NEW sv, ShownOK(sv)
  PROVE  \A k \in DOMAIN sv.secrets : sv.secrets[k] \in {"active", "revoked"}
BY LenProperties DEF ShownOK

(* A page as it starts, mounted with its first load or left. *)
NewPage(n) ==
  /\ page \in Pages /\ left \in BOOLEAN /\ loading \in BOOLEAN /\ loadFresh = FALSE
  /\ srv = [rows |-> 1, name |-> n, status |-> "active", secrets |-> <<"active">>]
  /\ view = P!NoView /\ loads \in {<<>>, P!FirstLoad} /\ reqs = <<>>
  /\ dialog = "" /\ typed = "" /\ busy = FALSE /\ issued = 0 /\ field = 0 /\ revealed = 0
  /\ mine = {} /\ rotations = 0 /\ named[1] = named[2]

(* A page before it is mounted satisfies the invariant. *)
LEMMA PagesStart == ASSUME NEW n \in RecNames, NewPage(n) PROVE PagesInv
<1>1. <<"active">> \in Secrets /\ Len(<<"active">>) = 1 /\ <<"active">>[1] = "active"
  <2>1. <<>> \in Secrets /\ Len(<<>>) = 0 BY EmptySeq DEF Secrets
  <2>2. Append(<<>>, "active") = <<"active">> BY OneIsAppended
  <2> QED BY <2>1, <2>2, OneMore
<1>2. /\ DOMAIN srv = {"rows", "name", "status", "secrets"} /\ srv.rows = 1 /\ srv.name = n
      /\ srv.secrets = <<"active">>
  BY DEF NewPage
<1>3. ShownOK(srv) BY <1>1, <1>2 DEF ShownOK, Secrets
<1>4. reqs = <<>> /\ loads \in {<<>>, P!FirstLoad} BY DEF NewPage
<1>5. busy = FALSE /\ mine = {} /\ rotations = 0 /\ dialog = "" /\ field = 0 BY DEF NewPage
<1>6. /\ RequestsOK(reqs, page, srv, rotations) /\ Len(reqs) = 0
      /\ \A i \in DOMAIN reqs : ~Acting(reqs[i])
  BY <1>4, EmptyIsSeq DEF RequestsOK
<1>7. LoadsOK(loads, page, mine) /\ OneAct(reqs, loads, FALSE) /\ Len(loads) \in {0, 1}
  <2>1. CASE loads = <<>> BY <2>1, <1>6, EmptyIsSeq DEF LoadsOK, OneAct
  <2>2. CASE loads = P!FirstLoad BY <2>2, <1>6, FirstLoadOK
  <2> QED BY <2>1, <2>2, <1>4
<1>8. P!TypeOK
  <2>1. \A k \in DOMAIN srv.secrets : srv.secrets[k] \in {"active", "revoked"} BY <1>3, ShownSecrets
  <2>2. Len(reqs) <= MaxReqs /\ Len(loads) <= MaxLoads BY <1>6, <1>7, PagesAssumption
  <2>3. issued = 0 /\ field = 0 /\ revealed = 0 /\ mine = {} BY DEF NewPage
  <2>4. {issued, field, revealed} \subseteq Nat /\ mine \subseteq Nat BY <2>3
  <2>5. /\ page \in Pages /\ left \in BOOLEAN /\ loading \in BOOLEAN /\ busy \in BOOLEAN
        /\ loadFresh \in BOOLEAN
        /\ dialog \in {""} \cup P!Acts /\ typed \in {""} \cup RecNames
    BY DEF NewPage
  <2> QED BY <2>1, <2>2, <2>4, <2>5, <1>2 DEF P!TypeOK
<1>9. WorkIsServed /\ P!FreshViewHasOwnWork BY <1>5 DEF WorkIsServed, P!FreshViewHasOwnWork
<1>10. P!DeletedAsTyped BY DEF P!DeletedAsTyped, NewPage
<1>11. Len(srv.secrets) = 1 /\ srv.secrets[1] = "active" BY <1>1, <1>2
<1>12. LastIsActive BY <1>11 DEF LastIsActive
<1>13. FieldIsOnly /\ KeysAreConfirmed /\ LeftIsIdle
  BY <1>5 DEF FieldIsOnly, KeysAreConfirmed, LeftIsIdle
<1>14. ShownOK(view) BY NoViewShown DEF NewPage
<1>15. OneAct(reqs, loads, busy) /\ rotations \in Nat BY <1>5, <1>7
<1> QED BY <1>3, <1>6, <1>7, <1>8, <1>9, <1>10, <1>12, <1>13, <1>14, <1>15 DEF PagesInv

(* A step of the dialogs leaves the pages alone. *)
LEMMA PagesStill == ASSUME PagesInv, UNCHANGED pagesVars PROVE PagesInv'
<1>1. UNCHANGED <<page, srv, left, view, loads, loading, loadFresh, dialog, typed, busy, issued,
                  field, revealed, reqs, mine, ops, rotations, others, named>>
  BY DEF pagesVars
<1>2. P!TypeOK' BY <1>1 DEF PagesInv, P!TypeOK
<1> QED BY <1>1, <1>2
  DEF PagesInv, P!FreshViewHasOwnWork, P!DeletedAsTyped, WorkIsServed, LastIsActive, FieldIsOnly,
      KeysAreConfirmed, LeftIsIdle

------------------------------------------------------------------------------
(* The console. *)
ConsoleInv == DialogInv /\ PagesInv

(* Whichever half is in use, the other stands still in a good state. *)
LEMMA ConsoleStarts == ConsoleInit => ConsoleInv
<1>1. CASE DialogHalf
  <2>1. DialogInv BY <1>1, DialogInit DEF DialogHalf
  <2>2. (CHOOSE n \in RecNames : TRUE) \in RecNames BY PagesAssumption
  <2>3. NewPage(CHOOSE n \in RecNames : TRUE) BY <1>1, HalvesAssumption DEF DialogHalf, NewPage
  <2>4. PagesInv BY <2>2, <2>3, PagesStart
  <2> QED BY <2>1, <2>4 DEF ConsoleInv
<1>2. CASE PagesHalf
  <2>1. DialogInv
    <3>1. ~Editing /\ row = NoRecord /\ record = NoRecord BY <1>2 DEF PagesHalf, Editing
    <3>2. RecordsOK BY <3>1 DEF RecordsOK
    <3> QED BY <1>2, <3>2, ClosedDialog, HalvesAssumption DEF PagesHalf
  <2>2. PagesInv
    <3>1. PICK n \in RecNames : srv = [rows |-> 1, name |-> n, status |-> "active", secrets |-> <<"active">>]
      BY <1>2 DEF PagesHalf, P!Init
    <3>2. NewPage(n) BY <1>2, <3>1 DEF PagesHalf, P!Init, NewPage
    <3> QED BY <3>2, PagesStart
  <2> QED BY <2>1, <2>2 DEF ConsoleInv
<1> QED BY <1>1, <1>2 DEF ConsoleInit

(* A step is one of a half, and of the dialogs it is a step of theirs. *)
LEMMA ConsoleSteps == ASSUME ConsoleInv, [ConsoleNext]_allVars PROVE ConsoleInv' /\ [FormNext]_formVars
<1>1. CASE UNCHANGED <<half, pagesVars>> /\ FormNext
  BY <1>1, DialogNext, PagesStill DEF ConsoleInv
<1>2. CASE UNCHANGED <<half, formVars>> /\ P!Next
  BY <1>2, DialogNext, PagesNext DEF ConsoleInv
<1>3. CASE UNCHANGED allVars
  BY <1>3, DialogNext, PagesStill DEF ConsoleInv, allVars
<1> QED BY <1>1, <1>2, <1>3 DEF ConsoleNext

(* Every state of the console satisfies the inductive invariant, whichever  *)
(* of its halves is in use.                                                *)
THEOREM ConsoleInvariant == ConsoleSpec => []ConsoleInv
<1>1. ConsoleInit => ConsoleInv BY ConsoleStarts
<1>2. ConsoleInv /\ [ConsoleNext]_allVars => ConsoleInv' BY ConsoleSteps
<1> QED BY <1>1, <1>2, PTL DEF ConsoleSpec

(* Whatever reloads, other administrators and overlapping option requests   *)
(* do: an edit dialog shows the record of its page where nothing was typed, *)
(* no dialog keeps a choice of a hidden name, and once the newest option    *)
(* lists are applied they are the ones the chosen values call for.          *)
THEOREM DialogsAreCurrent == ConsoleSpec => []DialogIsCurrent
<1>1. ConsoleInv => DialogIsCurrent BY DialogHolds DEF ConsoleInv
<1> QED BY <1>1, ConsoleInvariant, PTL

(* Whatever submissions outlive their dialogs: one opening of a create      *)
(* dialog makes one row, and one more at most for every answer lost; an     *)
(* expiry nobody touched is sent moved by the offset of the zone.           *)
THEOREM RowsAreWhatIsAsked == ConsoleSpec => []WhatIsStored
<1>1. ConsoleInv => WhatIsStored BY DialogHolds DEF ConsoleInv
<1> QED BY <1>1, ConsoleInvariant, PTL

(* However loads, requests and other administrators interleave: a page that *)
(* applied its newest load shows every row and secret it was told of, it is *)
(* busy while one confirmed action is under way and never else, a deletion  *)
(* goes by the name typed, and after one rotation the secret shown is the   *)
(* active one.                                                              *)
THEOREM PagesKeepUpAlways == ConsoleSpec => []PagesKeepUp
<1>1. ConsoleInv => PagesKeepUp BY PagesHold DEF ConsoleInv
<1> QED BY <1>1, ConsoleInvariant, PTL

(* A dialog closes by its operator's hand, or by the answer to a submission *)
(* that was stored: no refusal and no lost answer takes a form away.        *)
THEOREM DialogsCloseOnCancelOrSave == ConsoleSpec => ClosesOnCancelOrSave
<1>1. ConsoleInv /\ [ConsoleNext]_allVars =>
        [open /\ ~open' => \/ Len(subs') = Len(subs)
                           \/ \E i \in DOMAIN subs : subs[i].stage = "stored" /\ Len(subs') < Len(subs)]_formVars
  <2> SUFFICES ASSUME ConsoleInv, [ConsoleNext]_allVars, open, ~open'
               PROVE  \/ Len(subs') = Len(subs)
                      \/ \E i \in DOMAIN subs : subs[i].stage = "stored" /\ Len(subs') < Len(subs)
    OBVIOUS
  <2> QED BY ConsoleSteps, DialogCloses DEF ConsoleInv
<1> QED BY <1>1, ConsoleInvariant, PTL DEF ConsoleSpec, ClosesOnCancelOrSave

--------------------------------------------------------------------------------
(* Key rotation. *)

DistinctKids == \A j, k \in Keys : KidOf[j] = KidOf[k] => j = k

(* A key that once was active: it verifies until lag after time t at least. *)
Outlives(k, t, lag) ==
  /\ k \in Keys /\ Exists(k) /\ key[k].status # "pending"
  /\ key[k].status = "retired" =>
       key[k].retiredAt # None /\ t <= key[k].retiredAt + lag

(* A call's row exists, and a retirement is written in time. *)
CallsInTime ==
  \A a \in Admins :
    call[a] # "idle" =>
      /\ subject[a] \in Keys /\ Exists(subject[a])
      /\ call[a] = "retiring" => stamp[a] <= now /\ now <= stamp[a] + WriteLag

(* A signer signs in time with a key it read as active. *)
SignersInTime ==
  \A s \in Signers :
    signer[s] = "holding" =>
      /\ Outlives(held[s], since[s], WriteLag)
      /\ since[s] <= now /\ now <= since[s] + SignLag

(* A token was issued before its key's retirement, give or take the lags. *)
TokensInTime ==
  \A s \in Signers :
    /\ signer[s] = "signed" <=> token[s] # None
    /\ token[s] # None =>
         /\ Outlives(token[s].key, token[s].issuedAt, WriteLag + SignLag)
         /\ token[s].issuedAt <= now
         /\ token[s].expiresAt <= token[s].issuedAt + Lifetime

(* Active keys have the time by which they are ordered. *)
ActiveSince == \A k \in ActiveKeys : key[k].activatedAt # None

KInv == TypeOK /\ CallsInTime /\ SignersInTime /\ TokensInTime /\ ActiveSince

--------------------------------------------------------------------------------
(* No call, signature or token at first. *)
LEMMA InitKInv == Init => KInv
BY KeyConstants, NoneIsNoRow
   DEF Init, KInv, TypeOK, CallsInTime, SignersInTime, TokensInTime, ActiveSince,
       ActiveKeys, Exists, Times

(* What a demotion and a retirement write. *)
LEMMA RowUpdates ==
  ASSUME NEW entry \in KeyRow, NEW t \in Times
  PROVE  /\ DemotedRow(entry) \in KeyRow /\ RetiredRow(entry, t) \in KeyRow
         /\ DemotedRow(entry).status = "verifying"
         /\ RetiredRow(entry, t).status = "retired"
         /\ RetiredRow(entry, t).retiredAt = t
BY DEF KeyRow, DemotedRow, RetiredRow

(* What a retirement does to the table. *)
LEMMA RetireEffect ==
  ASSUME KInv, NEW a \in Admins, Retire(a)
  PROVE  /\ subject[a] \in Keys /\ stamp[a] \in Times /\ Exists(subject[a])
         /\ key'[subject[a]] \in KeyRow
         /\ key'[subject[a]].status = "retired"
         /\ key'[subject[a]].retiredAt = stamp[a]
         /\ now <= stamp[a] + WriteLag
         /\ \A k \in Keys : k # subject[a] => key'[k] = key[k]
         /\ key' \in [Keys -> KeyRow \cup {None}]
<1>1. /\ subject[a] \in Keys /\ key[subject[a]] \in KeyRow /\ stamp[a] \in Times
      /\ Exists(subject[a]) /\ now <= stamp[a] + WriteLag
  BY DEF KInv, TypeOK, Retire, CallsInTime, Exists
<1>2. /\ RetiredRow(key[subject[a]], stamp[a]) \in KeyRow
      /\ RetiredRow(key[subject[a]], stamp[a]).status = "retired"
      /\ RetiredRow(key[subject[a]], stamp[a]).retiredAt = stamp[a]
  BY <1>1, RowUpdates
<1>. QED BY <1>1, <1>2 DEF Retire, KInv, TypeOK

(* Every action keeps the types. *)
LEMMA KTypeStep ==
  ASSUME KInv, [Next]_vars
  PROVE  TypeOK'
<1> USE KeyConstants, NoneIsNoRow
    DEF KInv, TypeOK, calls, signers, Times, KeyRow, Exists, ActiveKeys
<1>1. ASSUME NEW k \in Keys, Create(k) PROVE TypeOK'
  BY <1>1 DEF Create
<1>2. ASSUME NEW a \in Admins, NEW k \in Keys, BeginActivate(a, k) \/ BeginRetire(a, k)
      PROVE TypeOK'
  BY <1>2 DEF BeginActivate, BeginRetire, Begin
<1>3. ASSUME NEW a \in Admins, Demote(a) PROVE TypeOK'
  BY <1>3, RowUpdates DEF Demote
<1>4. ASSUME NEW a \in Admins, Promote(a) PROVE TypeOK'
  BY <1>4 DEF Promote, End, CallsInTime
<1>5. ASSUME NEW a \in Admins, Retire(a) PROVE TypeOK'
  <2>1. key' \in [Keys -> KeyRow \cup {None}]
    BY <1>5, RetireEffect
  <2>. QED BY <1>5, <2>1 DEF Retire, End
<1>6. ASSUME NEW a \in Admins, Fail(a) PROVE TypeOK'
  BY <1>6 DEF Fail, End
<1>7. ASSUME NEW s \in Signers, ReadKey(s) PROVE TypeOK'
  BY <1>7 DEF ReadKey, Newest
<1>8. ASSUME NEW s \in Signers, NEW ttl \in 1 .. Lifetime, Sign(s, ttl) PROVE TypeOK'
  BY <1>8 DEF Sign, SignersInTime, Outlives, Token
<1>9. CASE Tick
  BY <1>9 DEF Tick
<1>10. CASE UNCHANGED vars
  BY <1>10 DEF vars
<1>. QED
  BY <1>1, <1>2, <1>3, <1>4, <1>5, <1>6, <1>7, <1>8, <1>9, <1>10
     DEF Next, Administer, Use

(* Rows are never deleted, and only two writes change the row of a key that *)
(* once was active: a demotion or promotion, which clears retiredAt, and a  *)
(* retirement.                                                              *)
LEMMA OutlivesStep ==
  ASSUME KInv, [Next]_vars, NEW k, NEW t \in Times, NEW lag \in Nat,
         Outlives(k, t, lag), t <= now,
         \A a \in Admins : call[a] = "retiring" => now <= stamp[a] + WriteLag,
         lag >= WriteLag
  PROVE  Outlives(k, t, lag)'
<1> USE KeyConstants, NoneIsNoRow
    DEF KInv, TypeOK, calls, signers, Times, KeyRow, Exists, ActiveKeys,
        Outlives
<1>1. ASSUME NEW j \in Keys, Create(j) PROVE Outlives(k, t, lag)'
  BY <1>1 DEF Create
<1>2. ASSUME NEW a \in Admins, Demote(a) PROVE Outlives(k, t, lag)'
  BY <1>2, RowUpdates DEF Demote
<1>3. ASSUME NEW a \in Admins, Promote(a) PROVE Outlives(k, t, lag)'
  BY <1>3 DEF Promote, End, CallsInTime
<1>4. ASSUME NEW a \in Admins, Retire(a) PROVE Outlives(k, t, lag)'
  BY <1>4, RetireEffect
<1>5. CASE UNCHANGED key
  BY <1>5
<1>6. ASSUME NEW a \in Admins, NEW j \in Keys, BeginActivate(a, j) \/ BeginRetire(a, j)
      PROVE  UNCHANGED key
  BY <1>6 DEF BeginActivate, BeginRetire, Begin
<1>7. ASSUME NEW a \in Admins, Fail(a) PROVE UNCHANGED key
  BY <1>7 DEF Fail
<1>8. ASSUME NEW s \in Signers, Use(s) PROVE UNCHANGED key
  BY <1>8 DEF Use, ReadKey, Sign
<1>9. CASE Tick \/ UNCHANGED vars
  BY <1>9, <1>5 DEF Tick, vars
<1>. QED
  BY <1>1, <1>2, <1>3, <1>4, <1>5, <1>6, <1>7, <1>8, <1>9 DEF Next, Administer

(* The clock waits for a retirement that was stamped WriteLag ago. *)
LEMMA CallsStep ==
  ASSUME KInv, [Next]_vars
  PROVE  CallsInTime'
<1> USE KeyConstants, NoneIsNoRow
    DEF KInv, TypeOK, calls, signers, Times, KeyRow, Exists, ActiveKeys,
        CallsInTime
<1>1. ASSUME NEW k \in Keys, Create(k) PROVE CallsInTime'
  BY <1>1 DEF Create
<1>2. ASSUME NEW a \in Admins, NEW k \in Keys, BeginActivate(a, k) \/ BeginRetire(a, k)
      PROVE CallsInTime'
  BY <1>2 DEF BeginActivate, BeginRetire, Begin
<1>3. ASSUME NEW a \in Admins, Demote(a) PROVE CallsInTime'
  BY <1>3, RowUpdates DEF Demote
<1>4. ASSUME NEW a \in Admins, Promote(a) PROVE CallsInTime'
  BY <1>4 DEF Promote, End
<1>5. ASSUME NEW a \in Admins, Retire(a) PROVE CallsInTime'
  <2>1. \A k \in Keys : Exists(k) => Exists(k)'
    BY <1>5, RetireEffect
  <2>. QED BY <1>5, <2>1 DEF Retire, End
<1>6. ASSUME NEW a \in Admins, Fail(a) PROVE CallsInTime'
  BY <1>6 DEF Fail, End
<1>7. ASSUME NEW s \in Signers, Use(s) PROVE CallsInTime'
  BY <1>7 DEF Use, ReadKey, Sign
<1>8. CASE Tick
  BY <1>8 DEF Tick
<1>9. CASE UNCHANGED vars
  BY <1>9 DEF vars
<1>. QED
  BY <1>1, <1>2, <1>3, <1>4, <1>5, <1>6, <1>7, <1>8, <1>9 DEF Next, Administer

(* The steps that touch no signer, and a signer's own. *)
LEMMA SignersStep ==
  ASSUME KInv, [Next]_vars
  PROVE  SignersInTime'
<1> SUFFICES ASSUME NEW s \in Signers, signer'[s] = "holding"
             PROVE  /\ Outlives(held[s], since[s], WriteLag)'
                    /\ since'[s] <= now' /\ now' <= since'[s] + SignLag
  BY DEF SignersInTime
<1> USE KeyConstants
<1>1. ASSUME signer[s] = "holding", held'[s] = held[s], since'[s] = since[s],
             now' = now \/ Tick
      PROVE  /\ Outlives(held[s], since[s], WriteLag)'
             /\ since'[s] <= now' /\ now' <= since'[s] + SignLag
  <2>1. /\ Outlives(held[s], since[s], WriteLag)
        /\ since[s] \in Times /\ since[s] <= now /\ now <= since[s] + SignLag
        /\ \A a \in Admins : call[a] = "retiring" => now <= stamp[a] + WriteLag
    BY <1>1 DEF KInv, SignersInTime, CallsInTime, TypeOK
  <2>2. Outlives(held[s], since[s], WriteLag)'
    <3>1. PICK k, t : k = held[s] /\ t = since[s]
      OBVIOUS
    <3>2. Outlives(k, t, WriteLag)'
      BY <2>1, <3>1, OutlivesStep
    <3>. QED BY <1>1, <3>1, <3>2 DEF Outlives
  <2>3. since[s] <= now' /\ now' <= since[s] + SignLag
    BY <1>1, <2>1 DEF Tick, KInv, TypeOK, Times
  <2>. QED BY <1>1, <2>2, <2>3
<1>2. ASSUME ReadKey(s)
      PROVE  /\ Outlives(held[s], since[s], WriteLag)'
             /\ since'[s] <= now' /\ now' <= since'[s] + SignLag
  BY <1>2 DEF ReadKey, Newest, ActiveKeys, Outlives, Exists, KInv, TypeOK, Times
<1>3. ASSUME NEW r \in Signers, Use(r), ~ReadKey(s)
      PROVE  signer[s] = "holding" /\ held'[s] = held[s] /\ since'[s] = since[s] /\ now' = now
  BY <1>3 DEF Use, ReadKey, Sign, signers, KInv, TypeOK
<1>4. ASSUME NEW a \in Admins, Administer(a)
      PROVE  signer[s] = "holding" /\ held'[s] = held[s] /\ since'[s] = since[s] /\ now' = now
  BY <1>4 DEF Administer, BeginActivate, BeginRetire, Begin, Demote, Promote, Retire,
              Fail,
              End, signers
<1>5. CASE (\E k \in Keys : Create(k)) \/ Tick \/ UNCHANGED vars
  BY <1>5, <1>1 DEF Create, Tick, vars, signers
<1>. QED
  BY <1>1, <1>2, <1>3, <1>4, <1>5 DEF Next

(* A token is signed no later than SignLag after its key was read. *)
LEMMA TokensStep ==
  ASSUME KInv, [Next]_vars
  PROVE  TokensInTime'
<1> USE KeyConstants, NoneIsNoRow
<1>1. ASSUME NEW s \in Signers, UNCHANGED <<signer[s], token[s]>>, now' = now \/ Tick
      PROVE  /\ signer'[s] = "signed" <=> token'[s] # None
             /\ token'[s] # None =>
                  /\ Outlives(token[s].key, token[s].issuedAt, WriteLag + SignLag)'
                  /\ token'[s].issuedAt <= now'
                  /\ token'[s].expiresAt <= token'[s].issuedAt + Lifetime
  <2> SUFFICES ASSUME token[s] # None
               PROVE  /\ Outlives(token[s].key, token[s].issuedAt, WriteLag + SignLag)'
                      /\ token'[s].issuedAt <= now'
                      /\ token'[s].expiresAt <= token'[s].issuedAt + Lifetime
    BY <1>1 DEF KInv, TokensInTime
  <2>1. /\ Outlives(token[s].key, token[s].issuedAt, WriteLag + SignLag)
        /\ token[s].issuedAt \in Times /\ token[s].issuedAt <= now
        /\ token[s].expiresAt <= token[s].issuedAt + Lifetime
        /\ \A a \in Admins : call[a] = "retiring" => now <= stamp[a] + WriteLag
    BY DEF KInv, TokensInTime, CallsInTime, TypeOK, Token
  <2>2. Outlives(token[s].key, token[s].issuedAt, WriteLag + SignLag)'
    <3>1. PICK k, t : k = token[s].key /\ t = token[s].issuedAt
      OBVIOUS
    <3>2. Outlives(k, t, WriteLag + SignLag)'
      BY <2>1, <3>1, OutlivesStep
    <3>. QED BY <1>1, <3>1, <3>2 DEF Outlives
  <2>3. now <= now'
    BY <1>1 DEF Tick, KInv, TypeOK, Times
  <2>. QED BY <1>1, <2>1, <2>2, <2>3 DEF Times, KInv, TypeOK, Tick
<1>2. ASSUME NEW s \in Signers, NEW ttl \in 1 .. Lifetime, Sign(s, ttl)
      PROVE  /\ signer'[s] = "signed" /\ token'[s] # None
             /\ Outlives(token[s].key, token[s].issuedAt, WriteLag + SignLag)'
             /\ token'[s].issuedAt <= now'
             /\ token'[s].expiresAt <= token'[s].issuedAt + Lifetime
  <2>1. /\ Outlives(held[s], since[s], WriteLag)
        /\ since[s] \in Times /\ now \in Times /\ now <= since[s] + SignLag
        /\ token'[s] = [key |-> held[s], issuedAt |-> now, expiresAt |-> now + ttl]
        /\ signer'[s] = "signed" /\ key' = key /\ now' = now
    BY <1>2 DEF Sign, KInv, SignersInTime, TypeOK
  <2>2. token'[s] \in Token
    BY <2>1 DEF Outlives, Token, Times
  <2>3. Outlives(held[s], now, WriteLag + SignLag)
    BY <2>1 DEF Outlives, Times, KInv, TypeOK, KeyRow, Exists
  <2>4. Outlives(token[s].key, token[s].issuedAt, WriteLag + SignLag)'
    BY <2>1, <2>3 DEF Outlives, Exists
  <2>. QED BY <2>1, <2>2, <2>4 DEF Times
<1>3. ASSUME NEW r \in Signers, NEW s \in Signers, Use(r)
      PROVE  /\ \/ UNCHANGED <<signer[s], token[s]>>
                \/ ReadKey(s)
                \/ \E ttl \in 1 .. Lifetime : Sign(s, ttl)
             /\ now' = now
  BY <1>3 DEF Use, ReadKey, Sign, signers, KInv, TypeOK
<1>4. ASSUME NEW s \in Signers, ReadKey(s)
      PROVE  /\ signer'[s] # "signed" /\ token'[s] = None
  BY <1>4 DEF ReadKey, KInv, TokensInTime, TypeOK
<1>5. ASSUME NEW a \in Admins, Administer(a)
      PROVE  UNCHANGED <<signer, token, now>>
  BY <1>5 DEF Administer, BeginActivate, BeginRetire, Begin, Demote, Promote, Retire,
              Fail,
              End, signers
<1>6. CASE (\E k \in Keys : Create(k)) \/ Tick \/ UNCHANGED vars
  <2>1. UNCHANGED <<signer, token>> /\ (now' = now \/ Tick)
    BY <1>6 DEF Create, Tick, vars, signers
  <2>. QED BY <2>1, <1>1 DEF TokensInTime
<1>7. ASSUME NEW a \in Admins, Administer(a) PROVE TokensInTime'
  BY <1>7, <1>5, <1>1 DEF TokensInTime
<1>8. ASSUME NEW r \in Signers, Use(r) PROVE TokensInTime'
  BY <1>8, <1>1, <1>2, <1>3, <1>4 DEF TokensInTime
<1>. QED
  BY <1>6, <1>7, <1>8 DEF Next

(* A key becomes active with the time of its activation. *)
LEMMA ActiveStep ==
  ASSUME KInv, [Next]_vars
  PROVE  ActiveSince'
<1> USE NoneIsNoRow DEF KInv, TypeOK, Exists, ActiveKeys, ActiveSince, Times
<1>1. ASSUME NEW k \in Keys, Create(k) PROVE ActiveSince'
  BY <1>1 DEF Create
<1>2. ASSUME NEW a \in Admins, Demote(a) PROVE ActiveSince'
  BY <1>2, RowUpdates DEF Demote
<1>3. ASSUME NEW a \in Admins, Promote(a) PROVE ActiveSince'
  BY <1>3 DEF Promote, CallsInTime
<1>4. ASSUME NEW a \in Admins, Retire(a) PROVE ActiveSince'
  BY <1>4, RetireEffect
<1>5. CASE UNCHANGED key
  BY <1>5
<1>6. ASSUME NEW a \in Admins, NEW j \in Keys, BeginActivate(a, j) \/ BeginRetire(a, j)
      PROVE  UNCHANGED key
  BY <1>6 DEF BeginActivate, BeginRetire, Begin
<1>7. ASSUME NEW a \in Admins, Fail(a) PROVE UNCHANGED key
  BY <1>7 DEF Fail
<1>8. ASSUME NEW s \in Signers, Use(s) PROVE UNCHANGED key
  BY <1>8 DEF Use, ReadKey, Sign
<1>9. CASE Tick \/ UNCHANGED vars
  BY <1>9, <1>5 DEF Tick, vars
<1>. QED
  BY <1>1, <1>2, <1>3, <1>4, <1>5, <1>6, <1>7, <1>8, <1>9 DEF Next, Administer

--------------------------------------------------------------------------------
(* The inductive invariant. *)
THEOREM KeyInvariance == Spec => []KInv
<1>1. KInv /\ [Next]_vars => KInv'
  BY KTypeStep, CallsStep, SignersStep, TokensStep, ActiveStep DEF KInv
<1>. QED BY <1>1, InitKInv, PTL DEF Spec

(* The key table, the calls and the signatures keep their types. *)
THEOREM KeyTypes == Spec => []TypeOK
BY KeyInvariance, PTL DEF KInv

(* The key of a token that has not expired is usable. *)
LEMMA UnexpiredUsable ==
  ASSUME KInv, NEW s \in Signers, token[s] # None, Unexpired(token[s])
  PROVE  token[s].key \in Keys /\ Usable(token[s].key)
<1> DEFINE t == token[s]
<1>1. /\ Outlives(t.key, t.issuedAt, WriteLag + SignLag)
      /\ t.expiresAt <= t.issuedAt + Lifetime
      /\ t \in Token /\ now \in Nat /\ now < t.expiresAt
  BY DEF KInv, TypeOK, TokensInTime, Unexpired, Times
<1>2. CASE key[t.key].status = "retired"
  <2>1. /\ key[t.key].retiredAt \in Nat
        /\ t.issuedAt <= key[t.key].retiredAt + (WriteLag + SignLag)
    BY <1>1, <1>2 DEF Outlives, KInv, TypeOK, KeyRow, Exists, Times
  <2>2. now <= key[t.key].retiredAt + Lifetime + Grace
    BY <1>1, <2>1, GraceCoversLag, KeyConstants DEF Token, Times
  <2>. QED BY <1>1, <2>2 DEF Usable, Outlives
<1>. QED BY <1>1, <1>2 DEF Usable, Outlives

(* Key rotation keeps every token that has not expired verifiable, provided *)
(* the administrators give every key a kid of its own.                      *)
THEOREM RotationSafe ==
  ASSUME DistinctKids
  PROVE  Spec => []RotationKeepsTokens
<1>1. KInv => RotationKeepsTokens
  <2> SUFFICES ASSUME KInv,
                      NEW s \in Signers, token[s] # None, Unexpired(token[s])
               PROVE  ServerAccepts(token[s].key) /\ token[s].key \in Published
    BY DEF RotationKeepsTokens
  <2>1. token[s].key \in Keys /\ Usable(token[s].key)
    BY UnexpiredUsable
  <2>. QED BY <2>1 DEF ServerAccepts, RowsOfKid, Usable, DistinctKids, Published
<1>. QED BY <1>1, KeyInvariance, PTL

================================================================================
