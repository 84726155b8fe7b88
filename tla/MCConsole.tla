----------------------------- MODULE MCConsole -----------------------------
(***************************************************************************)
(* The two halves of the admin console in one run: the form dialogs        *)
(* (MCConsoleForm) and the pages around them (ConsolePages).  A behaviour  *)
(* exercises one half; the other half stands still, a page that is left or *)
(* a dialog that is closed.                                                *)
(***************************************************************************)
EXTENDS MCConsoleForm

CONSTANTS Pages, RecNames, MaxOps, MaxReqs, MaxLoads, MaxOthers

ASSUME PagesAssumption ==
  /\ Pages \subseteq {"list", "applications", "agents", "keys"} /\ RecNames # {}
  /\ MaxOps \in Nat /\ MaxReqs \in Nat /\ MaxLoads \in Nat \ {0} /\ MaxOthers \in Nat

\* The page and the dialog that stand still are among those opened.
ASSUME HalvesAssumption == <<"keys", "create">> \in Forms /\ "list" \in Pages

VARIABLES half, page, srv, left, view, loads, loading, loadFresh, dialog, typed, busy,
          issued, field, revealed, reqs, mine, ops, rotations, others, named

P == INSTANCE ConsolePages WITH fresh <- loadFresh

pagesVars == <<page, srv, left, view, loads, loading, loadFresh, dialog, typed, busy,
               issued, field, revealed, reqs, mine, ops, rotations, others, named>>
allVars == <<half, formVars, pagesVars>>

DialogHalf ==
  /\ half = "dialogs"
  /\ FormInit
  /\ page = "list" /\ left = TRUE
  /\ srv = [rows |-> 1, name |-> CHOOSE n \in RecNames : TRUE, status |-> "active", secrets |-> <<"active">>]
  /\ view = P!NoView /\ loads = <<>> /\ loading = FALSE /\ loadFresh = FALSE
  /\ dialog = "" /\ typed = "" /\ busy = FALSE /\ reqs = <<>>
  /\ issued = 0 /\ field = 0 /\ revealed = 0
  /\ mine = {} /\ ops = 0 /\ rotations = 0 /\ others = 0 /\ named = <<"", "">>

PagesHalf ==
  /\ half = "pages"
  /\ P!Init
  /\ form = <<"keys", "create">> /\ open = FALSE
  /\ values = InitialValues(Flds, NoRecord) /\ options = NoOptions
  /\ batches = <<>> /\ subs = <<>> /\ hour = 0 /\ lost = 0
  /\ row = NoRecord /\ record = NoRecord
  /\ touched = {} /\ fresh = FALSE /\ stored = 0

ConsoleInit == DialogHalf \/ PagesHalf

ConsoleNext ==
  \/ half = "dialogs" /\ UNCHANGED <<half, pagesVars>> /\ FormNext
  \/ half = "pages" /\ UNCHANGED <<half, formVars>> /\ P!Next

ConsoleSpec == ConsoleInit /\ [][ConsoleNext]_allVars

\* The pages keep up with the requests they send (ConsolePages): what they show,
\* the flag that guards their actions, the name they delete by and the secret
\* they show.
PagesKeepUp == P!PagesKeepUp
============================================================================
