------------------------------- MODULE Desk --------------------------------
(***************************************************************************)
(* What a signed-in person keeps on the terminal: capital limits,          *)
(* preferences and watchlists (app.py and terminal_store.py).  The legacy  *)
(* owner edits the shared rows and the engine's budgets instead, and       *)
(* those are kept twice: in budgets.yaml, which Budgets re-reads whenever  *)
(* it changes, and as the setting "budgets" of the store.                  *)
(*                                                                         *)
(* Budgets and limits are functions from some modules to an amount.  The   *)
(* file is edited through the endpoint only.                               *)
(***************************************************************************)
EXTENDS Integers, FiniteSets

CONSTANTS
  Person,      \* people with an account
  Area,        \* trading modules that have a budget
  Amount,      \* amounts and risk limits that pass validation
  ListName, Ticker, Pref,
  DeskOwner,   \* the legacy administrator
  Shipped      \* budgets.yaml as the image ships it

ASSUME ShippedIsComplete == Shipped \in [Area -> Amount] /\ DeskOwner \notin Person

VARIABLES
  booted,    \* boot has applied the setting to this process
  budgets,   \* budgets.yaml, which is what the engine sizes with
  saved,     \* the setting "budgets" of the store; empty: never saved
  torn,      \* ghost: a PUT wrote the file and its store write failed
  people,    \* accounts
  limits,    \* user_capital_limits: person -> limits
  prefs,     \* user_preferences: person -> the keys that are stored
  lists      \* watchlists: person or owner -> list -> members

deskVars == <<booted, budgets, saved, torn, people, limits, prefs, lists>>

Nothing == [x \in {} |-> 0]
Anyone  == Person \cup {DeskOwner}
Partial(S, T) == UNION {[D -> T] : D \in SUBSET S}

\* What is new, and what was there for the keys that it leaves out.
Updated(old, new) ==
  [k \in DOMAIN old \cup DOMAIN new |-> IF k \in DOMAIN new THEN new[k] ELSE old[k]]

\* _validate_capital_limits: at least one module, and only modules that the
\* engine has a budget for at this moment.
Acceptable(new) == new # Nothing /\ DOMAIN new \subseteq DOMAIN budgets

\* put_budgets of the owner: the whole file is replaced, modules that were left
\* out included; the store comes second and may be down.
PutBudgets(new) ==
  /\ Acceptable(new)
  /\ budgets' = new
  /\ \/ saved' = new /\ torn' = FALSE
     \/ saved' = saved /\ torn' = TRUE
  /\ UNCHANGED <<booted, people, limits, prefs, lists>>

\* put_budgets of a person: the modules that were sent, the others stay.
PutLimits(u, new) ==
  /\ u \in people /\ Acceptable(new)
  /\ limits' = [limits EXCEPT ![u] = Updated(@, new)]
  /\ UNCHANGED <<booted, budgets, saved, torn, people, prefs, lists>>

\* get_budgets: accounts from before the limits existed get the engine's.
GetBudgets(u) ==
  /\ u \in people /\ limits[u] = Nothing
  /\ limits' = [limits EXCEPT ![u] = budgets]
  /\ UNCHANGED <<booted, budgets, saved, torn, people, prefs, lists>>

\* create_user with its defaults, in one transaction.
Enrol(u) ==
  /\ u \notin people
  /\ people' = people \cup {u}
  /\ limits' = [limits EXCEPT ![u] = budgets]
  /\ prefs' = [prefs EXCEPT ![u] = [k \in Pref |-> 0]]
  /\ lists' = [lists EXCEPT ![u] = [l \in {"research"} |-> {}]]
  /\ UNCHANGED <<booted, budgets, saved, torn>>

\* Fault: the setting is read but the file wins.
FaultyBootBudgets == budgets

\* boot: a stored setting overwrites the file.
BootBudgets == IF saved = Nothing THEN budgets ELSE saved

Startup ==
  /\ ~booted
  /\ booted' = TRUE /\ budgets' = BootBudgets
  /\ torn' = (torn /\ saved = Nothing)
  /\ UNCHANGED <<saved, people, limits, prefs, lists>>

\* A restart keeps the file, a redeployment brings the shipped one; lifespan
\* creates the shared Research list when there is no shared list.
Relaunch ==
  /\ booted' = FALSE
  /\ \/ UNCHANGED <<budgets, torn>>
     \/ budgets' = Shipped /\ torn' = FALSE
  /\ lists' = IF lists[DeskOwner] = Nothing
              THEN [lists EXCEPT ![DeskOwner] = [l \in {"research"} |-> {}]] ELSE lists
  /\ UNCHANGED <<saved, people, limits, prefs>>

\* put_preferences: defaults, then what is stored, then the update.
PutPreferences(u, update) ==
  /\ u \in people
  /\ prefs' = [prefs EXCEPT ![u] = Updated(Updated([k \in Pref |-> 0], @), update)]
  /\ UNCHANGED <<booted, budgets, saved, torn, people, limits, lists>>

CreateList(w, l) ==
  /\ lists' = [lists EXCEPT ![w] = Updated([k \in {l} |-> {}], @)]
  /\ UNCHANGED <<booted, budgets, saved, torn, people, limits, prefs>>

AddMember(w, l, s) ==
  /\ l \in DOMAIN lists[w]
  /\ lists' = [lists EXCEPT ![w][l] = @ \cup {s}]
  /\ UNCHANGED <<booted, budgets, saved, torn, people, limits, prefs>>

RemoveMember(w, l, s) ==
  /\ l \in DOMAIN lists[w]
  /\ lists' = [lists EXCEPT ![w][l] = @ \ {s}]
  /\ UNCHANGED <<booted, budgets, saved, torn, people, limits, prefs>>

\* Accounts may be older than the tables of preferences and limits.
DeskInit ==
  /\ booted = FALSE /\ budgets = Shipped /\ saved = Nothing /\ torn = FALSE
  /\ people \in {{}, Person}
  /\ limits = [u \in Person |-> Nothing] /\ prefs = [u \in Person |-> Nothing]
  /\ lists = [w \in Anyone |-> Nothing]

DeskNext ==
  \/ Startup \/ Relaunch
  \/ \E new \in Partial(Area, Amount) : PutBudgets(new) \/ \E u \in Person : PutLimits(u, new)
  \/ \E u \in Person : GetBudgets(u) \/ Enrol(u) \/ \E up \in Partial(Pref, {0, 1}) : PutPreferences(u, up)
  \/ \E w \in people \cup {DeskOwner}, l \in ListName :
       CreateList(w, l) \/ \E s \in Ticker : AddMember(w, l, s) \/ RemoveMember(w, l, s)

DeskSpec == DeskInit /\ [][DeskNext]_deskVars
-----------------------------------------------------------------------------
DeskTypeOK ==
  /\ booted \in BOOLEAN /\ torn \in BOOLEAN
  /\ budgets \in Partial(Area, Amount) /\ saved \in Partial(Area, Amount)
  /\ \A u \in Person : limits[u] \in Partial(Area, Amount) /\ prefs[u] \in Partial(Pref, {0, 1})
  /\ \A w \in Anyone : DOMAIN lists[w] \subseteq ListName \cup {"research"}

\* Once boot is through, the engine sizes with the budgets that were last
\* acknowledged, whatever the image shipped and whoever saved personal limits;
\* only a PUT that was answered with an error can leave the file ahead.
BudgetsInForce == booted /\ saved # Nothing /\ ~torn => budgets = saved
=============================================================================
