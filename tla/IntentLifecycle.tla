--------------------------- MODULE IntentLifecycle ---------------------------
(***************************************************************************)
(* What the execution contract (docs 27 and 28) promises about the life of *)
(* an intent, whatever the handlers do and in whatever order they are      *)
(* called.  An intent belongs for ever to the book it was created in.  A   *)
(* simulated one goes from SHADOW to EXECUTED to CLOSED and never holds    *)
(* placement authority.  A live one must be claimed before anything can be *)
(* executed, and from then on only the broker's answer moves it: local     *)
(* events can take the authority away, for good, but never the path on     *)
(* which a late answer is recorded.                                        *)
(***************************************************************************)
CONSTANT Intent

VARIABLES
  book,      \* "LIVE" or "SIMULATION", fixed at creation
  stage,     \* the intent's status, "NONE" before it exists
  authority  \* "NONE", "HELD" once claimed, "REVOKED"

lifecycleVars == <<book, stage, authority>>

Retired  == {"BLOCKED", "REJECTED", "EXPIRED"}
Answered == {"EXECUTED", "REJECTED", "FAILED", "CANCELLED"}

Same(i) == /\ book'[i] = book[i]
           /\ stage'[i] = stage[i]
           /\ authority'[i] = authority[i]

Create(i) ==
  /\ stage[i] = "NONE"
  /\ book'[i] \in {"LIVE", "SIMULATION"}
  /\ stage'[i] \in {"BLOCKED", IF book'[i] = "LIVE" THEN "READY" ELSE "SHADOW"}
  /\ authority'[i] = "NONE"

\* Work nobody claimed is retired locally.
Retire(i) ==
  /\ stage[i] \in {"SHADOW", "READY"}
  /\ stage'[i] \in Retired
  /\ book'[i] = book[i]
  /\ authority'[i] = authority[i]

Simulate(i) ==
  /\ book[i] = "SIMULATION"
  /\ \/ stage[i] = "SHADOW" /\ stage'[i] = "EXECUTED"
     \/ stage[i] = "EXECUTED" /\ stage'[i] = "CLOSED"
  /\ book'[i] = book[i]
  /\ authority'[i] = authority[i]

\* Authority is granted once, and may be renewed only while it was not revoked.
Grant(i) ==
  /\ book[i] = "LIVE"
  /\ \/ stage[i] = "READY" /\ authority[i] = "NONE"
     \/ stage[i] = "CLAIMED" /\ authority[i] = "HELD"
  /\ stage'[i] = "CLAIMED"
  /\ authority'[i] = "HELD"
  /\ book'[i] = book[i]

Revoke(i) ==
  /\ stage[i] = "CLAIMED"
  /\ authority[i] = "HELD"
  /\ authority'[i] = "REVOKED"
  /\ stage'[i] = stage[i]
  /\ book'[i] = book[i]

\* The broker's answers, of which a fill may follow a cancellation.
Answer(i) ==
  /\ book[i] = "LIVE"
  /\ \/ stage[i] = "CLAIMED" /\ stage'[i] \in Answered
     \/ stage[i] = "CANCELLED" /\ stage'[i] = "EXECUTED"
     \/ stage[i] = "EXECUTED" /\ stage'[i] = "CLOSED"
  /\ book'[i] = book[i]
  /\ authority'[i] = authority[i]

\* One handler may move many intents at once.
LifecycleInit ==
  /\ book \in [Intent -> {"LIVE", "SIMULATION"}]
  /\ stage = [i \in Intent |-> "NONE"]
  /\ authority = [i \in Intent |-> "NONE"]

LifecycleNext ==
  \A i \in Intent :
    Same(i) \/ Create(i) \/ Retire(i) \/ Simulate(i) \/ Grant(i) \/ Revoke(i) \/ Answer(i)

LifecycleSpec == LifecycleInit /\ [][LifecycleNext]_lifecycleVars
=============================================================================
