------------------------------ MODULE Autotrade ------------------------------
(***************************************************************************)
(* The execution manager of the gateway (autotrade.py): the operator's     *)
(* policy, the table of execution intents and the handlers that change     *)
(* them, with the parts of the live loop (live.py) that call it: alerts    *)
(* appear, a symbol's data is quarantined, recovers or stops at the close. *)
(*                                                                         *)
(* Every handler runs to completion inside one asyncio process, so it is   *)
(* one action.  What is left to chance is the order of the calls, the time *)
(* that passes between them, and what the agent and the operator ask for:  *)
(* any caller may post any request at any time.                            *)
(*                                                                         *)
(* The clock counts ticks; a deadline d has passed when d <= now, as in    *)
(* the code.  A handler that raises ValueError changes nothing and is a    *)
(* step that is simply not enabled.                                        *)
(***************************************************************************)
EXTENDS Integers, Sequences, FiniteSets, FiniteSetsExt, IntentStates

CONSTANTS
  Alert,            \* alert ids; the intent of alert a is "ati_" + a, named a here
  Symbol,           \* monitored symbols
  SymbolOf,         \* [Alert -> Symbol]
  Kind,             \* [Alert -> Kinds]: what the order plan asks for
  Research,         \* alerts of research-only strategies
  DollarRisk,       \* [Alert -> Nat]: the alert's printed risk
  CapitalRequired,  \* [Alert -> Nat]: capital of an equity plan
  Validity,         \* [Alert -> Nat]: ticks from emission to valid_until
  Demotable,        \* alerts whose calibration artifact may change
  Limits,           \* the cap settings an operator may choose between
  CapsFixed,        \* bound: the operator keeps the caps of the start
  LiveMinutes,      \* values of live_for_minutes
  Power,            \* buying power the agent may report
  Price,            \* debit of one contract of a candidate
  Grade,            \* liquidity of a candidate, higher is better
  Lag,              \* ages of the observations a caller may submit
  LeaseTicks,       \* claim lease (two minutes)
  ReviewMaxAge,     \* CAPITAL_REVIEW_MAX_AGE_SECONDS
  QuoteMaxAge,      \* max_option_quote_age_seconds
  Sellout,          \* broker sellout time of the contracts on offer
  SelloutMargin,    \* five minutes
  MaxTime, MaxDay,  \* bounds of the clock and of the calendar
  MaxTrades         \* bound of one intent's journal

Kinds == {"DYNAMIC", "EQUITY", "STATIC"}
LimitRecord == [admits : SUBSET Alert, perOrder : Nat, daily : Nat,
                maxOpen : Nat, fraction : 1..80, minGrade : Nat]

ASSUME AlertAssumption ==
  /\ SymbolOf \in [Alert -> Symbol]
  /\ Kind \in [Alert -> Kinds]
  /\ Research \subseteq Alert
  /\ Demotable \subseteq Alert
  /\ DollarRisk \in [Alert -> Nat]
  /\ CapitalRequired \in [Alert -> Nat]
  /\ Validity \in [Alert -> Nat]

ASSUME PolicyAssumption ==
  /\ Limits \subseteq LimitRecord
  /\ Limits # {}
  /\ CapsFixed \in BOOLEAN
  /\ \A lim \in Limits : lim.perOrder <= lim.daily /\ lim.maxOpen >= 1
  /\ LiveMinutes \subseteq Nat \ {0}

ASSUME RequestAssumption ==
  /\ Power \subseteq Nat \ {0}
  /\ Price \subseteq Nat \ {0}
  /\ Grade \subseteq Nat
  /\ Lag \subseteq Nat

ASSUME TimeAssumption ==
  /\ LeaseTicks \in Nat \ {0}
  /\ ReviewMaxAge \in Nat
  /\ QuoteMaxAge \in Nat
  /\ Sellout \in Nat
  /\ SelloutMargin \in Nat
  /\ MaxTime \in Nat
  /\ MaxDay \in Nat
  /\ MaxTrades \in Nat

VARIABLES
  now, today,       \* the clock and the trading day (ET)
  policy,           \* mode, live_until and the caps in force
  liveEligible,     \* alerts whose strategy's artifact says live_eligible
  alert,            \* status of each alert in the live loop's list
  validUntil,       \* valid_until of each emitted alert
  health,           \* per-symbol data health
  mode, status,     \* mode an intent was created in; its status
  createdDay,       \* day the intent was created
  selection,        \* option_selection
  capital,          \* capital_check
  lease, revoked,   \* claim.lease_until (0: never claimed), claim.revoked_at set
  trades            \* trade_events: the journal of receipts

clockVars  == <<now, today>>
alertVars  == <<alert, validUntil>>
planVars   == <<mode, createdDay, selection, capital>>
claimVars  == <<lease, revoked>>
intentVars == <<mode, status, createdDay, selection, capital, lease, revoked, trades>>
vars == <<now, today, policy, liveEligible, alert, validUntil, health, mode,
          status, createdDay, selection, capital, lease, revoked, trades>>

-----------------------------------------------------------------------------
AlertStatus == {Absent, "ACTIVE", "SHADOW", "CANCELLED"}
Health      == {"OK", "CLOSED", "QUARANTINED"}

NoSelection == [debit |-> 0, grade |-> 0, quoteAt |-> -1, recordedAt |-> -1]
NoCapital   == [observed |-> -1, power |-> 0, required |-> 0, passed |-> FALSE]

\* effective_mode: LIVE only while live_until is ahead.
EffectiveLive == policy.mode = "LIVE" /\ policy.liveUntil > now
EffectiveMode == IF EffectiveLive THEN "LIVE" ELSE "SIMULATION"

Expired(i) == validUntil[i] <= now
GateOpen(i) == health[SymbolOf[i]] = "OK"

\* The plan still asks for an option selection.
NeedsSelection(i) == Kind[i] = "DYNAMIC" /\ selection[i] = NoSelection

\* order_plan.capital_policy.capital_required: none for a dynamic plan until a
\* contract was selected, then its planned debit.
Required(i) == IF Kind[i] = "DYNAMIC" THEN selection[i].debit ELSE CapitalRequired[i]

\* What an intent charges against the daily budget: planned_debit or dollar_risk.
Charge(i) == IF selection[i].debit # 0 THEN selection[i].debit ELSE DollarRisk[i]

\* Fault: a filled position no longer counts as open.
FaultyOpenIntents ==
  {i \in Alert : /\ mode[i] = "LIVE"
                 /\ status[i] \notin Terminal \cup {Absent, "EXECUTED"}
                 /\ ~Expired(i)}

\* LIVE intents that still count against max_open_intents.
OpenIntents ==
  {i \in Alert : /\ mode[i] = "LIVE"
                 /\ status[i] \notin Terminal \cup {Absent}
                 /\ ~Expired(i)}

\* dollar_risk of the day's intents, of either mode, as intent creation counts it.
ReservedToday ==
  MapThenSumSet(LAMBDA i : DollarRisk[i],
    {i \in Alert : /\ status[i] \in {"READY", "CLAIMED", "EXECUTED", "CLOSED"}
                   /\ createdDay[i] = today})

\* Fault: a completed trade gives its risk back to the day.
FaultyChargedToday(i) ==
  {j \in Alert \ {i} : /\ mode[j] = "LIVE"
                       /\ createdDay[j] = today
                       /\ status[j] \in {"READY", "CLAIMED", "EXECUTED"}}

\* The other LIVE intents of the day that selection and claim count.
ChargedToday(i) ==
  {j \in Alert \ {i} : /\ mode[j] = "LIVE"
                       /\ createdDay[j] = today
                       /\ status[j] \in {"READY", "CLAIMED", "EXECUTED", "CLOSED"}}

RemainingDailyRisk(i) ==
  Max({0, policy.limits.daily - MapThenSumSet(Charge, ChargedToday(i))})

-----------------------------------------------------------------------------
\* Fault: a claim is blocked like work that was never placed.
FaultyHalt(S) ==
  /\ status' = [i \in Alert |->
        IF i \in S /\ status[i] \in Blockable \cup {"CLAIMED"} THEN "BLOCKED" ELSE status[i]]
  /\ revoked' = revoked

(* _mutate_blocked and _mutate_revoked_claim, for every intent of S: work    *)
(* that was not placed is blocked; a claim keeps its status, because the     *)
(* broker's answer may still arrive, and loses its authority.                *)
Halt(S) ==
  /\ status' = [i \in Alert |->
        IF i \in S /\ status[i] \in Blockable THEN "BLOCKED" ELSE status[i]]
  /\ revoked' = [i \in Alert |-> revoked[i] \/ (i \in S /\ status[i] = "CLAIMED")]

\* Fault: the switch to Simulation forgets the claims.
FaultyLiveIntents == {i \in Alert : mode[i] = "LIVE" /\ status[i] # "CLAIMED"}

\* The intents _disable_live_authority walks through.
LiveIntents == {i \in Alert : mode[i] = "LIVE"}

-----------------------------------------------------------------------------
(* The operator.                                                             *)

Admissible(lim) == CapsFixed => lim = policy.limits

\* update_policy with mode LIVE: opens a window of the requested minutes.
SwitchLive(minutes, lim) ==
  /\ Admissible(lim)
  /\ lim.admits # {}
  /\ policy' = [mode |-> "LIVE", liveUntil |-> now + minutes, limits |-> lim]
  /\ UNCHANGED <<clockVars, liveEligible, alertVars, health, intentVars>>

\* update_policy with mode SIMULATION, and the disarm endpoint.
SwitchSimulation(lim) ==
  /\ Admissible(lim)
  /\ policy' = [mode |-> "SIMULATION", liveUntil |-> 0, limits |-> lim]
  /\ Halt(LiveIntents)
  /\ UNCHANGED <<clockVars, liveEligible, alertVars, health, planVars, lease, trades>>

\* reject: a claim is revoked, unplaced work is rejected.
Reject(i) ==
  /\ \/ /\ status[i] = "CLAIMED"
        /\ Halt({i})
     \/ /\ status[i] \in Blockable
        /\ status' = [status EXCEPT ![i] = "REJECTED"]
        /\ UNCHANGED revoked
  /\ UNCHANGED <<clockVars, policy, liveEligible, alertVars, health, planVars,
                 lease, trades>>

-----------------------------------------------------------------------------
(* The live loop.                                                            *)

\* Fault: a retired alert still makes an intent.
FaultyUsable(live) == {"ACTIVE", "SHADOW", "CANCELLED"}

\* Alert statuses an intent of the given mode may rest on.
Usable(live) == IF live THEN {"ACTIVE"} ELSE {"ACTIVE", "SHADOW"}

\* _eligibility_reasons is empty for alert a with status st and valid_until t.
Eligible(a, st, t, live) ==
  /\ st \in Usable(live)
  /\ live => a \notin Research
  /\ t > now
  /\ a \in policy.limits.admits
  /\ DollarRisk[a] <= policy.limits.perOrder
  /\ live => Kind[a] # "STATIC"
  /\ GateOpen(a)
  /\ live => a \in liveEligible
  /\ live => Cardinality(OpenIntents) < policy.limits.maxOpen
  /\ live => ReservedToday + DollarRisk[a] <= policy.limits.daily

\* on_alert for an alert that has no intent yet.
CreateIntent(a, st, t) ==
  /\ mode' = [mode EXCEPT ![a] = EffectiveMode]
  /\ status' = [status EXCEPT ![a] =
        IF ~Eligible(a, st, t, EffectiveLive) THEN "BLOCKED"
        ELSE IF EffectiveLive THEN "READY" ELSE "SHADOW"]
  /\ createdDay' = [createdDay EXCEPT ![a] = today]
  /\ UNCHANGED <<selection, capital, claimVars, trades>>

\* _record_setup, then _deliver: a new alert enters the list; an active one is
\* offered to the manager, a research one only while the mode is Simulation.
\* During the replay of a boot, or when on_alert raises, the alert is recorded
\* and nothing else happens.
EmitAlert(a, replay) ==
  LET st == IF a \in Research THEN "SHADOW" ELSE "ACTIVE"
      t  == now + Validity[a]
  IN  /\ alert[a] = Absent
      /\ replay \/ GateOpen(a)
      /\ t <= MaxTime
      /\ alert' = [alert EXCEPT ![a] = st]
      /\ validUntil' = [validUntil EXCEPT ![a] = t]
      /\ IF replay \/ (a \in Research /\ EffectiveLive)
           THEN UNCHANGED intentVars
           ELSE CreateIntent(a, st, t)
  /\ UNCHANGED <<clockVars, policy, liveEligible, health>>

\* POST .../intents/from-alert/{alert_id}: on_alert for any alert of the list.
\* A known intent is only ever halted: by a retired alert or a closed gate.
FromAlert(a) ==
  /\ alert[a] # Absent
  /\ \/ /\ status[a] = Absent
        /\ CreateIntent(a, alert[a], validUntil[a])
     \/ /\ status[a] # Absent
        /\ alert[a] \notin Usable(mode[a] = "LIVE") \/ ~GateOpen(a)
        /\ Halt({a})
        /\ UNCHANGED <<planVars, lease, trades>>
  /\ UNCHANGED <<clockVars, policy, liveEligible, alertVars, health>>

\* _record_symbol_failure: the gate closes, block_symbol halts the symbol's
\* intents, and _cancel_symbol_alerts retires its unexpired alerts.
Quarantine(s) ==
  /\ health' = [health EXCEPT ![s] = "QUARANTINED"]
  /\ Halt({i \in Alert : SymbolOf[i] = s})
  /\ alert' = [a \in Alert |->
        IF SymbolOf[a] = s /\ alert[a] # Absent /\ validUntil[a] > now
          THEN "CANCELLED" ELSE alert[a]]
  /\ UNCHANGED <<clockVars, policy, liveEligible, validUntil, planVars, lease, trades>>

\* _record_symbol_success: a poll accepted the symbol's bars; they make it
\* actionable only during the regular session.
AcceptBars(s, actionable) ==
  /\ health' = [health EXCEPT ![s] = IF actionable THEN "OK" ELSE "CLOSED"]
  /\ UNCHANGED <<clockVars, policy, liveEligible, alertVars, intentVars>>

\* _mark_market_closed: the gate closes without touching the intents.
MarketClose ==
  /\ \E s \in Symbol : health[s] = "OK"
  /\ health' = [s \in Symbol |->
        IF health[s] = "QUARANTINED" THEN "QUARANTINED" ELSE "CLOSED"]
  /\ UNCHANGED <<clockVars, policy, liveEligible, alertVars, intentVars>>

\* A backtest or an operator replaces a strategy's calibration artifact, which
\* CalibrationMap.load reads again at every decision.
Recalibrate(a) ==
  /\ a \in Demotable
  /\ liveEligible' = IF a \in liveEligible THEN liveEligible \ {a} ELSE liveEligible \cup {a}
  /\ UNCHANGED <<clockVars, policy, alertVars, health, intentVars>>

-----------------------------------------------------------------------------
(* The execution agent.                                                      *)

\* Fault: the review of the previous selection stays on file.
FaultyWithoutReview(i) == capital

\* intent.capital_check = None.
WithoutReview(i) == [capital EXCEPT ![i] = NoCapital]

\* A planned debit is inside the funding fraction and both risk ceilings.
Affordable(i, power, debit) ==
  /\ debit * 100 <= power * policy.limits.fraction
  /\ debit <= policy.limits.perOrder
  /\ debit <= RemainingDailyRisk(i)

\* attest_option_selection: the best eligible candidate costs `price` a
\* contract and has liquidity `g`; as many contracts as fit every ceiling are
\* planned, and an earlier capital review no longer counts.
AttestSelection(i, power, price, g, age) ==
  /\ status[i] \in {"SHADOW", "READY"}
  /\ ~Expired(i)
  /\ mode[i] = "LIVE" => EffectiveLive
  /\ Kind[i] = "DYNAMIC"
  /\ age <= QuoteMaxAge /\ age <= now
  /\ Sellout > now + SelloutMargin
  /\ g >= policy.limits.minGrade
  /\ \E quantity \in 1..policy.limits.perOrder :
        /\ Affordable(i, power, quantity * price)
        /\ ~Affordable(i, power, (quantity + 1) * price)
        /\ selection' = [selection EXCEPT ![i] =
              [debit |-> quantity * price, grade |-> g,
               quoteAt |-> now - age, recordedAt |-> now]]
  /\ capital' = WithoutReview(i)
  /\ UNCHANGED <<clockVars, policy, liveEligible, alertVars, health, mode,
                 status, createdDay, claimVars, trades>>

\* attest_capital: a fresh buying-power observation is recorded against the
\* capital the plan requires now; a failed one halts the intent.
AttestCapital(i, power, age) ==
  LET fits == Required(i) * 100 <= power * policy.limits.fraction
  IN  /\ \/ status[i] = "READY"
         \/ status[i] = "CLAIMED" /\ ~revoked[i] /\ lease[i] <= now
      /\ mode[i] = "LIVE"
      /\ ~NeedsSelection(i)
      /\ age <= ReviewMaxAge /\ age <= now
      /\ capital' = [capital EXCEPT ![i] =
            [observed |-> now - age, power |-> power, required |-> Required(i),
             passed |-> fits]]
      /\ IF fits THEN UNCHANGED <<status, revoked>> ELSE Halt({i})
      /\ UNCHANGED <<clockVars, policy, liveEligible, alertVars, health, mode,
                     createdDay, selection, lease, trades>>

\* _current_claim_policy_reason is None.
PolicyAllows(i) ==
  /\ i \in policy.limits.admits
  /\ Kind[i] # "STATIC"
  /\ i \in liveEligible
  /\ Cardinality(OpenIntents \ {i}) < policy.limits.maxOpen

\* Fault: a review that passed once is trusted whatever the limits are now.
FaultyReviewPasses(i) ==
  /\ capital[i] # NoCapital /\ capital[i].passed
  /\ now - capital[i].observed <= ReviewMaxAge
  /\ capital[i].required = Required(i)

\* The review on file is fresh, of this order, and passes the limits of now.
ReviewPasses(i) ==
  /\ capital[i] # NoCapital /\ capital[i].passed
  /\ now - capital[i].observed <= ReviewMaxAge
  /\ capital[i].required = Required(i)
  /\ Required(i) * 100 <= capital[i].power * policy.limits.fraction

\* _capital_check_reason is None.
CapitalAllows(i) ==
  LET risk == IF Kind[i] = "DYNAMIC" THEN Required(i) ELSE DollarRisk[i]
  IN  /\ Required(i) > 0
      /\ risk <= policy.limits.perOrder
      /\ risk <= RemainingDailyRisk(i)
      /\ Kind[i] = "DYNAMIC" =>
           /\ selection[i] # NoSelection
           /\ now - selection[i].quoteAt <= QuoteMaxAge
           /\ Sellout > now + SelloutMargin
           /\ selection[i].grade >= policy.limits.minGrade
      /\ ReviewPasses(i)

\* The prefix of claim every outcome but an error shares.
Claimable(i) == mode[i] = "LIVE" /\ status[i] \in {"READY", "CLAIMED"}

\* claim, refused: the window closed, the gate closed or the policy no longer
\* admits the order.
ClaimRefused(i) ==
  /\ Claimable(i)
  /\ \/ ~EffectiveLive
     \/ ~Expired(i) /\ ~(GateOpen(i) /\ PolicyAllows(i))
  /\ Halt({i})
  /\ UNCHANGED <<clockVars, policy, liveEligible, alertVars, health, planVars,
                 lease, trades>>

\* claim, too late: unclaimed work expires, a claim is revoked.
ClaimExpired(i) ==
  /\ Claimable(i)
  /\ EffectiveLive
  /\ Expired(i)
  /\ status' = [status EXCEPT ![i] = IF @ = "READY" THEN "EXPIRED" ELSE @]
  /\ revoked' = [revoked EXCEPT ![i] = @ \/ status[i] = "CLAIMED"]
  /\ UNCHANGED <<clockVars, policy, liveEligible, alertVars, health, planVars,
                 lease, trades>>

\* Fault: a revoked claim may be claimed again once its lease ran out.
FaultyUnclaimed(i) == status[i] = "CLAIMED" => lease[i] <= now

\* No claim of the intent is active or was revoked.
Unclaimed(i) == status[i] = "CLAIMED" => ~revoked[i] /\ lease[i] <= now

LeaseEnd(i) == Min({now + LeaseTicks, validUntil[i], policy.liveUntil})

\* claim, granted: a READY intent, or one whose lease ran out unrevoked.  The
\* new claim record replaces the old one.
ClaimGranted(i) ==
  /\ Claimable(i)
  /\ EffectiveLive
  /\ ~Expired(i)
  /\ GateOpen(i)
  /\ PolicyAllows(i)
  /\ Unclaimed(i)
  /\ CapitalAllows(i)
  /\ lease' = [lease EXCEPT ![i] = LeaseEnd(i)]
  /\ revoked' = [revoked EXCEPT ![i] = FALSE]
  /\ status' = [status EXCEPT ![i] = "CLAIMED"]
  /\ UNCHANGED <<clockVars, policy, liveEligible, alertVars, health, planVars, trades>>

\* record_receipt: broker truth enters the journal.
RecordReceipt(i, receipt) ==
  /\ mode[i] = "LIVE"
  /\ receipt \in ReceiptAllowed(status[i])
  /\ Len(trades[i]) < MaxTrades
  /\ trades' = [trades EXCEPT ![i] = Append(@, [event |-> TradeEvent(receipt), day |-> today])]
  /\ status' = [status EXCEPT ![i] = StatusAfter(@, receipt)]
  /\ UNCHANGED <<clockVars, policy, liveEligible, alertVars, health, planVars, claimVars>>

\* record_simulation, event ENTRY.
SimulationEntry(i) ==
  /\ mode[i] = "SIMULATION"
  /\ status[i] = "SHADOW"
  /\ selection[i] # NoSelection
  /\ ~Expired(i)
  /\ GateOpen(i)
  /\ now - selection[i].recordedAt <= QuoteMaxAge
  /\ Sellout > now + SelloutMargin
  /\ trades' = [trades EXCEPT ![i] = Append(@, [event |-> "ENTRY", day |-> today])]
  /\ status' = [status EXCEPT ![i] = "EXECUTED"]
  /\ UNCHANGED <<clockVars, policy, liveEligible, alertVars, health, planVars, claimVars>>

\* record_simulation, event EXIT: bad data never keeps a position open.
SimulationExit(i) ==
  /\ mode[i] = "SIMULATION"
  /\ status[i] = "EXECUTED"
  /\ selection[i] # NoSelection
  /\ \E k \in DOMAIN trades[i] : trades[i][k].event = "ENTRY"
  /\ trades' = [trades EXCEPT ![i] = Append(@, [event |-> "EXIT", day |-> today])]
  /\ status' = [status EXCEPT ![i] = "CLOSED"]
  /\ UNCHANGED <<clockVars, policy, liveEligible, alertVars, health, planVars, claimVars>>

\* The LIVE window ran out and nobody switched the mode back.
WindowOver == policy.mode = "LIVE" /\ ~EffectiveLive

\* Fault: a claim outlives its intent for as long as the window is open.
FaultyRevocable(i) == status[i] = "CLAIMED" /\ WindowOver /\ mode[i] = "LIVE"

Revocable(i) == status[i] = "CLAIMED" /\ (Expired(i) \/ (WindowOver /\ mode[i] = "LIVE"))

\* list_intents and status, through _expire_stale: the only place where a
\* deadline that passed takes effect by itself.
Poll ==
  /\ status' = [i \in Alert |->
        IF status[i] \notin Blockable THEN status[i]
        ELSE IF Expired(i) THEN "EXPIRED"
        ELSE IF WindowOver /\ mode[i] = "LIVE" THEN "BLOCKED"
        ELSE status[i]]
  /\ revoked' = [i \in Alert |-> revoked[i] \/ Revocable(i)]
  /\ UNCHANGED <<clockVars, policy, liveEligible, alertVars, health, planVars,
                 lease, trades>>

-----------------------------------------------------------------------------
(* Time.                                                                     *)
Tick ==
  /\ now < MaxTime
  /\ now' = now + 1
  /\ today' \in {today, today + 1} \cap 0..MaxDay
  /\ UNCHANGED <<policy, liveEligible, alertVars, health, intentVars>>

Init ==
  /\ now = 0 /\ today = 0
  /\ policy \in [mode : {"SIMULATION"}, liveUntil : {0}, limits : Limits]
  /\ liveEligible = Alert
  /\ alert = [a \in Alert |-> Absent]
  /\ validUntil = [a \in Alert |-> 0]
  /\ health = [s \in Symbol |-> "CLOSED"]
  /\ mode = [i \in Alert |-> "SIMULATION"]
  /\ status = [i \in Alert |-> Absent]
  /\ createdDay = [i \in Alert |-> 0]
  /\ selection = [i \in Alert |-> NoSelection]
  /\ capital = [i \in Alert |-> NoCapital]
  /\ lease = [i \in Alert |-> 0]
  /\ revoked = [i \in Alert |-> FALSE]
  /\ trades = [i \in Alert |-> <<>>]

OperatorNext ==
  \/ \E minutes \in LiveMinutes, lim \in Limits : SwitchLive(minutes, lim)
  \/ \E lim \in Limits : SwitchSimulation(lim)
  \/ \E i \in Alert : Reject(i)

LiveLoopNext ==
  \/ \E a \in Alert, replay \in BOOLEAN : EmitAlert(a, replay)
  \/ \E a \in Alert : FromAlert(a)
  \/ \E s \in Symbol : Quarantine(s)
  \/ \E s \in Symbol, actionable \in BOOLEAN : AcceptBars(s, actionable)
  \/ MarketClose
  \/ \E a \in Alert : Recalibrate(a)

AgentNext ==
  \/ \E i \in Alert, power \in Power, price \in Price, g \in Grade, age \in Lag :
        AttestSelection(i, power, price, g, age)
  \/ \E i \in Alert, power \in Power, age \in Lag : AttestCapital(i, power, age)
  \/ \E i \in Alert : ClaimRefused(i) \/ ClaimExpired(i) \/ ClaimGranted(i)
  \/ \E i \in Alert, receipt \in Status : RecordReceipt(i, receipt)
  \/ \E i \in Alert : SimulationEntry(i) \/ SimulationExit(i)
  \/ Poll

Next == OperatorNext \/ LiveLoopNext \/ AgentNext \/ Tick

Spec == Init /\ [][Next]_vars

\* Time passes, and the agent polls the intents for as long as it runs.
Fairness == WF_vars(Tick) /\ WF_vars(Poll)

FairSpec == Spec /\ Fairness

-----------------------------------------------------------------------------
(* Properties.                                                               *)

\* Every variable stays in its type.
TypeOK ==
  /\ now \in 0..MaxTime /\ today \in 0..MaxDay
  /\ policy \in [mode : Modes, liveUntil : Nat, limits : Limits]
  /\ liveEligible \subseteq Alert
  /\ alert \in [Alert -> AlertStatus]
  /\ validUntil \in [Alert -> Nat]
  /\ health \in [Symbol -> Health]
  /\ mode \in [Alert -> Modes]
  /\ status \in [Alert -> Status \cup {Absent}]
  /\ createdDay \in [Alert -> 0..MaxDay]
  /\ selection \in [Alert -> [debit : Nat, grade : Nat, quoteAt : Int, recordedAt : Int]]
  /\ capital \in [Alert -> [observed : Int, power : Nat, required : Nat, passed : BOOLEAN]]
  /\ lease \in [Alert -> Nat]
  /\ revoked \in [Alert -> BOOLEAN]
  /\ trades \in [Alert -> Seq([event : TradeEvents, day : 0..MaxDay])]

\* An intent the agent may still turn into a broker order, now or by claiming it.
Executable(i) == status[i] = "READY" \/ (status[i] = "CLAIMED" /\ ~revoked[i])

\* An agent holds a claim whose lease is running.
Authority(i) == status[i] = "CLAIMED" /\ ~revoked[i] /\ lease[i] > now

Journal(i, e) == {k \in DOMAIN trades[i] : trades[i][k].event = e}

\* A fill the broker reported after it had acknowledged a cancellation.
LateFill(i) == \E k \in Journal(i, "ENTRY"), c \in Journal(i, "CANCELLED") : c < k

\* "Switching to Simulation ... revokes all outstanding placement authority"
\* (doc 27): whatever was created, claimed or renewed before, while the mode is
\* Simulation nothing can be placed, and simulated intents never can.
SimulationHasNoAuthority ==
  \A i \in Alert : Executable(i) => policy.mode = "LIVE" /\ mode[i] = "LIVE"

\* "A quarantined symbol blocks new Live intents and claims" and recovery must
\* not make an old plan executable: whatever may still be placed rests on an
\* alert that was never retired and on a symbol that is not quarantined.
BadDataHasNoAuthority ==
  \A i \in Alert : Executable(i) =>
    alert[i] = "ACTIVE" /\ health[SymbolOf[i]] # "QUARANTINED"

\* Every reselection clears the capital review (doc 30): a review on file is
\* always a review of the order that would be placed now.
ReviewMatchesPlan ==
  \A i \in Alert : capital[i] # NoCapital => capital[i].required = Required(i)

\* A claim rests on a capital review that passed, or was revoked by one that
\* failed, and its lease ends with the intent at the latest.
ClaimIsBacked ==
  \A i \in Alert : status[i] = "CLAIMED" =>
    /\ capital[i].passed \/ revoked[i]
    /\ capital[i].observed >= 0
    /\ 0 < lease[i] /\ lease[i] <= validUntil[i]

\* Exposure in the journal and the status tell the same story: a position is
\* entered at most once, closed at most once and after the entry, and the
\* intent is EXECUTED exactly while it is open.
JournalMatchesStatus ==
  \A i \in Alert :
    LET entries == Journal(i, "ENTRY")
        exits   == Journal(i, "EXIT")
    IN  /\ Cardinality(entries) = (IF status[i] \in {"EXECUTED", "CLOSED"} THEN 1 ELSE 0)
        /\ Cardinality(exits) = (IF status[i] = "CLOSED" THEN 1 ELSE 0)
        /\ \A k \in entries, x \in exits : k < x

\* The claims and fills of the intents created today, late fills apart (see
\* DailyFillsWithinCap), and the unexpired ones that are claimed or filled.
Exposed == {i \in Alert : /\ mode[i] = "LIVE" /\ createdDay[i] = today
                          /\ status[i] \in {"CLAIMED", "EXECUTED", "CLOSED"} /\ ~LateFill(i)}
Claims  == {i \in Alert : /\ mode[i] = "LIVE" /\ status[i] \in {"CLAIMED", "EXECUTED"}
                          /\ ~Expired(i) /\ ~LateFill(i)}

\* While the caps do not change, what is exposed of a day stays inside its cap.
DailyExposureWithinCap == MapThenSumSet(Charge, Exposed) <= policy.limits.daily

\* While the caps do not change, no more unexpired intents than the open-intent
\* limit are claimed or hold a position.
OpenExposureWithinCap == Cardinality(Claims) <= policy.limits.maxOpen

\* Whatever the operator changed since an intent was created, selected and
\* reviewed: a claim is granted (and only then is a lease written) inside the caps
\* that are in force, which count what other intents have claimed and filled
\* under earlier caps, and on a review that these caps would pass.
ClaimFitsCapsInForce ==
  [][\A i \in Alert : lease'[i] # lease[i] =>
       /\ Charge(i) <= policy.limits.perOrder
       /\ Charge(i) > 0 => MapThenSumSet(Charge, Exposed' \cup {i}) <= policy.limits.daily
       /\ Cardinality(Claims') <= policy.limits.maxOpen
       /\ Required(i) * 100 <= capital[i].power * policy.limits.fraction]_vars

\* No policy change or poll ever brings authority back, and whatever else
\* happens an intent only moves along the edges of its lifecycle.
Lifecycle == INSTANCE IntentLifecycle WITH
  Intent <- Alert, book <- mode, stage <- status,
  authority <- [i \in Alert |-> IF revoked[i] THEN "REVOKED"
                                ELSE IF lease[i] # 0 THEN "HELD" ELSE "NONE"]
ImplementsLifecycle == Lifecycle!LifecycleSpec

\* Placement authority ends by itself: by a claim's outcome, a refusal, or the
\* next poll after a deadline.
AuthorityEnds == \A i \in Alert : Executable(i) ~> ~Executable(i)

\* "Claims lease for at most two minutes and never beyond the intent or Live
\* window" (doc 27).
LeaseInsideLiveWindow ==
  \A i \in Alert : Authority(i) => lease[i] <= policy.liveUntil

\* "Completed trades continue to consume the daily risk budget for that trading
\* day" (doc 30): the live positions entered today stay inside the daily risk cap.
DailyFillsWithinCap ==
  MapThenSumSet(Charge,
    {i \in Alert : /\ mode[i] = "LIVE"
                   /\ \E k \in Journal(i, "ENTRY") : trades[i][k].day = today})
    <= policy.limits.daily
=============================================================================
