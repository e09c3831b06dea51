--------------------------- MODULE AutotradeProofs ---------------------------
(***************************************************************************)
(* Proofs about Autotrade: its type invariant, the inductive invariant     *)
(* IInv that four of its safety properties and the poll property follow    *)
(* from, and the refinement of the abstract lifecycle; then that the       *)
(* journal of receipts and the statuses agree, and that while the operator *)
(* keeps the caps, what was claimed and filled stays inside them.          *)
(***************************************************************************)
EXTENDS Autotrade, SumProofs, SequenceTheorems

\* The lease end is the earliest of its three candidates (claim).
LEMMA LeaseEndType ==
  ASSUME TypeOK, NEW i \in Alert
  PROVE  /\ LeaseEnd(i) \in {now + LeaseTicks, validUntil[i], policy.liveUntil}
         /\ LeaseEnd(i) <= now + LeaseTicks
         /\ LeaseEnd(i) <= validUntil[i]
         /\ LeaseEnd(i) <= policy.liveUntil
<1> DEFINE S == {now + LeaseTicks, validUntil[i], policy.liveUntil}
<1>1. now + LeaseTicks \in Nat /\ validUntil[i] \in Nat /\ policy.liveUntil \in Nat
  BY TimeAssumption DEF TypeOK
<1>2. \E x \in S : \A y \in S : x <= y
  BY <1>1
<1>3. Min(S) \in S /\ \A y \in S : Min(S) <= y
  BY <1>2 DEF Min
<1> QED BY <1>3 DEF LeaseEnd

USE DEF clockVars, alertVars, planVars, claimVars, intentVars

\* Halting intents keeps their statuses in type (_mutate_blocked).
LEMMA HaltType ==
  ASSUME TypeOK, NEW S, Halt(S)
  PROVE  /\ status' \in [Alert -> Status \cup {Absent}]
         /\ revoked' \in [Alert -> BOOLEAN]
<1> QED BY DEF TypeOK, Halt, Status, Terminal, Blockable

\* Creating an intent keeps its fields in type (on_alert).
LEMMA CreateType ==
  ASSUME TypeOK, NEW a \in Alert, NEW st, NEW t, CreateIntent(a, st, t)
  PROVE  /\ mode' \in [Alert -> Modes]
         /\ status' \in [Alert -> Status \cup {Absent}]
         /\ createdDay' \in [Alert -> 0..MaxDay]
         /\ UNCHANGED <<selection, capital, claimVars, trades>>
<1> QED BY DEF TypeOK, CreateIntent, Status, Terminal, Blockable, Modes, EffectiveMode

\* Appending a receipt keeps the journal in type (record_receipt).
LEMMA JournalType ==
  ASSUME TypeOK, NEW i \in Alert, NEW e \in TradeEvents,
         trades' = [trades EXCEPT ![i] = Append(@, [event |-> e, day |-> today])]
  PROVE  trades' \in [Alert -> Seq([event : TradeEvents, day : 0..MaxDay])]
<1>1. [event |-> e, day |-> today] \in [event : TradeEvents, day : 0..MaxDay]
  BY DEF TypeOK
<1>2. trades[i] \in Seq([event : TradeEvents, day : 0..MaxDay])
  BY DEF TypeOK
<1>3. Append(trades[i], [event |-> e, day |-> today])
        \in Seq([event : TradeEvents, day : 0..MaxDay])
  BY <1>1, <1>2, AppendProperties
<1> QED BY <1>3 DEF TypeOK

\* The operator's calls keep every variable in type.
LEMMA OperatorType ==
  ASSUME TypeOK, OperatorNext
  PROVE  TypeOK'
<1>1. ASSUME NEW minutes \in LiveMinutes, NEW lim \in Limits, SwitchLive(minutes, lim)
      PROVE  TypeOK'
  <2>1. now + minutes \in Nat
    BY PolicyAssumption, TimeAssumption DEF TypeOK
  <2> QED BY <1>1, <2>1 DEF TypeOK, SwitchLive, Modes
<1>2. ASSUME NEW lim \in Limits, SwitchSimulation(lim)
      PROVE  TypeOK'
  <2>1. Halt(LiveIntents)
    BY <1>2 DEF SwitchSimulation
  <2> QED BY <1>2, <2>1, HaltType DEF TypeOK, SwitchSimulation, Modes
<1>3. ASSUME NEW i \in Alert, Reject(i)
      PROVE  TypeOK'
  <2>1. CASE Halt({i})
    BY <1>3, <2>1, HaltType DEF TypeOK, Reject
  <2>2. CASE status' = [status EXCEPT ![i] = "REJECTED"] /\ UNCHANGED revoked
    BY <1>3, <2>2 DEF TypeOK, Reject, Status, Terminal
  <2> QED BY <1>3, <2>1, <2>2 DEF Reject
<1> QED BY <1>1, <1>2, <1>3 DEF OperatorNext

\* The live loop's calls keep every variable in type.
LEMMA LiveLoopType ==
  ASSUME TypeOK, LiveLoopNext
  PROVE  TypeOK'
<1>1. ASSUME NEW a \in Alert, NEW replay \in BOOLEAN, EmitAlert(a, replay)
      PROVE  TypeOK'
  <2>1. /\ alert' \in [Alert -> AlertStatus]
        /\ validUntil' \in [Alert -> Nat]
    <3>1. now + Validity[a] \in Nat
      BY AlertAssumption, TimeAssumption DEF TypeOK
    <3>2. alert' \in [Alert -> AlertStatus]
      BY <1>1 DEF TypeOK, EmitAlert, AlertStatus
    <3>3. validUntil' = [validUntil EXCEPT ![a] = now + Validity[a]]
      BY <1>1 DEF EmitAlert
    <3> QED BY <3>1, <3>2, <3>3 DEF TypeOK
  <2>2. CASE UNCHANGED intentVars
    BY <1>1, <2>1, <2>2 DEF TypeOK, EmitAlert
  <2>3. ASSUME NEW st, NEW t, CreateIntent(a, st, t)
        PROVE  TypeOK'
    BY <1>1, <2>1, <2>3, CreateType DEF TypeOK, EmitAlert
  <2> QED BY <1>1, <2>2, <2>3 DEF EmitAlert
<1>2. ASSUME NEW a \in Alert, FromAlert(a)
      PROVE  TypeOK'
  <2>1. CASE CreateIntent(a, alert[a], validUntil[a])
    BY <1>2, <2>1, CreateType DEF TypeOK, FromAlert
  <2>2. CASE Halt({a}) /\ UNCHANGED <<planVars, lease, trades>>
    BY <1>2, <2>2, HaltType DEF TypeOK, FromAlert
  <2> QED BY <1>2, <2>1, <2>2 DEF FromAlert
<1>3. ASSUME NEW s \in Symbol, Quarantine(s)
      PROVE  TypeOK'
  <2>1. Halt({i \in Alert : SymbolOf[i] = s})
    BY <1>3 DEF Quarantine
  <2> QED BY <1>3, <2>1, HaltType DEF TypeOK, Quarantine, Health, AlertStatus
<1>4. CASE \E s \in Symbol, actionable \in BOOLEAN : AcceptBars(s, actionable)
  BY <1>4 DEF TypeOK, AcceptBars, Health
<1>5. CASE MarketClose
  BY <1>5 DEF TypeOK, MarketClose, Health
<1>6. CASE \E a \in Alert : Recalibrate(a)
  BY <1>6 DEF TypeOK, Recalibrate
<1> QED BY <1>1, <1>2, <1>3, <1>4, <1>5, <1>6 DEF LiveLoopNext

\* The agent's calls keep every variable in type.
LEMMA AgentType ==
  ASSUME TypeOK, AgentNext
  PROVE  TypeOK'
<1>1. ASSUME NEW i \in Alert, NEW power \in Power, NEW price \in Price, NEW g \in Grade,
             NEW age \in Lag, AttestSelection(i, power, price, g, age)
      PROVE  TypeOK'
  <2>1. PICK quantity \in 1..policy.limits.perOrder : 
          selection' = [selection EXCEPT ![i] =
              [debit |-> quantity * price, grade |-> g,
               quoteAt |-> now - age, recordedAt |-> now]]
    BY <1>1 DEF AttestSelection
  <2>2. quantity * price \in Nat /\ g \in Nat /\ now - age \in Int /\ now \in Int
    BY RequestAssumption, PolicyAssumption, TimeAssumption DEF TypeOK, LimitRecord
  <2>3. capital' \in [Alert -> [observed : Int, power : Nat, required : Nat, passed : BOOLEAN]]
    BY <1>1 DEF TypeOK, AttestSelection, WithoutReview, NoCapital
  <2> QED BY <1>1, <2>1, <2>2, <2>3 DEF TypeOK, AttestSelection
<1>2. ASSUME NEW i \in Alert, NEW power \in Power, NEW age \in Lag,
             AttestCapital(i, power, age)
      PROVE  TypeOK'
  <2>1. status' \in [Alert -> Status \cup {Absent}] /\ revoked' \in [Alert -> BOOLEAN]
    <3>1. CASE Halt({i})
      BY <3>1, HaltType
    <3>2. CASE UNCHANGED <<status, revoked>>
      BY <3>2 DEF TypeOK
    <3> QED BY <1>2, <3>1, <3>2 DEF AttestCapital
  <2>2. Required(i) \in Nat /\ power \in Nat /\ now - age \in Int
    BY RequestAssumption, AlertAssumption, TimeAssumption DEF TypeOK, Required
  <2>3. capital' \in [Alert -> [observed : Int, power : Nat, required : Nat, passed : BOOLEAN]]
    <3> DEFINE fits == Required(i) * 100 <= power * policy.limits.fraction
    <3>1. fits \in BOOLEAN
      OBVIOUS
    <3>2. capital' = [capital EXCEPT ![i] =
            [observed |-> now - age, power |-> power, required |-> Required(i),
             passed |-> fits]]
      BY <1>2 DEF AttestCapital
    <3> HIDE DEF fits
    <3> QED BY <2>2, <3>1, <3>2 DEF TypeOK
  <2> QED BY <1>2, <2>1, <2>3 DEF TypeOK, AttestCapital
<1>3. ASSUME NEW i \in Alert, ClaimRefused(i)
      PROVE  TypeOK'
  <2>1. Halt({i})
    BY <1>3 DEF ClaimRefused
  <2> QED BY <1>3, <2>1, HaltType DEF TypeOK, ClaimRefused
<1>4. CASE \E i \in Alert : ClaimExpired(i)
  BY <1>4 DEF TypeOK, ClaimExpired, Status, Terminal
<1>5. ASSUME NEW i \in Alert, ClaimGranted(i)
      PROVE  TypeOK'
  <2>1. LeaseEnd(i) \in {now + LeaseTicks, validUntil[i], policy.liveUntil}
    BY LeaseEndType
  <2>2. LeaseEnd(i) \in Nat
    BY <2>1, TimeAssumption DEF TypeOK
  <2> QED BY <1>5, <2>2 DEF TypeOK, ClaimGranted, Status
<1>6. ASSUME NEW i \in Alert, NEW receipt \in Status, RecordReceipt(i, receipt)
      PROVE  TypeOK'
  <2>1. receipt \in {"EXECUTED", "REJECTED", "FAILED", "CANCELLED", "CLOSED"}
    BY <1>6 DEF RecordReceipt, StatusAfter, ReceiptAllowed
  <2>2. TradeEvent(receipt) \in TradeEvents
    BY <2>1 DEF TradeEvent, TradeEvents
  <2>3. trades' \in [Alert -> Seq([event : TradeEvents, day : 0..MaxDay])]
    BY <1>6, <2>2, JournalType DEF RecordReceipt
  <2> QED BY <1>6, <2>1, <2>3 DEF TypeOK, RecordReceipt, StatusAfter, Status, Terminal
<1>7. ASSUME NEW i \in Alert, SimulationEntry(i)
      PROVE  TypeOK'
  <2>1. trades' \in [Alert -> Seq([event : TradeEvents, day : 0..MaxDay])]
    BY <1>7, JournalType DEF SimulationEntry, TradeEvents
  <2> QED BY <1>7, <2>1 DEF TypeOK, SimulationEntry, Status
<1>8. ASSUME NEW i \in Alert, SimulationExit(i)
      PROVE  TypeOK'
  <2>1. trades' \in [Alert -> Seq([event : TradeEvents, day : 0..MaxDay])]
    BY <1>8, JournalType DEF SimulationExit, TradeEvents
  <2> QED BY <1>8, <2>1 DEF TypeOK, SimulationExit, Status, Terminal
<1>9. CASE Poll
  BY <1>9 DEF TypeOK, Poll, Status, Terminal, Blockable, Revocable
<1> QED BY <1>1, <1>2, <1>3, <1>4, <1>5, <1>6, <1>7, <1>8, <1>9 DEF AgentNext

\* Every step keeps every variable in type.
LEMMA TypeStep == TypeOK /\ [Next]_vars => TypeOK'
<1> SUFFICES ASSUME TypeOK, [Next]_vars
             PROVE  TypeOK'
  OBVIOUS
<1>1. CASE Tick
  <2>1. now' \in 0..MaxTime /\ today' \in 0..MaxDay
    BY <1>1, TimeAssumption DEF TypeOK, Tick
  <2> QED BY <1>1, <2>1 DEF TypeOK, Tick
<1>2. CASE UNCHANGED vars
  BY <1>2 DEF TypeOK, vars
<1> QED BY <1>1, <1>2, OperatorType, LiveLoopType, AgentType DEF Next

\* The initial state is in type.
LEMMA TypeInit == Init => TypeOK
<1> QED BY AlertAssumption, PolicyAssumption, TimeAssumption
        DEF Init, TypeOK, Modes, AlertStatus, Health, NoSelection, NoCapital

\* Every reachable state is in type, whatever the caps, the alerts and the
\* length of the run: no handler leaves a status, a lease or a journal entry
\* outside its enumeration.
THEOREM TypeCorrect == Spec => []TypeOK
<1> QED BY TypeInit, TypeStep, PTL DEF Spec

-----------------------------------------------------------------------------
\* What may be placed is live, on an active alert and on good data.
Armed(i) ==
  Executable(i) =>
    /\ policy.mode = "LIVE" /\ mode[i] = "LIVE"
    /\ alert[i] = "ACTIVE" /\ health[SymbolOf[i]] # "QUARANTINED"

\* A review on file is dated and made of the planned order.
Reviewed(i) ==
  capital[i] # NoCapital => capital[i].required = Required(i) /\ capital[i].observed >= 0

\* A claim has a review and a lease inside the intent's validity.
Backed(i) ==
  status[i] = "CLAIMED" =>
    /\ capital[i].passed \/ revoked[i]
    /\ capital[i] # NoCapital
    /\ 0 < lease[i] /\ lease[i] <= validUntil[i]

\* An intent has an alert: CreateIntent is called for listed alerts only.
Listed(i) == status[i] # Absent => alert[i] # Absent

Sound(i) == Armed(i) /\ Reviewed(i) /\ Backed(i) /\ Listed(i)

\* The inductive invariant. Backed needs the dated review, and the steps that
\* create intents need Listed: an alert enters the list before its intent exists.
IInv == TypeOK /\ \A i \in Alert : Sound(i)

\* _mutate_blocked takes the authority of every intent it walks through and
\* leaves reviews and claims as sound as they were.
LEMMA HaltSound ==
  ASSUME IInv, NEW S, Halt(S), NEW i \in Alert,
         UNCHANGED <<planVars, lease, trades, validUntil>>,
         alert'[i] = Absent <=> alert[i] = Absent
  PROVE  /\ Executable(i)' => Executable(i) /\ i \notin S
         /\ Reviewed(i)' /\ Backed(i)' /\ Listed(i)'
<1>1. Executable(i)' => Executable(i) /\ i \notin S
  BY DEF Halt, Executable, Blockable
<1>2. Reviewed(i)'
  BY DEF IInv, Sound, Reviewed, Required
<1>3. Backed(i)'
  BY DEF IInv, Sound, Backed, Halt, Blockable
<1>4. Listed(i)'
  BY DEF IInv, Sound, Listed, Halt, Blockable, Absent
<1> QED BY <1>1, <1>2, <1>3, <1>4

\* The operator's calls keep every intent sound.
LEMMA OperatorSound ==
  ASSUME IInv, OperatorNext, NEW i \in Alert
  PROVE  Sound(i)'
<1> USE DEF IInv, Sound
<1>1. ASSUME NEW minutes \in LiveMinutes, NEW lim \in Limits, SwitchLive(minutes, lim)
      PROVE  Sound(i)'
  BY <1>1 DEF SwitchLive, Armed, Executable, Reviewed, Required, Backed, Listed
<1>2. ASSUME NEW lim \in Limits, SwitchSimulation(lim)
      PROVE  Sound(i)'
  <2>1. Halt(LiveIntents)
    BY <1>2 DEF SwitchSimulation
  <2>2. Executable(i)' => Executable(i) /\ i \notin LiveIntents
    BY <1>2, <2>1, HaltSound DEF SwitchSimulation
  <2>3. Armed(i)'
    BY <2>2 DEF Armed, LiveIntents
  <2> QED BY <1>2, <2>1, <2>3, HaltSound DEF SwitchSimulation
<1>3. ASSUME NEW j \in Alert, Reject(j)
      PROVE  Sound(i)'
  <2>1. CASE Halt({j})
    <3>1. Executable(i)' => Executable(i)
      BY <1>3, <2>1, HaltSound DEF Reject
    <3>2. Armed(i)'
      BY <1>3, <3>1 DEF Armed, Reject
    <3> QED BY <1>3, <2>1, <3>2, HaltSound DEF Reject
  <2>2. CASE status[j] \in Blockable /\ status' = [status EXCEPT ![j] = "REJECTED"] /\ UNCHANGED revoked
    BY <1>3, <2>2 DEF TypeOK, Reject, Armed, Executable, Reviewed, Required, Backed, Listed,
       Blockable, Absent
  <2> QED BY <1>3, <2>1, <2>2 DEF Reject
<1> QED BY <1>1, <1>2, <1>3 DEF OperatorNext

\* An intent is created sound: it is armed only when the window is open, the
\* alert active and the gate open (on_alert).
LEMMA CreateSound ==
  ASSUME IInv, NEW a \in Alert, NEW st, NEW t, CreateIntent(a, st, t),
         st # Absent, status[a] = Absent,
         NEW i \in Alert,
         alert' = alert \/ alert' = [alert EXCEPT ![a] = st],
         a # i \/ alert'[i] = st,
         policy' = policy, health' = health,
         a = i \/ validUntil'[i] = validUntil[i]
  PROVE  Sound(i)'
<1> USE DEF IInv, Sound
<1>1. CASE i = a
  <2>1. ~Executable(i)' \/ (EffectiveLive /\ Eligible(a, st, t, TRUE))
    BY <1>1 DEF CreateIntent, Executable, TypeOK
  <2>2. Armed(i)'
    BY <1>1, <2>1 DEF CreateIntent, EffectiveLive, EffectiveMode, Eligible, Usable, GateOpen, Armed, TypeOK
  <2>3. Reviewed(i)' /\ Backed(i)' /\ Listed(i)'
    BY <1>1 DEF CreateIntent, Reviewed, Required, Backed, Listed, TypeOK
  <2> QED BY <2>2, <2>3
<1>2. CASE i # a
  BY <1>2 DEF CreateIntent, Armed, Executable, Reviewed, Required, Backed, Listed, TypeOK
<1> QED BY <1>1, <1>2

\* The live loop's calls keep every intent sound: a quarantine disarms the
\* intents of its symbol in the step that retires their alerts.
LEMMA LiveLoopSound ==
  ASSUME IInv, LiveLoopNext, NEW i \in Alert
  PROVE  Sound(i)'
<1> USE DEF IInv, Sound
<1>1. ASSUME NEW a \in Alert, NEW replay \in BOOLEAN, EmitAlert(a, replay)
      PROVE  Sound(i)'
  <2>1. status[a] = Absent
    BY <1>1 DEF EmitAlert, Listed
  <2> DEFINE st == IF a \in Research THEN "SHADOW" ELSE "ACTIVE"
             t  == now + Validity[a]
  <2>2. CASE CreateIntent(a, st, t)
    BY <1>1, <2>1, <2>2, CreateSound DEF EmitAlert, TypeOK, Absent
  <2>3. CASE UNCHANGED intentVars
    BY <1>1, <2>1, <2>3 DEF EmitAlert, Armed, Executable, Reviewed, Required, Backed, Listed, TypeOK, Absent
  <2> QED BY <1>1, <2>2, <2>3 DEF EmitAlert
<1>2. ASSUME NEW a \in Alert, FromAlert(a)
      PROVE  Sound(i)'
  <2>1. CASE status[a] = Absent /\ CreateIntent(a, alert[a], validUntil[a])
    BY <1>2, <2>1, CreateSound DEF FromAlert
  <2>2. CASE Halt({a}) /\ UNCHANGED <<planVars, lease, trades>>
    <3>1. Executable(i)' => Executable(i)
      BY <1>2, <2>2, HaltSound DEF FromAlert
    <3>2. Armed(i)'
      BY <1>2, <2>2, <3>1 DEF Armed, FromAlert
    <3> QED BY <1>2, <2>2, <3>2, HaltSound DEF FromAlert
  <2> QED BY <1>2, <2>1, <2>2 DEF FromAlert
<1>3. ASSUME NEW s \in Symbol, Quarantine(s)
      PROVE  Sound(i)'
  <2> DEFINE S == {j \in Alert : SymbolOf[j] = s}
  <2>1. Halt(S)
    BY <1>3 DEF Quarantine
  <2>2. alert'[i] = Absent <=> alert[i] = Absent
    BY <1>3 DEF Quarantine, Absent
  <2>3. Executable(i)' => Executable(i) /\ SymbolOf[i] # s
    BY <1>3, <2>1, <2>2, HaltSound DEF Quarantine
  <2>4. Armed(i)'
    BY <1>3, <2>3, AlertAssumption DEF Armed, Quarantine, TypeOK
  <2> QED BY <1>3, <2>1, <2>2, <2>4, HaltSound DEF Quarantine
<1>4. ASSUME NEW s \in Symbol, NEW actionable \in BOOLEAN, AcceptBars(s, actionable)
      PROVE  Sound(i)'
  BY <1>4, AlertAssumption
     DEF AcceptBars, Armed, Executable, Reviewed, Required, Backed, Listed, TypeOK
<1>5. CASE MarketClose
  BY <1>5, AlertAssumption
     DEF MarketClose, Armed, Executable, Reviewed, Required, Backed, Listed, TypeOK
<1>6. ASSUME NEW a \in Alert, Recalibrate(a)
      PROVE  Sound(i)'
  BY <1>6 DEF Recalibrate, Armed, Executable, Reviewed, Required, Backed, Listed
<1> QED BY <1>1, <1>2, <1>3, <1>4, <1>5, <1>6 DEF LiveLoopNext

\* The agent's calls keep every intent sound; none of them arms an intent.
LEMMA AgentSound ==
  ASSUME IInv, AgentNext, NEW i \in Alert
  PROVE  Sound(i)'
<1> USE DEF IInv, Sound
<1>1. ASSUME NEW j \in Alert, NEW power \in Power, NEW price \in Price, NEW g \in Grade,
             NEW age \in Lag, AttestSelection(j, power, price, g, age)
      PROVE  Sound(i)'
  <2>1. /\ status[j] # "CLAIMED"
        /\ capital' = [capital EXCEPT ![j] = NoCapital]
        /\ i # j => selection'[i] = selection[i]
    BY <1>1 DEF AttestSelection, WithoutReview, TypeOK
  <2>2. Reviewed(i)' /\ Backed(i)'
    BY <1>1, <2>1 DEF AttestSelection, Reviewed, Required, Backed, TypeOK
  <2>3. Armed(i)' /\ Listed(i)'
    BY <1>1 DEF AttestSelection, Armed, Executable, Listed
  <2> QED BY <2>2, <2>3
<1>2. ASSUME NEW j \in Alert, NEW power \in Power, NEW age \in Lag,
             AttestCapital(j, power, age)
      PROVE  Sound(i)'
  <2> DEFINE fits == Required(j) * 100 <= power * policy.limits.fraction
  <2>1. /\ capital'[j].required = Required(j)
        /\ capital'[j].observed = now - age
        /\ capital'[j].passed = fits
        /\ i # j => capital'[i] = capital[i]
    BY <1>2 DEF AttestCapital, TypeOK
  <2>2. now - age >= 0 /\ now - age # -1
    BY <1>2, RequestAssumption, TimeAssumption DEF AttestCapital, TypeOK
  <2>3. IF fits THEN UNCHANGED <<status, revoked>> ELSE Halt({j})
    BY <1>2 DEF AttestCapital
  <2>4. Executable(i)' => Executable(i)
    BY <2>3 DEF Halt, Executable, Blockable
  <2>5. (status'[i] = "CLAIMED" <=> status[i] = "CLAIMED") /\ (revoked[i] => revoked'[i])
    BY <2>3 DEF Halt, Blockable, TypeOK
  <2>6. status[j] = "CLAIMED" => fits \/ revoked'[j]
    BY <2>3 DEF Halt, TypeOK
  <2>7. status'[i] # Absent => status[i] # Absent
    BY <2>3 DEF Halt, Blockable, Absent, TypeOK
  <2>8. Reviewed(i)'
    BY <1>2, <2>1, <2>2 DEF AttestCapital, Reviewed, Required
  <2>9. Backed(i)'
    <3>1. capital'[j] # NoCapital
      BY <2>1, <2>2 DEF NoCapital
    <3>2. lease' = lease /\ validUntil' = validUntil
      BY <1>2 DEF AttestCapital
    <3>3. CASE i = j
      BY <2>1, <2>5, <2>6, <3>1, <3>2, <3>3 DEF Backed
    <3>4. CASE i # j
      BY <2>1, <2>5, <3>2, <3>4 DEF Backed
    <3> QED BY <3>3, <3>4
  <2>10. Armed(i)' /\ Listed(i)'
    BY <1>2, <2>4, <2>7 DEF AttestCapital, Armed, Listed
  <2> QED BY <2>8, <2>9, <2>10
<1>3. ASSUME NEW j \in Alert, ClaimRefused(j)
      PROVE  Sound(i)'
  <2>1. Executable(i)' => Executable(i)
    BY <1>3, HaltSound DEF ClaimRefused
  <2>2. Armed(i)'
    BY <1>3, <2>1 DEF Armed, ClaimRefused
  <2> QED BY <1>3, <2>2, HaltSound DEF ClaimRefused
<1>4. ASSUME NEW j \in Alert, ClaimExpired(j)
      PROVE  Sound(i)'
  BY <1>4 DEF ClaimExpired, Armed, Executable, Reviewed, Required, Backed, Listed, TypeOK, Absent
<1>5. ASSUME NEW j \in Alert, ClaimGranted(j)
      PROVE  Sound(i)'
  <2>1. Executable(j)
    BY <1>5 DEF ClaimGranted, Claimable, Unclaimed, Executable
  <2>2. capital[j] # NoCapital /\ capital[j].passed
    BY <1>5 DEF ClaimGranted, CapitalAllows, ReviewPasses
  <2>3. 0 < LeaseEnd(j) /\ LeaseEnd(j) <= validUntil[j]
    <3>1. /\ LeaseEnd(j) \in {now + LeaseTicks, validUntil[j], policy.liveUntil}
          /\ LeaseEnd(j) <= validUntil[j]
      BY LeaseEndType
    <3>2. now \in Nat /\ validUntil[j] \in Nat /\ policy.liveUntil \in Nat
      BY TimeAssumption DEF TypeOK
    <3>3. validUntil[j] > now /\ policy.liveUntil > now
      BY <1>5, <3>2 DEF ClaimGranted, EffectiveLive, Expired
    <3> QED BY <3>1, <3>2, <3>3, TimeAssumption
  <2>4. Backed(i)'
    BY <1>5, <2>2, <2>3 DEF ClaimGranted, Backed, TypeOK
  <2>5. Armed(i)' /\ Reviewed(i)' /\ Listed(i)'
    BY <1>5, <2>1 DEF ClaimGranted, Armed, Executable, Reviewed, Required, Listed, Absent, TypeOK
  <2> QED BY <2>4, <2>5
<1>6. ASSUME NEW j \in Alert, NEW receipt \in Status, RecordReceipt(j, receipt)
      PROVE  Sound(i)'
  <2>1. receipt \in {"EXECUTED", "REJECTED", "FAILED", "CANCELLED", "CLOSED"}
    BY <1>6 DEF RecordReceipt, StatusAfter, ReceiptAllowed
  <2>2. status[j] # Absent
    BY <1>6 DEF RecordReceipt, StatusAfter, ReceiptAllowed, Absent
  <2> QED BY <1>6, <2>1, <2>2
     DEF RecordReceipt, StatusAfter, Armed, Executable, Reviewed, Required, Backed, Listed, TypeOK
<1>7. ASSUME NEW j \in Alert, SimulationEntry(j) \/ SimulationExit(j)
      PROVE  Sound(i)'
  <2>1. /\ status[j] # Absent
        /\ \E st \in {"EXECUTED", "CLOSED"} : status' = [status EXCEPT ![j] = st]
        /\ UNCHANGED <<policy, alertVars, health, planVars, claimVars>>
    BY <1>7 DEF SimulationEntry, SimulationExit, Absent
  <2> QED BY <2>1 DEF Armed, Executable, Reviewed, Required, Backed, Listed, TypeOK
<1>8. CASE Poll
  BY <1>8 DEF Poll, Armed, Executable, Reviewed, Required, Backed, Listed, TypeOK,
              Blockable, Absent
<1> QED BY <1>1, <1>2, <1>3, <1>4, <1>5, <1>6, <1>7, <1>8 DEF AgentNext

\* Every step keeps every intent sound.
LEMMA SoundStep == IInv /\ [Next]_vars => IInv'
<1> SUFFICES ASSUME IInv, [Next]_vars
             PROVE  IInv'
  OBVIOUS
<1>1. TypeOK'
  BY TypeStep DEF IInv
<1>2. ASSUME NEW i \in Alert
      PROVE  Sound(i)'
  <2>1. CASE Tick
    BY <2>1 DEF IInv, Sound, Tick, Armed, Executable, Reviewed, Required, Backed, Listed
  <2>2. CASE UNCHANGED vars
    BY <2>2 DEF IInv, Sound, vars, Armed, Executable, Reviewed, Required, Backed, Listed
  <2> QED BY <2>1, <2>2, OperatorSound, LiveLoopSound, AgentSound DEF Next
<1> QED BY <1>1, <1>2 DEF IInv

\* Every intent is sound initially, because there is none.
LEMMA InvInit == Init => IInv
<1>1. Init => TypeOK
  BY TypeInit
<1>2. Init => \A i \in Alert : Sound(i)
  BY DEF Init, Sound, Armed, Executable, Reviewed, Backed, Listed, Absent
<1> QED BY <1>1, <1>2 DEF IInv

\* The inductive invariant holds in every reachable state.
THEOREM IntentsSound == Spec => []IInv
<1> QED BY InvInit, SoundStep, PTL DEF Spec

\* In Simulation nothing can be placed, for any number of intents, any caps and
\* any interleaving of the operator, the live loop and the agent.
THEOREM SimulationSafe == Spec => []SimulationHasNoAuthority
<1>1. IInv => SimulationHasNoAuthority
  BY DEF IInv, Sound, Armed, SimulationHasNoAuthority
<1> QED BY <1>1, IntentsSound, PTL

\* Whatever may be placed rests on an active alert of a symbol that is not
\* quarantined.
THEOREM BadDataSafe == Spec => []BadDataHasNoAuthority
<1>1. IInv => BadDataHasNoAuthority
  BY DEF IInv, Sound, Armed, BadDataHasNoAuthority
<1> QED BY <1>1, IntentsSound, PTL

\* A capital review on file is a review of the order as it is planned now.
THEOREM ReviewsMatch == Spec => []ReviewMatchesPlan
<1>1. IInv => ReviewMatchesPlan
  BY DEF IInv, Sound, Reviewed, ReviewMatchesPlan
<1> QED BY <1>1, IntentsSound, PTL

\* A claim rests on a review, and its lease ends with the intent at the latest.
THEOREM ClaimsBacked == Spec => []ClaimIsBacked
<1>1. IInv => ClaimIsBacked
  BY DEF IInv, Sound, Reviewed, Backed, ClaimIsBacked
<1> QED BY <1>1, IntentsSound, PTL

\* After list_intents nothing is executable outside its window: what the agent
\* relies on when it fetches the intents again before it places an order.
THEOREM PollReconciles ==
  ASSUME IInv, Poll, NEW i \in Alert, Executable(i)'
  PROVE  EffectiveLive /\ ~Expired(i)
<1>1. Executable(i) /\ policy.mode = "LIVE" /\ mode[i] = "LIVE"
  BY DEF IInv, Sound, Armed, Poll, Executable, Blockable, TypeOK
<1>2. CASE status[i] = "READY"
  BY <1>1, <1>2 DEF IInv, TypeOK, Poll, Executable, Blockable, WindowOver
<1>3. CASE status[i] = "CLAIMED"
  BY <1>1, <1>3 DEF IInv, TypeOK, Poll, Executable, Blockable, Revocable, WindowOver
<1> QED BY <1>1, <1>2, <1>3 DEF Executable

-----------------------------------------------------------------------------
(* The refinement of IntentLifecycle.  A step of the manager may move many *)
(* intents; each of them takes one lifecycle step.                         *)

\* Work that was never claimed carries no trace of a claim.
Fresh(i) == status[i] \in Blockable \cup {Absent} => ~revoked[i] /\ lease[i] = 0

\* The invariant the mapping rests on.
FInv == IInv /\ \A i \in Alert : Fresh(i)

\* One step of the life of intent i.
Moves(i) ==
  \/ Lifecycle!Same(i)  \/ Lifecycle!Create(i) \/ Lifecycle!Retire(i) \/ Lifecycle!Simulate(i)
  \/ Lifecycle!Grant(i) \/ Lifecycle!Revoke(i) \/ Lifecycle!Answer(i)

Good(i) == Moves(i) /\ Fresh(i)'

\* An intent whose fields did not change takes a stuttering step.
LEMMA StillGood ==
  ASSUME FInv, NEW i \in Alert, mode'[i] = mode[i], status'[i] = status[i],
         revoked'[i] = revoked[i], lease'[i] = lease[i]
  PROVE  Good(i)
<1>1. Lifecycle!Same(i)
  BY DEF Lifecycle!Same
<1> QED BY <1>1 DEF Good, Moves, Fresh, FInv

\* Halting an intent retires unclaimed work or revokes a claim
\* (_mutate_blocked, _mutate_revoked_claim).
LEMMA HaltGood ==
  ASSUME FInv, NEW S, Halt(S), mode' = mode, lease' = lease, NEW i \in Alert
  PROVE  Good(i)
<1> USE DEF FInv, IInv, TypeOK
<1>1. Fresh(i)'
  BY DEF Halt, Fresh, Blockable, Absent
<1>2. CASE i \in S /\ status[i] \in Blockable
  <2>1. Lifecycle!Retire(i)
    BY <1>2 DEF Halt, Lifecycle!Retire, Lifecycle!Retired, Blockable
  <2> QED BY <1>1, <2>1 DEF Good, Moves
<1>3. CASE i \in S /\ status[i] = "CLAIMED" /\ ~revoked[i]
  <2>1. lease[i] # 0
    BY <1>3 DEF Sound, Backed
  <2>2. Lifecycle!Revoke(i)
    BY <1>3, <2>1 DEF Halt, Lifecycle!Revoke, Blockable
  <2> QED BY <1>1, <2>2 DEF Good, Moves
<1>4. CASE /\ ~(i \in S /\ status[i] \in Blockable)
           /\ ~(i \in S /\ status[i] = "CLAIMED" /\ ~revoked[i])
  BY <1>4, StillGood DEF Halt
<1> QED BY <1>2, <1>3, <1>4

\* Rejecting or expiring unclaimed work retires it.
LEMMA RetireGood ==
  ASSUME FInv, NEW j \in Alert, NEW st \in Lifecycle!Retired, status[j] \in Blockable,
         status' = [status EXCEPT ![j] = st],
         UNCHANGED <<mode, lease, revoked>>, NEW i \in Alert
  PROVE  Good(i)
<1>1. CASE i = j
  <2>1. Lifecycle!Retire(i) /\ Fresh(i)'
    BY <1>1 DEF Lifecycle!Retire, Lifecycle!Retired, Blockable, Absent, Fresh, FInv, IInv, TypeOK
  <2> QED BY <2>1 DEF Good, Moves
<1>2. CASE i # j
  BY <1>2, StillGood DEF FInv, IInv, TypeOK
<1> QED BY <1>1, <1>2

\* on_alert creates an intent in one book, without authority.
LEMMA CreateGood ==
  ASSUME FInv, NEW a \in Alert, NEW st, NEW t, CreateIntent(a, st, t),
         status[a] = Absent, NEW i \in Alert
  PROVE  Good(i)
<1> USE DEF FInv, IInv, TypeOK
<1>1. CASE i = a
  <2>1. Lifecycle!Create(i)
    BY <1>1 DEF CreateIntent, EffectiveMode, Lifecycle!Create, Fresh, Absent, Modes
  <2>2. Fresh(i)'
    BY <1>1 DEF CreateIntent, Fresh
  <2> QED BY <2>1, <2>2 DEF Good, Moves
<1>2. CASE i # a
  BY <1>2, StillGood DEF CreateIntent
<1> QED BY <1>1, <1>2

\* The operator's calls are lifecycle steps.
LEMMA OperatorGood ==
  ASSUME FInv, OperatorNext, NEW i \in Alert
  PROVE  Good(i)
<1>1. ASSUME NEW minutes \in LiveMinutes, NEW lim \in Limits, SwitchLive(minutes, lim)
      PROVE  Good(i)
  BY <1>1, StillGood DEF SwitchLive
<1>2. ASSUME NEW lim \in Limits, SwitchSimulation(lim)
      PROVE  Good(i)
  BY <1>2, HaltGood DEF SwitchSimulation
<1>3. ASSUME NEW j \in Alert, Reject(j)
      PROVE  Good(i)
  <2>1. CASE Halt({j})
    BY <1>3, <2>1, HaltGood DEF Reject
  <2>2. CASE status[j] \in Blockable /\ status' = [status EXCEPT ![j] = "REJECTED"] /\ UNCHANGED revoked
    BY <1>3, <2>2, RetireGood DEF Reject, Lifecycle!Retired
  <2> QED BY <1>3, <2>1, <2>2 DEF Reject
<1> QED BY <1>1, <1>2, <1>3 DEF OperatorNext

\* The live loop's calls are lifecycle steps.
LEMMA LiveLoopGood ==
  ASSUME FInv, LiveLoopNext, NEW i \in Alert
  PROVE  Good(i)
<1>1. ASSUME NEW a \in Alert, NEW replay \in BOOLEAN, EmitAlert(a, replay)
      PROVE  Good(i)
  <2>1. status[a] = Absent
    BY <1>1 DEF EmitAlert, FInv, IInv, Sound, Listed
  <2>2. ASSUME NEW st, NEW t, CreateIntent(a, st, t)
        PROVE  Good(i)
    BY <2>1, <2>2, CreateGood
  <2>3. CASE UNCHANGED intentVars
    BY <2>3, StillGood
  <2> QED BY <1>1, <2>2, <2>3 DEF EmitAlert
<1>2. ASSUME NEW a \in Alert, FromAlert(a)
      PROVE  Good(i)
  <2>1. CASE status[a] = Absent /\ CreateIntent(a, alert[a], validUntil[a])
    BY <2>1, CreateGood
  <2>2. CASE Halt({a}) /\ UNCHANGED <<planVars, lease, trades>>
    BY <2>2, HaltGood
  <2> QED BY <1>2, <2>1, <2>2 DEF FromAlert
<1>3. ASSUME NEW s \in Symbol, Quarantine(s)
      PROVE  Good(i)
  BY <1>3, HaltGood DEF Quarantine
<1>4. ASSUME NEW s \in Symbol, NEW actionable \in BOOLEAN, AcceptBars(s, actionable)
      PROVE  Good(i)
  BY <1>4, StillGood DEF AcceptBars
<1>5. CASE MarketClose
  BY <1>5, StillGood DEF MarketClose
<1>6. ASSUME NEW a \in Alert, Recalibrate(a)
      PROVE  Good(i)
  BY <1>6, StillGood DEF Recalibrate
<1> QED BY <1>1, <1>2, <1>3, <1>4, <1>5, <1>6 DEF LiveLoopNext

\* A granted claim has a lease (claim).
LEMMA LeaseGranted ==
  ASSUME IInv, NEW i \in Alert, ClaimGranted(i)
  PROVE  lease'[i] # 0
<1>1. AgentNext
  BY DEF AgentNext
<1>2. Backed(i)' /\ TypeOK'
  BY <1>1, AgentSound, AgentType DEF IInv, Sound
<1>3. status'[i] = "CLAIMED"
  BY DEF ClaimGranted, IInv, TypeOK
<1> QED BY <1>2, <1>3 DEF Backed, TypeOK

\* The agent's calls are lifecycle steps: a claim is granted once and renewed only
\* while it was not revoked.
LEMMA AgentGood ==
  ASSUME FInv, AgentNext, NEW i \in Alert
  PROVE  Good(i)
<1> USE DEF FInv, IInv, TypeOK
<1>1. ASSUME NEW j \in Alert, NEW power \in Power, NEW price \in Price, NEW g \in Grade,
             NEW age \in Lag, AttestSelection(j, power, price, g, age)
      PROVE  Good(i)
  BY <1>1, StillGood DEF AttestSelection
<1>2. ASSUME NEW j \in Alert, NEW power \in Power, NEW age \in Lag,
             AttestCapital(j, power, age)
      PROVE  Good(i)
  <2>1. /\ mode' = mode /\ lease' = lease
        /\ UNCHANGED <<status, revoked>> \/ Halt({j})
    BY <1>2 DEF AttestCapital
  <2>2. CASE Halt({j})
    BY <2>1, <2>2, HaltGood
  <2>3. CASE UNCHANGED <<status, revoked>>
    BY <2>1, <2>3, StillGood
  <2> QED BY <2>1, <2>2, <2>3
<1>3. ASSUME NEW j \in Alert, ClaimRefused(j)
      PROVE  Good(i)
  BY <1>3, HaltGood DEF ClaimRefused
<1>4. ASSUME NEW j \in Alert, ClaimExpired(j)
      PROVE  Good(i)
  <2>1. CASE status[j] = "READY"
    <3>1. status' = [status EXCEPT ![j] = "EXPIRED"] /\ UNCHANGED <<mode, lease, revoked>>
      BY <1>4, <2>1 DEF ClaimExpired
    <3> QED BY <2>1, <3>1, RetireGood DEF Blockable, Lifecycle!Retired
  <2>2. CASE status[j] = "CLAIMED"
    <3>1. mode' = mode /\ lease' = lease /\ Halt({j})
      BY <1>4, <2>2 DEF ClaimExpired, Halt, Blockable
    <3> QED BY <3>1, HaltGood
  <2> QED BY <1>4, <2>1, <2>2 DEF ClaimExpired, Claimable
<1>5. ASSUME NEW j \in Alert, ClaimGranted(j)
      PROVE  Good(i)
  <2>1. CASE i # j
    BY <1>5, <2>1, StillGood DEF ClaimGranted
  <2>2. CASE i = j
    <3>1. /\ mode[i] = "LIVE" /\ mode' = mode
          /\ status'[i] = "CLAIMED" /\ revoked' = revoked /\ ~revoked[i]
      BY <1>5, <2>2 DEF ClaimGranted, Claimable, Unclaimed, Fresh, Blockable
    <3>2. lease'[i] # 0
      BY <1>5, <2>2, LeaseGranted
    <3>3. CASE status[i] = "READY"
      BY <3>1, <3>2, <3>3 DEF Good, Moves, Lifecycle!Grant, Fresh, Blockable, Absent
    <3>4. CASE status[i] = "CLAIMED"
      <4>1. lease[i] # 0
        BY <3>4 DEF Sound, Backed
      <4> QED BY <3>1, <3>2, <3>4, <4>1 DEF Good, Moves, Lifecycle!Grant, Fresh, Blockable, Absent
    <3> QED BY <1>5, <2>2, <3>3, <3>4 DEF ClaimGranted, Claimable
  <2> QED BY <2>1, <2>2
<1>6. ASSUME NEW j \in Alert, NEW receipt \in Status, RecordReceipt(j, receipt)
      PROVE  Good(i)
  <2>1. CASE i # j
    BY <1>6, <2>1, StillGood DEF RecordReceipt
  <2>2. CASE i = j
    <3>1. /\ mode[i] = "LIVE" /\ UNCHANGED <<mode, revoked, lease>>
          /\ receipt \in ReceiptAllowed(status[i])
          /\ status'[i] = IF status[i] = "EXECUTED" /\ receipt = "FAILED" THEN "EXECUTED" ELSE receipt
      BY <1>6, <2>2 DEF RecordReceipt, StatusAfter, FInv, IInv, TypeOK
    <3>2. Lifecycle!Same(i) \/ Lifecycle!Answer(i)
      BY <3>1 DEF ReceiptAllowed, Lifecycle!Same, Lifecycle!Answer, Lifecycle!Answered
    <3>3. Fresh(i)'
      BY <3>1 DEF ReceiptAllowed, Fresh, Blockable, Absent
    <3> QED BY <3>2, <3>3 DEF Good, Moves
  <2> QED BY <2>1, <2>2
<1>7. ASSUME NEW j \in Alert, SimulationEntry(j) \/ SimulationExit(j)
      PROVE  Good(i)
  <2>1. CASE i # j
    BY <1>7, <2>1, StillGood DEF SimulationEntry, SimulationExit
  <2>2. CASE i = j
    <3>1. Lifecycle!Simulate(i)
      BY <1>7, <2>2 DEF SimulationEntry, SimulationExit, Lifecycle!Simulate
    <3>2. Fresh(i)'
      BY <1>7, <2>2 DEF SimulationEntry, SimulationExit, Fresh, Blockable, Absent
    <3> QED BY <3>1, <3>2 DEF Good, Moves
  <2> QED BY <2>1, <2>2
<1>8. CASE Poll
  <2>1. mode' = mode /\ lease' = lease
    BY <1>8 DEF Poll
  <2>2. CASE status[i] \in Blockable
    <3>1. ~revoked'[i] /\ status'[i] \in {status[i], "EXPIRED", "BLOCKED"}
      BY <1>8, <2>2 DEF Poll, Revocable, Fresh, Blockable
    <3>2. Lifecycle!Same(i) \/ Lifecycle!Retire(i)
      BY <2>1, <2>2, <3>1 DEF Lifecycle!Same, Lifecycle!Retire, Lifecycle!Retired, Fresh, Blockable
    <3>3. Fresh(i)'
      BY <2>1, <2>2, <3>1 DEF Fresh
    <3> QED BY <3>2, <3>3 DEF Good, Moves
  <2>3. CASE Revocable(i) /\ ~revoked[i]
    <3>1. status[i] = "CLAIMED" /\ status'[i] = "CLAIMED" /\ revoked'[i]
      BY <1>8, <2>3 DEF Poll, Revocable, Blockable
    <3>2. lease[i] # 0
      BY <3>1 DEF Sound, Backed
    <3>3. Lifecycle!Revoke(i)
      BY <2>1, <2>3, <3>1, <3>2 DEF Lifecycle!Revoke
    <3> QED BY <3>1, <3>3 DEF Good, Moves, Fresh, Blockable, Absent
  <2>4. CASE status[i] \notin Blockable /\ (revoked[i] \/ ~Revocable(i))
    BY <1>8, <2>1, <2>4, StillGood DEF Poll
  <2> QED BY <2>2, <2>3, <2>4
<1> QED BY <1>1, <1>2, <1>3, <1>4, <1>5, <1>6, <1>7, <1>8 DEF AgentNext

\* Every step of the manager is a step of the lifecycle of every intent.
LEMMA LifecycleStep ==
  FInv /\ [Next]_vars => FInv' /\ [Lifecycle!LifecycleNext]_(Lifecycle!lifecycleVars)
<1> SUFFICES ASSUME FInv, [Next]_vars
             PROVE  FInv' /\ Lifecycle!LifecycleNext
  OBVIOUS
<1>1. ASSUME NEW i \in Alert
      PROVE  Good(i)
  <2>1. CASE Tick
    BY <2>1, StillGood DEF Tick
  <2>2. CASE UNCHANGED vars
    BY <2>2, StillGood DEF vars
  <2> QED BY <2>1, <2>2, OperatorGood, LiveLoopGood, AgentGood DEF Next
<1>2. IInv'
  BY SoundStep DEF FInv
<1> QED BY <1>1, <1>2 DEF Good, Moves, FInv, Lifecycle!LifecycleNext

\* The manager implements the lifecycle of the execution contract, for any number
\* of intents: authority once revoked never returns, and local events never end a
\* claimed intent.
THEOREM LifecycleRefined == Spec => ImplementsLifecycle
<1>1. Init => FInv
  <2>1. Init => IInv
    BY InvInit
  <2> QED BY <2>1 DEF Init, FInv, Fresh
<1>2. Init => Lifecycle!LifecycleInit
  BY DEF Init, Lifecycle!LifecycleInit, Absent
<1> QED BY <1>1, <1>2, LifecycleStep, PTL DEF Spec, ImplementsLifecycle, Lifecycle!LifecycleSpec

-----------------------------------------------------------------------------
(* The journal and the caps.                                               *)

\* Statuses of a position, open or closed.
Filled == {"EXECUTED", "CLOSED"}

\* The journal by status: no entry, one entry, one entry and a later exit.
JournalSound(i) ==
  /\ status[i] \notin Filled => Journal(i, "ENTRY") = {} /\ Journal(i, "EXIT") = {}
  /\ status[i] = "EXECUTED" =>
       Journal(i, "EXIT") = {} /\ \E k \in Nat : Journal(i, "ENTRY") = {k}
  /\ status[i] = "CLOSED" =>
       \E k, x \in Nat : k < x /\ Journal(i, "ENTRY") = {k} /\ Journal(i, "EXIT") = {x}

JInv == \A i \in Alert : JournalSound(i)

\* A journal that did not change still matches a status that moved outside the
\* filled ones.
LEMMA StillSound ==
  ASSUME NEW i \in Alert, JournalSound(i), trades'[i] = trades[i],
         status'[i] = status[i] \/ (status[i] \notin Filled /\ status'[i] \notin Filled)
  PROVE  JournalSound(i)'
<1>1. Journal(i, "ENTRY")' = Journal(i, "ENTRY") /\ Journal(i, "EXIT")' = Journal(i, "EXIT")
  BY DEF Journal
<1> QED BY <1>1 DEF JournalSound, Filled

\* What one appended entry adds to the entries of each kind.
LEMMA EntryAdded ==
  ASSUME TypeOK, NEW i \in Alert, NEW e \in TradeEvents, NEW f,
         trades' = [trades EXCEPT ![i] = Append(@, [event |-> e, day |-> today])]
  PROVE  /\ f = e => Journal(i, f)' = Journal(i, f) \cup {Len(trades[i]) + 1}
         /\ f # e => Journal(i, f)' = Journal(i, f)
         /\ Journal(i, f) \subseteq 1..Len(trades[i])
         /\ Len(trades[i]) \in Nat
<1> DEFINE s == trades[i]
           r == [event |-> e, day |-> today]
<1>1. s \in Seq([event : TradeEvents, day : 0..MaxDay]) /\ r \in [event : TradeEvents, day : 0..MaxDay]
  BY DEF TypeOK
<1>2. trades'[i] = Append(s, r)
  BY DEF TypeOK
<1>3. /\ DOMAIN trades'[i] = 1..(Len(s) + 1)
      /\ \A k \in 1..Len(s) : trades'[i][k] = s[k]
      /\ trades'[i][Len(s) + 1] = r
  BY <1>1, <1>2, AppendProperties
<1>4. DOMAIN s = 1..Len(s) /\ Len(s) \in Nat
  BY <1>1
<1>5. r.event = e
  OBVIOUS
<1>6. Journal(i, f)' = {k \in 1..(Len(s) + 1) : trades'[i][k].event = f}
  BY <1>3 DEF Journal
<1>7. Journal(i, f) = {k \in 1..Len(s) : s[k].event = f}
  BY <1>4 DEF Journal
<1> HIDE DEF s, r
<1>8. 1..(Len(s) + 1) = (1..Len(s)) \cup {Len(s) + 1}
  BY <1>4
<1>9. f = e => Journal(i, f)' = Journal(i, f) \cup {Len(s) + 1}
  BY <1>3, <1>5, <1>6, <1>7, <1>8
<1>10. f # e => Journal(i, f)' = Journal(i, f)
  BY <1>3, <1>5, <1>6, <1>7, <1>8
<1> QED BY <1>4, <1>7, <1>9, <1>10 DEF s

\* A step that writes no journal entry moves no intent into or out of a position.
Quiet(i) ==
  /\ trades' = trades
  /\ \/ status'[i] = status[i]
     \/ status[i] \notin Filled /\ status'[i] \notin Filled

\* Halting neither opens nor closes a position (_mutate_blocked).
LEMMA HaltQuiet ==
  ASSUME TypeOK, NEW i \in Alert, NEW S, Halt(S), trades' = trades
  PROVE  Quiet(i)
<1> QED BY DEF TypeOK, Halt, Quiet, Filled, Blockable

\* The operator neither opens nor closes a position.
LEMMA OperatorQuiet ==
  ASSUME IInv, NEW i \in Alert, OperatorNext
  PROVE  Quiet(i)
<1>1. ASSUME NEW minutes \in LiveMinutes, NEW lim \in Limits, SwitchLive(minutes, lim)
      PROVE  Quiet(i)
  BY <1>1 DEF SwitchLive, Quiet
<1>2. ASSUME NEW lim \in Limits, SwitchSimulation(lim)
      PROVE  Quiet(i)
  BY <1>2, HaltQuiet DEF SwitchSimulation, IInv
<1>3. ASSUME NEW j \in Alert, Reject(j)
      PROVE  Quiet(i)
  <2>1. CASE Halt({j})
    BY <1>3, <2>1, HaltQuiet DEF Reject, IInv
  <2>2. CASE status[j] \in Blockable /\ status' = [status EXCEPT ![j] = "REJECTED"]
    BY <1>3, <2>2 DEF Reject, IInv, TypeOK, Quiet, Filled, Blockable
  <2> QED BY <1>3, <2>1, <2>2 DEF Reject
<1> QED BY <1>1, <1>2, <1>3 DEF OperatorNext

\* A new intent holds no position (on_alert).
LEMMA CreateQuiet ==
  ASSUME TypeOK, NEW i \in Alert, NEW a \in Alert, NEW st, NEW t,
         CreateIntent(a, st, t), status[a] = Absent
  PROVE  Quiet(i)
<1> QED BY DEF TypeOK, CreateIntent, Quiet, Filled, Absent

\* The live loop neither opens nor closes a position.
LEMMA LiveLoopQuiet ==
  ASSUME IInv, NEW i \in Alert, LiveLoopNext
  PROVE  Quiet(i)
<1>1. ASSUME NEW a \in Alert, NEW replay \in BOOLEAN, EmitAlert(a, replay)
      PROVE  Quiet(i)
  <2>1. status[a] = Absent
    BY <1>1 DEF EmitAlert, IInv, Sound, Listed
  <2>2. ASSUME NEW st, NEW t, CreateIntent(a, st, t)
        PROVE  Quiet(i)
    BY <2>1, <2>2, CreateQuiet DEF IInv
  <2>3. CASE UNCHANGED intentVars
    BY <2>3 DEF Quiet
  <2> QED BY <1>1, <2>2, <2>3 DEF EmitAlert
<1>2. ASSUME NEW a \in Alert, FromAlert(a)
      PROVE  Quiet(i)
  <2>1. CASE status[a] = Absent /\ CreateIntent(a, alert[a], validUntil[a])
    BY <2>1, CreateQuiet DEF IInv
  <2>2. CASE Halt({a}) /\ UNCHANGED <<planVars, lease, trades>>
    BY <2>2, HaltQuiet DEF IInv
  <2> QED BY <1>2, <2>1, <2>2 DEF FromAlert
<1>3. ASSUME NEW s \in Symbol, Quarantine(s)
      PROVE  Quiet(i)
  BY <1>3, HaltQuiet DEF Quarantine, IInv
<1>4. ASSUME NEW s \in Symbol, NEW actionable \in BOOLEAN, AcceptBars(s, actionable)
      PROVE  Quiet(i)
  BY <1>4 DEF AcceptBars, Quiet
<1>5. CASE MarketClose
  BY <1>5 DEF MarketClose, Quiet
<1>6. ASSUME NEW a \in Alert, Recalibrate(a)
      PROVE  Quiet(i)
  BY <1>6 DEF Recalibrate, Quiet
<1> QED BY <1>1, <1>2, <1>3, <1>4, <1>5, <1>6 DEF LiveLoopNext

\* A capital review neither opens nor closes a position (attest_capital).
LEMMA ReviewQuiet ==
  ASSUME IInv, NEW i \in Alert, NEW j \in Alert, NEW power, NEW age,
         AttestCapital(j, power, age)
  PROVE  Quiet(i)
<1>1. trades' = trades /\ (UNCHANGED <<status, revoked>> \/ Halt({j}))
  BY DEF AttestCapital
<1>2. CASE Halt({j})
  BY <1>1, <1>2, HaltQuiet DEF IInv
<1> QED BY <1>1, <1>2 DEF Quiet

\* A claim neither opens nor closes a position (claim).
LEMMA ClaimQuiet ==
  ASSUME IInv, NEW i \in Alert, NEW j \in Alert,
         ClaimRefused(j) \/ ClaimExpired(j) \/ ClaimGranted(j)
  PROVE  Quiet(i)
<1>1. CASE ClaimRefused(j)
  BY <1>1, HaltQuiet DEF ClaimRefused, IInv
<1>2. CASE ClaimExpired(j)
  BY <1>2 DEF ClaimExpired, Claimable, IInv, TypeOK, Quiet, Filled
<1>3. CASE ClaimGranted(j)
  BY <1>3 DEF ClaimGranted, Claimable, IInv, TypeOK, Quiet, Filled
<1> QED BY <1>1, <1>2, <1>3

\* Neither a deadline nor a poll opens or closes a position (_expire_stale).
LEMMA TimeQuiet ==
  ASSUME IInv, NEW i \in Alert, Poll \/ Tick \/ UNCHANGED vars
  PROVE  Quiet(i)
<1>1. CASE Poll
  BY <1>1 DEF Poll, IInv, TypeOK, Quiet, Filled, Blockable
<1>2. CASE Tick
  BY <1>2 DEF Tick, Quiet
<1>3. CASE UNCHANGED vars
  BY <1>3 DEF vars, Quiet
<1> QED BY <1>1, <1>2, <1>3

\* Every step keeps the journals in step with the statuses.
LEMMA JournalStep == IInv /\ JInv /\ [Next]_vars => JInv'
<1> SUFFICES ASSUME IInv, JInv, [Next]_vars, NEW i \in Alert
             PROVE  JournalSound(i)'
  BY DEF JInv
<1>1. ASSUME NEW j \in Alert, NEW receipt \in Status, RecordReceipt(j, receipt)
      PROVE  JournalSound(i)'
  <2>1. CASE i # j
    <3>1. trades'[i] = trades[i] /\ status'[i] = status[i]
      BY <1>1, <2>1 DEF RecordReceipt, IInv, TypeOK
    <3> QED BY <3>1, StillSound DEF JInv
  <2>2. CASE i = j
    <3>1. receipt \in ReceiptAllowed(status[i])
      BY <1>1, <2>2 DEF RecordReceipt
    <3>2. TradeEvent(receipt) \in TradeEvents
      BY <3>1 DEF ReceiptAllowed, TradeEvent, TradeEvents
    <3>3. \A f : /\ f = TradeEvent(receipt) => Journal(i, f)' = Journal(i, f) \cup {Len(trades[i]) + 1}
                 /\ f # TradeEvent(receipt) => Journal(i, f)' = Journal(i, f)
                 /\ Journal(i, f) \subseteq 1..Len(trades[i])
                 /\ Len(trades[i]) \in Nat
      BY <1>1, <2>2, <3>2, EntryAdded DEF RecordReceipt, IInv
    <3>4. status'[i] = IF status[i] = "EXECUTED" /\ receipt = "FAILED" THEN "EXECUTED" ELSE receipt
      BY <1>1, <2>2 DEF RecordReceipt, StatusAfter, IInv, TypeOK
    <3>5. CASE receipt = "EXECUTED"
      <4>1. status[i] \notin Filled /\ status'[i] = "EXECUTED"
        BY <3>1, <3>4, <3>5 DEF ReceiptAllowed, Filled
      <4>2. Journal(i, "ENTRY")' = {Len(trades[i]) + 1} /\ Journal(i, "EXIT")' = {}
        BY <3>3, <3>5, <4>1 DEF TradeEvent, JInv, JournalSound
      <4> QED BY <3>3, <4>1, <4>2 DEF JournalSound, Filled
    <3>6. CASE receipt = "CLOSED"
      <4>1. status[i] = "EXECUTED" /\ status'[i] = "CLOSED"
        BY <3>1, <3>4, <3>6 DEF ReceiptAllowed
      <4>2. PICK k \in Nat : Journal(i, "ENTRY") = {k} /\ Journal(i, "EXIT") = {}
        BY <4>1 DEF JInv, JournalSound
      <4>3. Journal(i, "ENTRY")' = {k} /\ Journal(i, "EXIT")' = {Len(trades[i]) + 1}
        BY <3>3, <3>6, <4>2 DEF TradeEvent
      <4>4. k < Len(trades[i]) + 1
        BY <3>3, <4>2
      <4> QED BY <3>3, <4>1, <4>3, <4>4 DEF JournalSound, Filled
    <3>7. CASE receipt \in {"REJECTED", "FAILED", "CANCELLED"}
      <4>1. Journal(i, "ENTRY")' = Journal(i, "ENTRY") /\ Journal(i, "EXIT")' = Journal(i, "EXIT")
        BY <3>3, <3>7 DEF TradeEvent
      <4>2. \/ status'[i] = status[i]
            \/ status[i] \notin Filled /\ status'[i] \notin Filled
        BY <3>1, <3>4, <3>7 DEF ReceiptAllowed, Filled
      <4> QED BY <4>1, <4>2 DEF JInv, JournalSound, Filled
    <3> QED BY <3>1, <3>5, <3>6, <3>7 DEF ReceiptAllowed
  <2> QED BY <2>1, <2>2
<1>2. ASSUME NEW j \in Alert, SimulationEntry(j)
      PROVE  JournalSound(i)'
  <2>1. CASE i # j
    <3>1. trades'[i] = trades[i] /\ status'[i] = status[i]
      BY <1>2, <2>1 DEF SimulationEntry, IInv, TypeOK
    <3> QED BY <3>1, StillSound DEF JInv
  <2>2. CASE i = j
    <3>1. status[i] = "SHADOW" /\ status'[i] = "EXECUTED"
      BY <1>2, <2>2 DEF SimulationEntry, IInv, TypeOK
    <3>2. /\ Journal(i, "ENTRY")' = Journal(i, "ENTRY") \cup {Len(trades[i]) + 1}
          /\ Journal(i, "EXIT")' = Journal(i, "EXIT")
          /\ Len(trades[i]) \in Nat
      BY <1>2, <2>2, EntryAdded DEF SimulationEntry, IInv, TradeEvents
    <3> QED BY <3>1, <3>2 DEF JInv, JournalSound, Filled
  <2> QED BY <2>1, <2>2
<1>3. ASSUME NEW j \in Alert, SimulationExit(j)
      PROVE  JournalSound(i)'
  <2>1. CASE i # j
    <3>1. trades'[i] = trades[i] /\ status'[i] = status[i]
      BY <1>3, <2>1 DEF SimulationExit, IInv, TypeOK
    <3> QED BY <3>1, StillSound DEF JInv
  <2>2. CASE i = j
    <3>1. status[i] = "EXECUTED" /\ status'[i] = "CLOSED"
      BY <1>3, <2>2 DEF SimulationExit, IInv, TypeOK
    <3>2. /\ Journal(i, "EXIT")' = Journal(i, "EXIT") \cup {Len(trades[i]) + 1}
          /\ Journal(i, "ENTRY")' = Journal(i, "ENTRY")
          /\ Journal(i, "ENTRY") \subseteq 1..Len(trades[i])
          /\ Len(trades[i]) \in Nat
      BY <1>3, <2>2, EntryAdded DEF SimulationExit, IInv, TradeEvents
    <3>3. PICK k \in Nat : Journal(i, "ENTRY") = {k} /\ Journal(i, "EXIT") = {}
      BY <3>1 DEF JInv, JournalSound
    <3>4. k < Len(trades[i]) + 1 /\ Len(trades[i]) + 1 \in Nat
      BY <3>2, <3>3
    <3> QED BY <3>1, <3>2, <3>3, <3>4 DEF JournalSound, Filled
  <2> QED BY <2>1, <2>2
<1>4. CASE Quiet(i)
  BY <1>4, StillSound DEF JInv, Quiet
<1>5. CASE AgentNext
  <2>1. ASSUME NEW j \in Alert, NEW power \in Power, NEW price \in Price, NEW g \in Grade,
               NEW age \in Lag, AttestSelection(j, power, price, g, age)
        PROVE  JournalSound(i)'
    BY <1>4, <2>1 DEF AttestSelection, Quiet
  <2>2. ASSUME NEW j \in Alert, NEW power \in Power, NEW age \in Lag, AttestCapital(j, power, age)
        PROVE  JournalSound(i)'
    BY <1>4, <2>2, ReviewQuiet
  <2>3. ASSUME NEW j \in Alert, ClaimRefused(j) \/ ClaimExpired(j) \/ ClaimGranted(j)
        PROVE  JournalSound(i)'
    BY <1>4, <2>3, ClaimQuiet
  <2>4. CASE Poll
    BY <1>4, <2>4, TimeQuiet
  <2> QED BY <1>1, <1>2, <1>3, <1>5, <2>1, <2>2, <2>3, <2>4 DEF AgentNext
<1> QED BY <1>4, <1>5, OperatorQuiet, LiveLoopQuiet, TimeQuiet DEF Next

\* Positions are entered once, closed once and after their entry, and the status
\* says so, for journals of any length: no order of receipts, polls, halts and
\* claims records a fill twice or loses one.
THEOREM JournalsSound == Spec => []JournalMatchesStatus
<1>1. Init => JInv
  BY DEF Init, JInv, JournalSound, Journal, Filled, Absent
<1>2. JInv => JournalMatchesStatus
  <2> SUFFICES ASSUME JInv, NEW i \in Alert
               PROVE  /\ Cardinality(Journal(i, "ENTRY")) = (IF status[i] \in {"EXECUTED", "CLOSED"} THEN 1 ELSE 0)
                      /\ Cardinality(Journal(i, "EXIT")) = (IF status[i] = "CLOSED" THEN 1 ELSE 0)
                      /\ \A k \in Journal(i, "ENTRY"), x \in Journal(i, "EXIT") : k < x
    BY DEF JournalMatchesStatus
  <2>1. Cardinality({}) = 0 /\ \A k : Cardinality({k}) = 1
    BY FS_EmptySet, FS_Singleton
  <2> QED BY <2>1 DEF JInv, JournalSound, Filled
<1> QED BY <1>1, <1>2, JournalStep, IntentsSound, PTL DEF Spec

-----------------------------------------------------------------------------
(* Caps.                                                                   *)

\* Only a dynamic plan has a selection; an intent was created today or before;
\* a cancelled intent has the cancellation in its journal.
Booked(i) ==
  /\ Kind[i] # "DYNAMIC" => selection[i] = NoSelection
  /\ createdDay[i] <= today
  /\ status[i] = "CANCELLED" => Journal(i, "CANCELLED") # {}

CapInv == \A i \in Alert : Booked(i)

\* A live claim or position that the caps count.
Held(i) == mode[i] = "LIVE" /\ status[i] \in {"CLAIMED", "EXECUTED", "CLOSED"} /\ ~LateFill(i)

\* What a step other than a claim leaves of a held intent.
Same(i) ==
  /\ Held(i) /\ createdDay'[i] = createdDay[i] /\ validUntil'[i] = validUntil[i]
  /\ selection'[i] = selection[i] /\ (status[i] = "CLOSED" => status'[i] = "CLOSED")

\* The charges as a function.
Charges == [i \in Alert |-> Charge(i)]
ChargesSum == \A S \in SUBSET Alert : MapThenSumSet(Charge, S) = Total(Charges, S)

LEMMA ChargesAdd == IsFiniteSet(Alert) /\ TypeOK => ChargesSum
<1> SUFFICES ASSUME IsFiniteSet(Alert), TypeOK, NEW S \in SUBSET Alert
             PROVE  MapThenSumSet(Charge, S) = Total(Charges, S)
  BY DEF ChargesSum
<1> DEFINE Body(h) == [s \in SUBSET S |-> IF s = {} THEN 0 ELSE Charge(Pick(s)) + h[s \ {Pick(s)}]]
           iter == CHOOSE h : h = Body(h)
<1>1. MapThenSumSet(Charge, S) = iter[S]
  BY DEF MapThenSumSet, MapThenFoldSet, Pick
<1>2. ASSUME NEW h PROVE Sums(h, Charges, S) <=> h = Body(h)
  <2>1. \A s \in SUBSET S : s # {} => Pick(s) \in Alert
    BY DEF Pick
  <2>2. \A s \in SUBSET S : s # {} => Charges[Pick(s)] = Charge(Pick(s))
    BY <2>1 DEF Charges
  <2>3. [s \in SUBSET S |-> IF s = {} THEN 0 ELSE Charges[Pick(s)] + h[s \ {Pick(s)}]] = Body(h)
    BY <2>2
  <2> QED BY <2>3 DEF Sums
<1>3. Charges \in [Alert -> Nat]
  BY AlertAssumption DEF TypeOK, Charges, Charge
<1>4. PICK g : Sums(g, Charges, S)
  <2>1. IsFiniteSet(S) /\ [i \in S |-> Charges[i]] \in [S -> Nat]
    BY <1>3, FS_Subset
  <2>2. PICK g \in [SUBSET Alert -> Nat] : Sums(g, Charges, Alert)
    BY <1>3, SumsExist
  <2> DEFINE r == [s \in SUBSET S |-> g[s]]
  <2>3. \A s \in SUBSET S : g[s] = IF s = {} THEN 0 ELSE Charges[Pick(s)] + g[s \ {Pick(s)}]
    BY <2>2 DEF Sums
  <2>4. \A s \in SUBSET S : s # {} => r[s \ {Pick(s)}] = g[s \ {Pick(s)}]
    OBVIOUS
  <2>5. Sums(r, Charges, S)
    BY <2>3, <2>4 DEF Sums
  <2> QED BY <2>5
<1> HIDE DEF Body
<1>5. Sums(iter, Charges, S)
  BY <1>2, <1>4
<1> HIDE DEF iter
<1>6. IsFiniteSet(S)
  BY FS_Subset
<1> QED BY <1>1, <1>5, <1>6, TotalIs

LEMMA ChargesAddNext ==
  ASSUME IsFiniteSet(Alert)
  PROVE  TypeOK' => ChargesSum'
<1>1. TypeOK => ChargesSum
  BY ChargesAdd
<1> QED BY <1>1, PTL

\* A journal only grows, so a late fill stays one.
LEMMA LateStays ==
  ASSUME TypeOK, NEW i \in Alert, NEW e \in TradeEvents,
         trades' = [trades EXCEPT ![i] = Append(@, [event |-> e, day |-> today])]
  PROVE  /\ LateFill(i) => LateFill(i)'
         /\ e = "ENTRY" /\ Journal(i, "CANCELLED") # {} => LateFill(i)'
         /\ Journal(i, "CANCELLED") # {} => Journal(i, "CANCELLED")' # {}
         /\ e = "CANCELLED" => Journal(i, "CANCELLED")' # {}
<1>1. \A f : /\ f = e => Journal(i, f)' = Journal(i, f) \cup {Len(trades[i]) + 1}
             /\ f # e => Journal(i, f)' = Journal(i, f)
             /\ Journal(i, f) \subseteq 1..Len(trades[i])
             /\ Len(trades[i]) \in Nat
  BY EntryAdded
<1>2. \A f : Journal(i, f) \subseteq Journal(i, f)'
  BY <1>1
<1>3. LateFill(i) => LateFill(i)'
  BY <1>2 DEF LateFill
<1>4. ASSUME e = "ENTRY", NEW c \in Journal(i, "CANCELLED") PROVE LateFill(i)'
  <2>1. Len(trades[i]) + 1 \in Journal(i, "ENTRY")' /\ c \in Journal(i, "CANCELLED")'
    BY <1>1, <1>4
  <2>2. c < Len(trades[i]) + 1
    BY <1>1
  <2> QED BY <2>1, <2>2 DEF LateFill
<1> QED BY <1>1, <1>2, <1>3, <1>4

\* A step that leaves the journals and the fields of the caps alone, and makes
\* no claim.
Plain(i) ==
  /\ trades'[i] = trades[i] /\ mode'[i] = mode[i] /\ createdDay'[i] = createdDay[i]
  /\ selection'[i] = selection[i] /\ validUntil'[i] = validUntil[i]
  /\ status'[i] = status[i] \/ status'[i] \notin {"CLAIMED", "EXECUTED", "CLOSED", "CANCELLED"}
  /\ today' \in {today, today + 1}

LEMMA PlainStep ==
  ASSUME TypeOK, NEW i \in Alert, Booked(i), Plain(i)
  PROVE  Booked(i)' /\ (Held(i)' => Same(i))
<1>1. \A f : Journal(i, f)' = Journal(i, f)
  BY DEF Plain, Journal
<1>2. LateFill(i)' <=> LateFill(i)
  BY <1>1 DEF LateFill
<1>3. Booked(i)'
  <2>1. createdDay'[i] <= today'
    BY DEF Plain, Booked, TypeOK
  <2> QED BY <1>1, <2>1 DEF Plain, Booked
<1> QED BY <1>2, <1>3 DEF Plain, Held, Same

\* Halting makes no claim (_mutate_blocked).
LEMMA HaltPlain ==
  ASSUME TypeOK, NEW i \in Alert, NEW S, Halt(S), UNCHANGED <<planVars, lease, trades, validUntil, today>>
  PROVE  Plain(i)
<1>1. status'[i] = status[i] \/ status'[i] = "BLOCKED"
  BY DEF Halt
<1> QED BY <1>1 DEF Plain

\* Nor does the operator.
LEMMA OperatorPlain ==
  ASSUME IInv, NEW i \in Alert, OperatorNext
  PROVE  Plain(i)
<1>1. ASSUME NEW minutes \in LiveMinutes, NEW lim \in Limits, SwitchLive(minutes, lim)
      PROVE  Plain(i)
  BY <1>1 DEF SwitchLive, Plain
<1>2. ASSUME NEW lim \in Limits, SwitchSimulation(lim)
      PROVE  Plain(i)
  BY <1>2, HaltPlain DEF SwitchSimulation, IInv
<1>3. ASSUME NEW j \in Alert, Reject(j)
      PROVE  Plain(i)
  <2>1. CASE Halt({j})
    BY <1>3, <2>1, HaltPlain DEF Reject, IInv
  <2>2. CASE status' = [status EXCEPT ![j] = "REJECTED"]
    <3>1. status'[i] = status[i] \/ status'[i] = "REJECTED"
      BY <2>2 DEF IInv, TypeOK
    <3> QED BY <1>3, <3>1 DEF Reject, Plain
  <2> QED BY <1>3, <2>1, <2>2 DEF Reject
<1> QED BY <1>1, <1>2, <1>3 DEF OperatorNext

\* A new intent starts outside the caps, dated today (on_alert).
LEMMA CreateBooked ==
  ASSUME IInv, CapInv, NEW i \in Alert, NEW a \in Alert, NEW st, NEW t,
         CreateIntent(a, st, t), status[a] = Absent, today' = today,
         i # a => validUntil'[i] = validUntil[i]
  PROVE  Booked(i)' /\ (Held(i)' => Same(i))
<1>1. CASE i # a
  <2>1. Plain(i)
    BY <1>1 DEF CreateIntent, Plain, IInv, TypeOK
  <2> QED BY <2>1, PlainStep DEF CapInv, IInv
<1>2. CASE i = a
  <2>1. /\ selection' = selection /\ trades' = trades /\ createdDay'[i] = today
        /\ status'[i] \in {"BLOCKED", "READY", "SHADOW"}
    BY <1>2 DEF CreateIntent, IInv, TypeOK
  <2>2. today \in Nat
    BY TimeAssumption DEF IInv, TypeOK
  <2>3. ~Held(i)'
    BY <2>1 DEF Held
  <2>4. Booked(i)'
    BY <2>1, <2>2 DEF Booked, CapInv
  <2> QED BY <2>3, <2>4
<1> QED BY <1>1, <1>2

\* Nor does the live loop make a claim.
LEMMA LiveLoopBooked ==
  ASSUME IInv, CapInv, NEW i \in Alert, LiveLoopNext
  PROVE  Booked(i)' /\ (Held(i)' => Same(i))
<1> DEFINE Goal == Booked(i)' /\ (Held(i)' => Same(i))
<1>0. Plain(i) => Goal
  BY PlainStep DEF CapInv, IInv
<1> HIDE DEF Goal
<1>1. ASSUME NEW a \in Alert, NEW replay \in BOOLEAN, EmitAlert(a, replay)
      PROVE  Goal
  <2>1. status[a] = Absent /\ today' = today
    BY <1>1 DEF EmitAlert, IInv, Sound, Listed
  <2>2. i # a => validUntil'[i] = validUntil[i]
    BY <1>1 DEF EmitAlert, IInv, TypeOK
  <2>3. ASSUME NEW st, NEW t, CreateIntent(a, st, t)
        PROVE  Goal
    BY <2>1, <2>2, <2>3, CreateBooked DEF Goal
  <2>4. CASE UNCHANGED intentVars
    <3>1. CASE i # a
      <4>1. Plain(i)
        BY <2>1, <2>2, <2>4, <3>1 DEF Plain
      <4> QED BY <1>0, <4>1
    <3>2. CASE i = a
      <4>1. ~Held(i)'
        BY <2>1, <2>4, <3>2 DEF Held, Absent
      <4>2. Booked(i)'
        BY <2>1, <2>4 DEF Booked, CapInv, Journal
      <4> QED BY <4>1, <4>2 DEF Goal
    <3> QED BY <3>1, <3>2
  <2> QED BY <1>1, <2>3, <2>4 DEF EmitAlert
<1>2. ASSUME NEW a \in Alert, FromAlert(a)
      PROVE  Goal
  <2>1. CASE status[a] = Absent /\ CreateIntent(a, alert[a], validUntil[a])
    BY <1>2, <2>1, CreateBooked DEF FromAlert, Goal
  <2>2. CASE Halt({a}) /\ UNCHANGED <<planVars, lease, trades>>
    BY <1>0, <1>2, <2>2, HaltPlain DEF FromAlert, IInv
  <2> QED BY <1>2, <2>1, <2>2 DEF FromAlert
<1>3. ASSUME NEW s \in Symbol, Quarantine(s)
      PROVE  Goal
  BY <1>0, <1>3, HaltPlain DEF Quarantine, IInv
<1>4. ASSUME NEW s \in Symbol, NEW actionable \in BOOLEAN, AcceptBars(s, actionable)
      PROVE  Goal
  BY <1>0, <1>4 DEF AcceptBars, Plain
<1>5. ASSUME MarketClose
      PROVE  Goal
  BY <1>0, <1>5 DEF MarketClose, Plain
<1>6. ASSUME NEW a \in Alert, Recalibrate(a)
      PROVE  Goal
  BY <1>0, <1>6 DEF Recalibrate, Plain
<1> QED BY <1>1, <1>2, <1>3, <1>4, <1>5, <1>6 DEF LiveLoopNext, Goal

\* A receipt of the broker makes no claim; a fill after a cancellation is late.
LEMMA ReceiptBooked ==
  ASSUME IInv, CapInv, NEW i \in Alert, NEW j \in Alert, NEW receipt \in Status, RecordReceipt(j, receipt)
  PROVE  Booked(i)' /\ (Held(i)' => Same(i))
<1>1. CASE i # j
  <2>1. Plain(i)
    BY <1>1 DEF RecordReceipt, Plain, IInv, TypeOK
  <2> QED BY <2>1, PlainStep DEF CapInv, IInv
<1>2. CASE i = j
  <2>1. /\ receipt \in ReceiptAllowed(status[i])
        /\ trades' = [trades EXCEPT ![i] = Append(@, [event |-> TradeEvent(receipt), day |-> today])]
        /\ UNCHANGED <<selection, createdDay, today, mode, validUntil>>
        /\ status'[i] = StatusAfter(status[i], receipt)
    BY <1>2 DEF RecordReceipt, IInv, TypeOK
  <2>2. TradeEvent(receipt) \in TradeEvents
    BY <2>1 DEF ReceiptAllowed, TradeEvent, TradeEvents
  <2>3. /\ LateFill(i) => LateFill(i)'
        /\ TradeEvent(receipt) = "ENTRY" /\ Journal(i, "CANCELLED") # {} => LateFill(i)'
        /\ TradeEvent(receipt) = "CANCELLED" => Journal(i, "CANCELLED")' # {}
    BY <2>1, <2>2, LateStays DEF IInv
  <2>4. Booked(i)'
    <3>1. status'[i] = "CANCELLED" => receipt = "CANCELLED"
      BY <2>1 DEF StatusAfter
    <3>2. receipt = "CANCELLED" => TradeEvent(receipt) = "CANCELLED"
      BY DEF TradeEvent
    <3> QED BY <2>1, <2>3, <3>1, <3>2 DEF Booked, CapInv
  <2>5. ASSUME Held(i)' PROVE Same(i)
    <3>1. status[i] # "CANCELLED"
      <4> SUFFICES ASSUME status[i] = "CANCELLED" PROVE FALSE
        OBVIOUS
      <4>1. receipt = "EXECUTED" /\ Journal(i, "CANCELLED") # {}
        BY <2>1 DEF ReceiptAllowed, CapInv, Booked
      <4>2. LateFill(i)'
        BY <2>3, <4>1 DEF TradeEvent
      <4> QED BY <2>5, <4>2 DEF Held
    <3>2. status[i] \in {"CLAIMED", "EXECUTED"}
      BY <2>1, <3>1 DEF ReceiptAllowed
    <3>3. mode[i] = "LIVE" /\ ~LateFill(i)
      BY <2>1, <2>3, <2>5 DEF Held
    <3> QED BY <2>1, <3>2, <3>3 DEF Held, Same
  <2> QED BY <2>4, <2>5
<1> QED BY <1>1, <1>2

\* Nor does a simulated entry or exit, whose intent is not live.
LEMMA SimulationBooked ==
  ASSUME IInv, CapInv, NEW i \in Alert, NEW j \in Alert, SimulationEntry(j) \/ SimulationExit(j)
  PROVE  Booked(i)' /\ (Held(i)' => Same(i))
<1>1. CASE i # j
  <2>1. Plain(i)
    BY <1>1 DEF SimulationEntry, SimulationExit, Plain, IInv, TypeOK
  <2> QED BY <2>1, PlainStep DEF CapInv, IInv
<1>2. CASE i = j
  <2>1. mode'[i] = "SIMULATION" /\ status'[i] # "CANCELLED"
        /\ UNCHANGED <<selection, createdDay, today>>
    BY <1>2 DEF SimulationEntry, SimulationExit, IInv, TypeOK
  <2> QED BY <2>1 DEF Booked, CapInv, Held
<1> QED BY <1>1, <1>2

\* A selection changes no held intent.
LEMMA SelectionBooked ==
  ASSUME IInv, CapInv, NEW i \in Alert, NEW j \in Alert, NEW power, NEW price, NEW g, NEW age,
         AttestSelection(j, power, price, g, age)
  PROVE  Booked(i)' /\ (Held(i)' => Same(i))
<1>1. CASE i # j
  <2>1. Plain(i)
    BY <1>1 DEF AttestSelection, Plain, IInv, TypeOK
  <2> QED BY <2>1, PlainStep DEF CapInv, IInv
<1>2. CASE i = j
  <2>1. /\ Kind[i] = "DYNAMIC" /\ status[i] \in {"SHADOW", "READY"}
        /\ UNCHANGED <<status, createdDay, today, trades, mode>>
    BY <1>2 DEF AttestSelection
  <2> QED BY <2>1 DEF Booked, CapInv, Held
<1> QED BY <1>1, <1>2

\* Nor does a capital review.
LEMMA CapitalBooked ==
  ASSUME IInv, CapInv, NEW i \in Alert, NEW j \in Alert, NEW power, NEW age, AttestCapital(j, power, age)
  PROVE  Booked(i)' /\ (Held(i)' => Same(i))
<1>1. Plain(i)
  <2>1. CASE Halt({j})
    BY <2>1 DEF AttestCapital, Halt, Plain
  <2>2. CASE UNCHANGED <<status, revoked>>
    BY <2>2 DEF AttestCapital, Plain
  <2> QED BY <2>1, <2>2 DEF AttestCapital
<1> QED BY <1>1, PlainStep DEF CapInv, IInv

\* The clock, a poll and a claim that is refused keep to it.
LEMMA TimeBooked ==
  ASSUME IInv, CapInv, NEW i \in Alert,
         Tick \/ Poll \/ UNCHANGED vars \/ \E j \in Alert : ClaimRefused(j) \/ ClaimExpired(j)
  PROVE  Booked(i)' /\ (Held(i)' => Same(i))
<1> SUFFICES Plain(i)
  BY PlainStep DEF CapInv, IInv
<1>1. CASE Tick
  BY <1>1 DEF Tick, Plain
<1>2. CASE Poll
  <2>1. status'[i] = status[i] \/ status'[i] \in {"EXPIRED", "BLOCKED"}
    BY <1>2 DEF Poll
  <2> QED BY <1>2, <2>1 DEF Poll, Plain
<1>3. CASE UNCHANGED vars
  BY <1>3 DEF vars, Plain
<1>4. ASSUME NEW j \in Alert, ClaimRefused(j) PROVE Plain(i)
  BY <1>4, HaltPlain DEF ClaimRefused, IInv
<1>5. ASSUME NEW j \in Alert, ClaimExpired(j) PROVE Plain(i)
  <2>1. status'[i] = status[i] \/ status'[i] = "EXPIRED"
    BY <1>5 DEF ClaimExpired, IInv, TypeOK
  <2> QED BY <1>5, <2>1 DEF ClaimExpired, Plain
<1> QED BY <1>1, <1>2, <1>3, <1>4, <1>5

\* A claim holds its own intent and changes no other.
LEMMA ClaimBooked ==
  ASSUME IInv, CapInv, NEW i \in Alert, NEW j \in Alert, ClaimGranted(j)
  PROVE  Booked(i)' /\ (Held(i)' => Same(i) \/ i = j)
<1>1. CASE i # j
  <2>1. Plain(i)
    BY <1>1 DEF ClaimGranted, Plain, IInv, TypeOK
  <2> QED BY <2>1, PlainStep DEF CapInv, IInv
<1>2. CASE i = j
  <2>1. status'[i] = "CLAIMED" /\ UNCHANGED <<selection, createdDay, today>>
    BY <1>2 DEF ClaimGranted, IInv, TypeOK
  <2> QED BY <1>2, <2>1 DEF Booked, CapInv
<1> QED BY <1>1, <1>2

\* Only a granted claim adds to what the caps count.
LEMMA OnlyClaimsAdd ==
  ASSUME IInv, CapInv, [Next]_vars, NEW i \in Alert
  PROVE  Booked(i)' /\ (Held(i)' => Same(i) \/ ClaimGranted(i))
<1>1. CASE OperatorNext
  BY <1>1, OperatorPlain, PlainStep DEF CapInv, IInv
<1>2. CASE LiveLoopNext
  BY <1>2, LiveLoopBooked
<1>3. CASE AgentNext
  <2>1. ASSUME NEW j \in Alert, NEW power \in Power, NEW price \in Price, NEW g \in Grade,
               NEW age \in Lag, AttestSelection(j, power, price, g, age)
        PROVE  Booked(i)' /\ (Held(i)' => Same(i))
    BY <2>1, SelectionBooked
  <2>2. ASSUME NEW j \in Alert, NEW power \in Power, NEW age \in Lag, AttestCapital(j, power, age)
        PROVE  Booked(i)' /\ (Held(i)' => Same(i))
    BY <2>2, CapitalBooked
  <2>3. ASSUME NEW j \in Alert, ClaimGranted(j)
        PROVE  Booked(i)' /\ (Held(i)' => Same(i) \/ ClaimGranted(i))
    BY <2>3, ClaimBooked
  <2>4. ASSUME NEW j \in Alert, NEW receipt \in Status, RecordReceipt(j, receipt)
        PROVE  Booked(i)' /\ (Held(i)' => Same(i))
    BY <2>4, ReceiptBooked
  <2>5. ASSUME NEW j \in Alert, SimulationEntry(j) \/ SimulationExit(j)
        PROVE  Booked(i)' /\ (Held(i)' => Same(i))
    BY <2>5, SimulationBooked
  <2>6. CASE Poll \/ \E j \in Alert : ClaimRefused(j) \/ ClaimExpired(j)
    BY <2>6, TimeBooked
  <2> QED BY <1>3, <2>1, <2>2, <2>3, <2>4, <2>5, <2>6 DEF AgentNext
<1>4. CASE Tick \/ UNCHANGED vars
  BY <1>4, TimeBooked
<1> QED BY <1>1, <1>2, <1>3, <1>4 DEF Next

\* What an operator that keeps the caps, and the clock, leave of the bounds.
LEMMA BoundsStay ==
  ASSUME CapsFixed, IInv, [Next]_vars
  PROVE  policy'.limits = policy.limits /\ today' \in {today, today + 1} /\ now' >= now
<1> USE DEF IInv
<1> DEFINE Goal == policy'.limits = policy.limits /\ today' \in {today, today + 1} /\ now' >= now
<1>1. now \in Nat
  BY TimeAssumption DEF TypeOK
<1>2. UNCHANGED <<policy, now, today>> => Goal
  BY <1>1
<1> HIDE DEF Goal
<1>3. CASE OperatorNext
  <2>1. ASSUME NEW minutes \in LiveMinutes, NEW lim \in Limits, SwitchLive(minutes, lim)
        PROVE  Goal
    BY <1>1, <2>1 DEF SwitchLive, Admissible, Goal
  <2>2. ASSUME NEW lim \in Limits, SwitchSimulation(lim)
        PROVE  Goal
    BY <1>1, <2>2 DEF SwitchSimulation, Admissible, Goal
  <2>3. ASSUME NEW i \in Alert, Reject(i)
        PROVE  Goal
    BY <1>2, <2>3 DEF Reject
  <2> QED BY <1>3, <2>1, <2>2, <2>3 DEF OperatorNext, Goal
<1>4. CASE LiveLoopNext
  <2>1. UNCHANGED <<policy, now, today>>
    BY <1>4, Zenon DEF LiveLoopNext, EmitAlert, FromAlert, Quarantine, AcceptBars, MarketClose,
                       Recalibrate, clockVars
  <2> QED BY <1>2, <2>1 DEF Goal
<1>5. CASE AgentNext
  <2>1. UNCHANGED <<policy, now, today>>
    BY <1>5, Zenon DEF AgentNext, AttestSelection, AttestCapital, ClaimRefused, ClaimExpired, ClaimGranted,
                       RecordReceipt, SimulationEntry, SimulationExit, Poll, clockVars
  <2> QED BY <1>2, <2>1 DEF Goal
<1>6. CASE Tick
  BY <1>1, <1>6 DEF Tick, Goal
<1>7. CASE UNCHANGED vars
  BY <1>2, <1>7 DEF vars, Goal
<1> QED BY <1>3, <1>4, <1>5, <1>6, <1>7 DEF Next, Goal

\* The two bounds, on the named sets.
DailyBound == Total(Charges, Exposed) <= policy.limits.daily
OpenBound  == Cardinality(Claims) <= policy.limits.maxOpen

LEMMA ChargesType ==
  ASSUME TypeOK
  PROVE  Charges \in [Alert -> Nat]
BY AlertAssumption DEF TypeOK, Charges, Charge

LEMMA LimitsType ==
  ASSUME TypeOK
  PROVE  policy.limits.daily \in Nat /\ policy.limits.maxOpen \in Nat /\ policy.limits.maxOpen >= 1
BY PolicyAssumption DEF TypeOK, LimitRecord

\* The sum of a part of the alerts.
LEMMA PartType ==
  ASSUME IsFiniteSet(Alert), TypeOK, NEW S \in SUBSET Alert
  PROVE  Total(Charges, S) \in Nat
<1>1. PICK g \in [SUBSET Alert -> Nat] : Sums(g, Charges, Alert)
  BY ChargesType, SumsExist
<1> QED BY <1>1, TotalIs

\* A claim is charged what its order risks now.
LEMMA ClaimCharges ==
  ASSUME IInv, CapInv, NEW c \in Alert, ClaimGranted(c)
  PROVE  Charge(c) = (IF Kind[c] = "DYNAMIC" THEN Required(c) ELSE DollarRisk[c]) /\ Charge(c) \in Nat
<1> USE DEF IInv
<1>1. selection[c].debit \in Nat /\ DollarRisk[c] \in Nat
  BY AlertAssumption DEF TypeOK
<1>2. CASE Kind[c] = "DYNAMIC"
  <2>1. Required(c) = selection[c].debit /\ Required(c) > 0
    BY <1>2 DEF Required, ClaimGranted, CapitalAllows
  <2> QED BY <1>1, <1>2, <2>1 DEF Charge
<1>3. CASE Kind[c] # "DYNAMIC"
  <2>1. selection[c] = NoSelection
    BY <1>3 DEF CapInv, Booked
  <2>2. selection[c].debit = 0
    BY <2>1 DEF NoSelection
  <2> QED BY <1>1, <1>3, <2>2 DEF Charge
<1> QED BY <1>2, <1>3

\* A claim fits what the day still has left (_capital_check_reason).
LEMMA ClaimFits ==
  ASSUME IsFiniteSet(Alert), IInv, CapInv, NEW c \in Alert, ClaimGranted(c)
  PROVE  Charge(c) = 0 \/ Charge(c) + Total(Charges, ChargedToday(c)) <= policy.limits.daily
<1> USE DEF IInv
<1> DEFINE sum == Total(Charges, ChargedToday(c))
           risk == IF Kind[c] = "DYNAMIC" THEN Required(c) ELSE DollarRisk[c]
<1>1. ChargedToday(c) \in SUBSET Alert
  BY DEF ChargedToday
<1>2. MapThenSumSet(Charge, ChargedToday(c)) = sum /\ sum \in Nat
  BY <1>1, ChargesAdd, PartType DEF ChargesSum
<1>3. Charge(c) = risk /\ risk \in Nat
  BY ClaimCharges
<1>4. risk <= RemainingDailyRisk(c)
  BY DEF ClaimGranted, CapitalAllows
<1> HIDE DEF sum, risk
<1>5. RemainingDailyRisk(c) = Max({0, policy.limits.daily - sum})
  BY <1>2 DEF RemainingDailyRisk
<1>6. \A x \in Int : Max({0, x}) \in {0, x}
  <2> SUFFICES ASSUME NEW x \in Int PROVE Max({0, x}) \in {0, x}
    OBVIOUS
  <2>1. \E m \in {0, x} : \A y \in {0, x} : m >= y
    OBVIOUS
  <2> QED BY <2>1 DEF Max
<1>7. policy.limits.daily - sum \in Int /\ policy.limits.daily \in Nat
  BY <1>2, LimitsType
<1>8. RemainingDailyRisk(c) \in {0, policy.limits.daily - sum}
  BY <1>5, <1>6, <1>7
<1>9. Charge(c) = 0 \/ Charge(c) + sum <= policy.limits.daily
  BY <1>2, <1>3, <1>4, <1>7, <1>8
<1> QED BY <1>9 DEF sum

\* What a claim leaves of the day: it is added to what was exposed before, and
\* the whole fits the cap in force.
LEMMA ClaimInsideDay ==
  ASSUME IsFiniteSet(Alert), IInv, CapInv, NEW c \in Alert, ClaimGranted(c)
  PROVE  /\ Charges' = Charges /\ Exposed' \cup {c} \in SUBSET Alert
         /\ Charge(c) > 0 => Total(Charges, Exposed' \cup {c}) <= policy.limits.daily
<1> DEFINE E == (Exposed' \cup {c}) \ {c}
<1>1. TypeOK /\ today' = today /\ selection' = selection
  BY DEF ClaimGranted, IInv
<1>2. Charges' = Charges /\ Charges \in [Alert -> Nat]
  BY <1>1, ChargesType DEF Charges, Charge
<1>3. Exposed' \cup {c} \in SUBSET Alert /\ E \in SUBSET Alert /\ ChargedToday(c) \in SUBSET Alert
  BY DEF Exposed, ChargedToday
<1>4. E \subseteq ChargedToday(c)
  <2> SUFFICES ASSUME NEW i \in Alert, i \in Exposed', i # c PROVE i \in ChargedToday(c)
    BY <1>3
  <2>1. Held(i)' /\ createdDay'[i] = today
    BY <1>1 DEF Exposed, Held
  <2>2. Same(i)
    BY <2>1, ClaimBooked
  <2> QED BY <2>1, <2>2 DEF Same, Held, ChargedToday
<1> HIDE DEF E
<1>5. Total(Charges, Exposed' \cup {c}) = Charges[c] + Total(Charges, E)
  <2>1. (Exposed' \cup {c}) \ {c} = E /\ c \in Exposed' \cup {c}
    BY DEF E
  <2> QED BY <1>2, <1>3, <2>1, TotalSplit
<1>6. Total(Charges, E) <= Total(Charges, ChargedToday(c))
  BY <1>2, <1>3, <1>4, TotalGrows
<1>7. /\ Total(Charges, E) \in Nat /\ Total(Charges, ChargedToday(c)) \in Nat
      /\ policy.limits.daily \in Nat
  BY <1>1, <1>3, PartType, LimitsType
<1>8. Charges[c] = Charge(c) /\ Charge(c) \in Nat
  BY <1>2 DEF Charges
<1>9. Charge(c) = 0 \/ Charge(c) + Total(Charges, ChargedToday(c)) <= policy.limits.daily
  BY ClaimFits
<1>10. Charge(c) > 0 => Total(Charges, Exposed' \cup {c}) <= policy.limits.daily
  BY <1>5, <1>6, <1>7, <1>8, <1>9
<1> QED BY <1>2, <1>3, <1>10

\* A claim finds the open intents below their limit and is one more.
LEMMA ClaimInsideOpen ==
  ASSUME IsFiniteSet(Alert), IInv, CapInv, NEW c \in Alert, ClaimGranted(c)
  PROVE  Cardinality(Claims') <= policy.limits.maxOpen
<1> DEFINE O == OpenIntents \ {c}
<1>1. Cardinality(O) < policy.limits.maxOpen /\ policy.limits.maxOpen \in Nat
  BY LimitsType DEF ClaimGranted, PolicyAllows, IInv
<1>2. IsFiniteSet(O)
  BY FS_Subset DEF OpenIntents
<1>3. Claims' \subseteq O \cup {c}
  <2> SUFFICES ASSUME NEW i \in Claims', i # c PROVE i \in OpenIntents
    OBVIOUS
  <2>1. i \in Alert /\ Held(i)' /\ status'[i] # "CLOSED" /\ ~Expired(i)'
    BY DEF Claims, Held
  <2>2. Same(i)
    BY <2>1, ClaimBooked
  <2>3. ~Expired(i)
    BY <2>1 DEF ClaimGranted, Expired, clockVars, alertVars
  <2> QED BY <2>1, <2>2, <2>3 DEF Same, Held, OpenIntents, Terminal, Absent
<1>4. c \notin O
  OBVIOUS
<1> HIDE DEF O
<1>5. IsFiniteSet(O \cup {c}) /\ Cardinality(O \cup {c}) = Cardinality(O) + 1
  BY <1>2, <1>4, FS_AddElement
<1>6. Cardinality(Claims') <= Cardinality(O \cup {c}) /\ IsFiniteSet(Claims')
  BY <1>3, <1>5, FS_Subset
<1>7. Cardinality(Claims') \in Nat /\ Cardinality(O) \in Nat
  BY <1>2, <1>6, FS_CardinalityType
<1> QED BY <1>1, <1>5, <1>6, <1>7

LEMMA DailyStep ==
  ASSUME CapsFixed, IsFiniteSet(Alert), IInv, CapInv, DailyBound, [Next]_vars
  PROVE  DailyBound'
<1>1. TypeOK /\ TypeOK'
  BY TypeStep DEF IInv
<1>2. policy'.limits = policy.limits /\ today' \in {today, today + 1} /\ today \in Nat
  BY <1>1, BoundsStay, TimeAssumption DEF TypeOK
<1>3. \A i \in Alert : Held(i)' => Same(i) \/ ClaimGranted(i)
  BY OnlyClaimsAdd
<1>4. Exposed \in SUBSET Alert /\ Exposed' \in SUBSET Alert
  BY DEF Exposed, Held
<1>5. Charges \in [Alert -> Nat]
  BY <1>1, ChargesType
<1>6. CASE today' # today
  <2>1. Exposed' = {}
    <3> SUFFICES ASSUME NEW i \in Alert, Held(i)', createdDay'[i] = today' PROVE FALSE
      BY DEF Exposed, Held
    <3>1. Same(i)
      BY <1>3, <1>6 DEF ClaimGranted
    <3> QED BY <1>2, <1>6, <3>1 DEF Same, CapInv, Booked, IInv, TypeOK
  <2>2. Total(Charges, Exposed)' = 0
    BY <2>1, TotalEmpty
  <2> QED BY <1>1, <1>2, <2>2, LimitsType DEF DailyBound
<1>7. CASE today' = today /\ \A i \in Alert : ~ClaimGranted(i)
  <2>1. Exposed' \subseteq Exposed /\ \A i \in Exposed' : selection'[i] = selection[i]
    BY <1>3, <1>7 DEF Exposed, Same, Held
  <2>2. \A i \in Exposed' : Charges[i] = Charges'[i] /\ Charges[i] \in Nat
    BY <1>4, <1>5, <2>1 DEF Charges, Charge
  <2>3. IsFiniteSet(Exposed')
    BY <1>4, FS_Subset
  <2>4. Total(Charges, Exposed)' = Total(Charges, Exposed')
    BY <2>2, <2>3, TotalSame
  <2>5. Total(Charges, Exposed') <= Total(Charges, Exposed)
    BY <1>4, <1>5, <2>1, TotalGrows
  <2>6. Total(Charges, Exposed') \in Nat /\ Total(Charges, Exposed) \in Nat /\ policy.limits.daily \in Nat
    BY <1>1, <1>4, PartType, LimitsType
  <2> QED BY <1>2, <2>4, <2>5, <2>6 DEF DailyBound
<1>8. ASSUME NEW c \in Alert, ClaimGranted(c) PROVE DailyBound'
  <2>1. /\ Charges' = Charges /\ Exposed' \cup {c} \in SUBSET Alert
        /\ Charge(c) > 0 => Total(Charges, Exposed' \cup {c}) <= policy.limits.daily
    BY <1>8, ClaimInsideDay
  <2>2. Total(Charges, Exposed') <= Total(Charges, Exposed' \cup {c})
    BY <1>5, <2>1, TotalGrows
  <2>3. Charges[c] = Charge(c) /\ Charge(c) \in Nat
    BY <1>5 DEF Charges
  <2>4. /\ Total(Charges, Exposed') \in Nat /\ Total(Charges, Exposed) \in Nat
        /\ Total(Charges, Exposed' \cup {c}) \in Nat /\ policy.limits.daily \in Nat
    BY <1>1, <1>4, <2>1, PartType, LimitsType
  <2>5. CASE Charge(c) > 0
    BY <1>2, <2>1, <2>2, <2>4, <2>5 DEF DailyBound
  <2>6. CASE Charge(c) = 0
    <3> DEFINE E == Exposed' \ {c}
    <3>1. E \subseteq Exposed
      <4> SUFFICES ASSUME NEW i \in Alert, i \in Exposed', i # c PROVE i \in Exposed
        BY <1>4
      <4>1. Held(i)' /\ createdDay'[i] = today /\ today' = today
        BY <1>8 DEF Exposed, Held, ClaimGranted, clockVars
      <4>2. Same(i)
        BY <1>8, <4>1, ClaimBooked
      <4> QED BY <4>1, <4>2 DEF Same, Held, Exposed
    <3> HIDE DEF E
    <3>2. E \in SUBSET Alert /\ Exposed' \cup {c} = E \cup {c} /\ (E \cup {c}) \ {c} = E
      BY <1>4 DEF E
    <3>3. Total(Charges, E \cup {c}) = Charges[c] + Total(Charges, E)
      BY <1>5, <2>1, <3>2, TotalSplit
    <3>4. Total(Charges, E) <= Total(Charges, Exposed) /\ Total(Charges, E) \in Nat
      BY <1>1, <1>4, <1>5, <3>1, <3>2, TotalGrows, PartType
    <3> QED BY <1>2, <2>1, <2>2, <2>3, <2>4, <2>6, <3>2, <3>3, <3>4 DEF DailyBound
  <2> QED BY <2>3, <2>5, <2>6
<1> QED BY <1>2, <1>6, <1>7, <1>8

LEMMA OpenStep ==
  ASSUME CapsFixed, IsFiniteSet(Alert), IInv, CapInv, OpenBound, [Next]_vars
  PROVE  OpenBound'
<1>1. TypeOK
  BY DEF IInv
<1>2. policy'.limits = policy.limits /\ now' >= now /\ policy.limits.maxOpen \in Nat
  BY <1>1, BoundsStay, LimitsType
<1>3. TypeOK'
  BY <1>1, TypeStep
<1>4. ASSUME NEW i \in Claims', Same(i) PROVE i \in Claims
  <2>1. ~Expired(i)' /\ validUntil'[i] = validUntil[i]
    BY <1>4 DEF Claims, Same, Held
  <2>2. now \in Int /\ now' \in Int /\ validUntil[i] \in Int
    BY <1>1, <1>3, TimeAssumption DEF TypeOK, Claims, Held
  <2>3. ~Expired(i)
    BY <1>2, <2>1, <2>2 DEF Expired
  <2> QED BY <1>4, <2>3 DEF Claims, Same, Held
<1>5. Claims \in SUBSET Alert /\ Claims' \in SUBSET Alert
  BY DEF Claims, Held
<1>6. IsFiniteSet(Claims)
  BY <1>5, FS_Subset
<1>7. CASE \A i \in Alert : ~ClaimGranted(i)
  <2>1. Claims' \subseteq Claims
    BY <1>4, <1>7, OnlyClaimsAdd DEF Claims, Held
  <2>2. Cardinality(Claims') <= Cardinality(Claims) /\ IsFiniteSet(Claims')
    BY <1>6, <2>1, FS_Subset
  <2>3. Cardinality(Claims') \in Nat /\ Cardinality(Claims) \in Nat
    BY <1>6, <2>2, FS_CardinalityType
  <2> QED BY <1>2, <2>2, <2>3 DEF OpenBound
<1>8. ASSUME NEW c \in Alert, ClaimGranted(c) PROVE OpenBound'
  BY <1>2, <1>8, ClaimInsideOpen DEF OpenBound
<1> QED BY <1>7, <1>8

-----------------------------------------------------------------------------
\* Every intent is booked in every reachable state.
LEMMA CapsBooked == Spec => []CapInv
<1>1. Init => CapInv
  BY DEF Init, CapInv, Booked, Absent
<1>2. IInv /\ CapInv /\ [Next]_vars => CapInv'
  BY OnlyClaimsAdd DEF CapInv
<1> QED BY <1>1, <1>2, IntentsSound, PTL DEF Spec

\* At the start nothing is exposed and nothing is claimed.
LEMMA NothingHeld ==
  ASSUME Init
  PROVE  Exposed = {} /\ Claims = {} /\ TypeOK
<1>1. \A i \in Alert : ~Held(i)
  BY DEF Init, Held
<1> QED BY <1>1, TypeInit DEF Exposed, Claims, Held

\* While the operator keeps the caps, the live claims and fills of the day stay
\* inside the daily cap, for any caps, any charges and any number of intents
\* (claim and _capital_check_reason, whose sum leaves out the claimant).
THEOREM DailyExposureCapped ==
  ASSUME CapsFixed, IsFiniteSet(Alert)
  PROVE  Spec => []DailyExposureWithinCap
<1>1. Init => DailyBound
  <2> SUFFICES ASSUME Init PROVE DailyBound
    OBVIOUS
  <2>1. Total(Charges, Exposed) = 0
    BY NothingHeld, TotalEmpty
  <2> QED BY <2>1, NothingHeld, LimitsType DEF DailyBound
<1>2. IInv /\ CapInv /\ DailyBound /\ [Next]_vars => DailyBound'
  BY DailyStep
<1>3. IInv /\ DailyBound => DailyExposureWithinCap
  <2> SUFFICES ASSUME IInv, DailyBound PROVE DailyExposureWithinCap
    OBVIOUS
  <2>1. Exposed \in SUBSET Alert
    BY DEF Exposed, Held
  <2>2. MapThenSumSet(Charge, Exposed) = Total(Charges, Exposed)
    BY <2>1, ChargesAdd DEF ChargesSum, IInv
  <2>3. Exposed = {i \in Alert : /\ mode[i] = "LIVE" /\ createdDay[i] = today
                                 /\ status[i] \in {"CLAIMED", "EXECUTED", "CLOSED"}
                                 /\ ~LateFill(i)}
    BY DEF Exposed, Held
  <2> QED BY <2>2, <2>3 DEF DailyBound, DailyExposureWithinCap
<1> QED BY <1>1, <1>2, <1>3, CapsBooked, IntentsSound, PTL DEF Spec

\* While the operator keeps the caps, no more unexpired intents than the limit
\* are claimed or hold a position (_current_claim_policy_reason).
THEOREM OpenExposureCapped ==
  ASSUME CapsFixed, IsFiniteSet(Alert)
  PROVE  Spec => []OpenExposureWithinCap
<1>1. Init => OpenBound
  <2> SUFFICES ASSUME Init PROVE OpenBound
    OBVIOUS
  <2>1. Cardinality(Claims) = 0
    BY NothingHeld, FS_EmptySet
  <2> QED BY <2>1, NothingHeld, LimitsType DEF OpenBound
<1>2. IInv /\ CapInv /\ OpenBound /\ [Next]_vars => OpenBound'
  BY OpenStep
<1>3. OpenBound => OpenExposureWithinCap
  <2>1. Claims = {i \in Alert : /\ mode[i] = "LIVE" /\ status[i] \in {"CLAIMED", "EXECUTED"}
                                /\ ~Expired(i) /\ ~LateFill(i)}
    BY DEF Claims, Held
  <2> QED BY <2>1 DEF OpenBound, OpenExposureWithinCap
<1> QED BY <1>1, <1>2, <1>3, CapsBooked, IntentsSound, PTL DEF Spec

\* Only a claim writes a lease.
LEMMA OnlyClaimsLease ==
  ASSUME TypeOK, [Next]_vars, NEW i \in Alert, lease'[i] # lease[i]
  PROVE  ClaimGranted(i)
<1>1. lease' # lease
  OBVIOUS
<1>2. ~UNCHANGED vars /\ ~Tick
  BY <1>1 DEF vars, Tick, intentVars
<1>3. ~OperatorNext
  BY <1>1, Zenon DEF OperatorNext, SwitchLive, SwitchSimulation, Reject, intentVars
<1>4. ~LiveLoopNext
  BY <1>1, Zenon DEF LiveLoopNext, EmitAlert, FromAlert, CreateIntent, Quarantine, AcceptBars, MarketClose,
                     Recalibrate, claimVars, intentVars
<1>5. AgentNext
  BY <1>2, <1>3, <1>4 DEF Next
<1>6. \E j \in Alert : ClaimGranted(j)
  BY <1>1, <1>5, Zenon DEF AgentNext, AttestSelection, AttestCapital, ClaimRefused, ClaimExpired,
                           RecordReceipt, SimulationEntry, SimulationExit, Poll, claimVars
<1>7. PICK j \in Alert : ClaimGranted(j)
  BY <1>6
<1>8. lease' = [lease EXCEPT ![j] = LeaseEnd(j)] /\ lease \in [Alert -> Nat]
  BY <1>7 DEF ClaimGranted, TypeOK
<1> QED BY <1>7, <1>8

\* Whatever caps the operator sets between creation, selection, review and
\* claim, a claim fits the ones in force when it is granted, for any number of
\* intents and any caps (_current_claim_policy_reason, _capital_check_reason).
THEOREM ClaimsFitCaps ==
  ASSUME IsFiniteSet(Alert)
  PROVE  Spec => ClaimFitsCapsInForce
<1>1. ASSUME IInv, CapInv, [Next]_vars, NEW i \in Alert, lease'[i] # lease[i]
      PROVE  /\ Charge(i) <= policy.limits.perOrder
             /\ Charge(i) > 0 => MapThenSumSet(Charge, Exposed' \cup {i}) <= policy.limits.daily
             /\ Cardinality(Claims') <= policy.limits.maxOpen
             /\ Required(i) * 100 <= capital[i].power * policy.limits.fraction
  <2>1. ClaimGranted(i) /\ TypeOK
    BY <1>1, OnlyClaimsLease DEF IInv
  <2>2. Charge(i) <= policy.limits.perOrder
    BY <1>1, <2>1, ClaimCharges DEF ClaimGranted, CapitalAllows
  <2>3. Charge(i) > 0 => MapThenSumSet(Charge, Exposed' \cup {i}) <= policy.limits.daily
    <3>1. Exposed' \cup {i} \in SUBSET Alert
      BY <1>1, <2>1, ClaimInsideDay
    <3>2. MapThenSumSet(Charge, Exposed' \cup {i}) = Total(Charges, Exposed' \cup {i})
      BY <2>1, <3>1, ChargesAdd DEF ChargesSum
    <3> QED BY <1>1, <2>1, <3>2, ClaimInsideDay
  <2>4. Cardinality(Claims') <= policy.limits.maxOpen
    BY <1>1, <2>1, ClaimInsideOpen
  <2>5. Required(i) * 100 <= capital[i].power * policy.limits.fraction
    BY <2>1 DEF ClaimGranted, CapitalAllows, ReviewPasses
  <2> QED BY <2>2, <2>3, <2>4, <2>5
<1>2. IInv /\ CapInv /\ [Next]_vars =>
    [\A i \in Alert : lease'[i] # lease[i] =>
       /\ Charge(i) <= policy.limits.perOrder
       /\ Charge(i) > 0 => MapThenSumSet(Charge, Exposed' \cup {i}) <= policy.limits.daily
       /\ Cardinality(Claims') <= policy.limits.maxOpen
       /\ Required(i) * 100 <= capital[i].power * policy.limits.fraction]_vars
  BY <1>1
<1> QED BY <1>2, CapsBooked, IntentsSound, PTL DEF Spec, ClaimFitsCapsInForce
=============================================================================
