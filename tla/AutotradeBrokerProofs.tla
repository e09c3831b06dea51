------------------------ MODULE AutotradeBrokerProofs ------------------------
(***************************************************************************)
(* Proofs about the manager with its agent and its broker: the composition *)
(* implements the manager alone, the gateway accepts what the broker did,  *)
(* and once all is told both agree on what is open.                        *)
(*                                                                         *)
(* The inductive invariant reads the outbox as a chain of reports: every   *)
(* one is acceptable to the gateway after the one before it, and after the *)
(* last one the gateway knows what became of the order.                    *)
(***************************************************************************)
EXTENDS AutotradeBroker, AutotradeProofs

USE DEF clockVars, alertVars, planVars, claimVars, intentVars, brokerVars

\* The status the gateway gives an intent for an answer about its order.
Result(o, answer) ==
  IF answer = "FAILED" /\ o \in {"FILLED", "CLOSED"} THEN "EXECUTED" ELSE answer

\* The status of the intent once its first k reports are posted.
Known(i, k) == IF k = 0 THEN status[i] ELSE Result(order[i], outbox[i][k].status)

\* What it must be once all of them are.
Truth(o) ==
  CASE o = "WORKING"   -> {"CLAIMED"}
    [] o = "REFUSED"   -> {"REJECTED", "FAILED"}
    [] o = "CANCELLED" -> {"CANCELLED"}
    [] o = "FILLED"    -> {"EXECUTED"}
    [] o = "CLOSED"    -> {"CLOSED"}
    [] OTHER           -> {}

Chained(i) ==
  \A k \in 1..Len(outbox[i]) :
    /\ outbox[i][k].status \in ReceiptAllowed(Known(i, k - 1))
    /\ StatusAfter(Known(i, k - 1), outbox[i][k].status) = Known(i, k)

OrderSound(i) ==
  /\ position[i] > 0 <=> order[i] = "FILLED"
  /\ order[i] = "NONE" =>
       /\ outbox[i] = <<>>
       /\ mode[i] = "LIVE" => status[i] # "EXECUTED"
       /\ i \in fetched => mode[i] = "LIVE" /\ status[i] = "CLAIMED"
  /\ order[i] # "NONE" =>
       /\ mode[i] = "LIVE"
       /\ Chained(i)
       /\ Known(i, Len(outbox[i])) \in Truth(order[i])

Trading == fetched \subseteq Alert
           /\ order \in [Alert -> OrderState]
           /\ position \in [Alert -> 0..Contracts]
           /\ outbox \in [Alert -> Seq([status : Receipts, quantity : 0..Contracts])]
           /\ entered \in [Alert -> 0..Contracts]

BrokerInv == IInv /\ Trading /\ \A i \in Alert : OrderSound(i)

-----------------------------------------------------------------------------
(* The manager's part.                                                     *)

\* The composition takes no step the manager alone could not take.
LEMMA ManagerStep == [TradingNext]_allVars => [Next]_vars
<1>1. ASSUME ManagerNext PROVE Next
  BY <1>1 DEF ManagerNext, Next, AgentNext
<1>2. ASSUME Fetch PROVE Next
  BY <1>2 DEF Fetch, Next, AgentNext
<1>3. ASSUME NEW i \in Alert, PlaceOrder(i) PROVE UNCHANGED vars
  BY <1>3 DEF PlaceOrder
<1>4. ASSUME NEW i \in Alert, Post(i) PROVE Next
  <2>1. RecordReceipt(i, Head(outbox[i]).status)
    BY <1>4 DEF Post
  <2>2. Head(outbox[i]).status \in Status
    BY <2>1 DEF RecordReceipt, ReceiptAllowed, Status, Terminal
  <2> QED BY <2>1, <2>2 DEF Next, AgentNext
<1>5. ASSUME BrokerNext PROVE UNCHANGED vars
  BY <1>5 DEF BrokerNext, Refuse, Fill, ExitFails, Exit
<1>6. UNCHANGED allVars => UNCHANGED vars
  BY DEF allVars
<1> QED BY <1>1, <1>2, <1>3, <1>4, <1>5, <1>6 DEF TradingNext, PostNext

\* What the manager proves of itself holds with the agent and the broker around
\* it: the composition implements the manager.
THEOREM ManagerInside == TradingSpec => Spec
<1>1. TradingInit => Init
  BY DEF TradingInit
<1> QED BY <1>1, ManagerStep, PTL DEF TradingSpec, Spec

\* A manager step leaves an intent whose work was claimed or is over where it is,
\* and opens no position.
Steady(i) ==
  /\ status[i] \notin Blockable \cup {Absent} => status'[i] = status[i] /\ mode'[i] = mode[i]
  /\ status'[i] = "EXECUTED" => status[i] = "EXECUTED"

LEMMA HaltSteady ==
  ASSUME TypeOK, NEW i \in Alert, NEW S, Halt(S), mode' = mode
  PROVE  Steady(i)
<1> QED BY DEF TypeOK, Halt, Steady, Blockable

LEMMA CreateSteady ==
  ASSUME TypeOK, NEW i \in Alert, NEW a \in Alert, NEW st, NEW t, CreateIntent(a, st, t), status[a] = Absent
  PROVE  Steady(i)
<1> QED BY DEF TypeOK, CreateIntent, Steady

LEMMA OperatorSteady ==
  ASSUME IInv, NEW i \in Alert, OperatorNext
  PROVE  Steady(i)
<1>1. ASSUME NEW minutes \in LiveMinutes, NEW lim \in Limits, SwitchLive(minutes, lim)
      PROVE  Steady(i)
  BY <1>1 DEF SwitchLive, Steady
<1>2. ASSUME NEW lim \in Limits, SwitchSimulation(lim)
      PROVE  Steady(i)
  BY <1>2, HaltSteady DEF SwitchSimulation, IInv
<1>3. ASSUME NEW j \in Alert, Reject(j)
      PROVE  Steady(i)
  <2>1. CASE Halt({j})
    BY <1>3, <2>1, HaltSteady DEF Reject, IInv
  <2>2. CASE status[j] \in Blockable /\ status' = [status EXCEPT ![j] = "REJECTED"]
    BY <1>3, <2>2 DEF Reject, IInv, TypeOK, Steady
  <2> QED BY <1>3, <2>1, <2>2 DEF Reject
<1> QED BY <1>1, <1>2, <1>3 DEF OperatorNext

LEMMA LiveLoopSteady ==
  ASSUME IInv, NEW i \in Alert, LiveLoopNext
  PROVE  Steady(i)
<1>1. ASSUME NEW a \in Alert, NEW replay \in BOOLEAN, EmitAlert(a, replay)
      PROVE  Steady(i)
  <2>1. status[a] = Absent
    BY <1>1 DEF EmitAlert, IInv, Sound, Listed
  <2>2. ASSUME NEW st, NEW t, CreateIntent(a, st, t)
        PROVE  Steady(i)
    BY <2>1, <2>2, CreateSteady DEF IInv
  <2>3. CASE UNCHANGED intentVars
    BY <2>3 DEF Steady
  <2> QED BY <1>1, <2>2, <2>3 DEF EmitAlert
<1>2. ASSUME NEW a \in Alert, FromAlert(a)
      PROVE  Steady(i)
  <2>1. CASE status[a] = Absent /\ CreateIntent(a, alert[a], validUntil[a])
    BY <2>1, CreateSteady DEF IInv
  <2>2. CASE Halt({a}) /\ UNCHANGED <<planVars, lease, trades>>
    BY <2>2, HaltSteady DEF IInv
  <2> QED BY <1>2, <2>1, <2>2 DEF FromAlert
<1>3. ASSUME NEW s \in Symbol, Quarantine(s)
      PROVE  Steady(i)
  BY <1>3, HaltSteady DEF Quarantine, IInv
<1>4. ASSUME NEW s \in Symbol, NEW actionable \in BOOLEAN, AcceptBars(s, actionable)
      PROVE  Steady(i)
  BY <1>4 DEF AcceptBars, Steady
<1>5. CASE MarketClose
  BY <1>5 DEF MarketClose, Steady
<1>6. ASSUME NEW a \in Alert, Recalibrate(a)
      PROVE  Steady(i)
  BY <1>6 DEF Recalibrate, Steady
<1> QED BY <1>1, <1>2, <1>3, <1>4, <1>5, <1>6 DEF LiveLoopNext

LEMMA PollSteady ==
  ASSUME IInv, NEW i \in Alert, Poll
  PROVE  Steady(i)
<1> QED BY DEF Poll, Steady, IInv, TypeOK, Blockable

LEMMA ManagerSteady ==
  ASSUME IInv, NEW i \in Alert, ManagerNext
  PROVE  Steady(i)
<1> USE DEF IInv, TypeOK
<1>1. ASSUME NEW j \in Alert, NEW power \in Power, NEW price \in Price, NEW g \in Grade,
             NEW age \in Lag, AttestSelection(j, power, price, g, age)
      PROVE  Steady(i)
  BY <1>1 DEF AttestSelection, Steady
<1>2. ASSUME NEW j \in Alert, NEW power \in Power, NEW age \in Lag, AttestCapital(j, power, age)
      PROVE  Steady(i)
  <2>1. mode' = mode /\ (UNCHANGED <<status, revoked>> \/ Halt({j}))
    BY <1>2 DEF AttestCapital
  <2>2. CASE UNCHANGED <<status, revoked>>
    BY <2>1, <2>2 DEF Steady
  <2> QED BY <2>1, <2>2, HaltSteady
<1>3. ASSUME NEW j \in Alert, ClaimRefused(j)
      PROVE  Steady(i)
  BY <1>3, HaltSteady DEF ClaimRefused
<1>4. ASSUME NEW j \in Alert, ClaimExpired(j)
      PROVE  Steady(i)
  BY <1>4 DEF ClaimExpired, Steady, Blockable
<1>5. ASSUME NEW j \in Alert, ClaimGranted(j)
      PROVE  Steady(i)
  BY <1>5 DEF ClaimGranted, Claimable, Steady, Blockable
<1>6. CASE Tick
  BY <1>6 DEF Tick, Steady
<1> QED BY <1>1, <1>2, <1>3, <1>4, <1>5, <1>6, OperatorSteady, LiveLoopSteady DEF ManagerNext

-----------------------------------------------------------------------------
(* The chain of reports.                                                   *)

\* A report is a broker's answer and a quantity.
LEMMA ReportTypes ==
  ASSUME Trading, NEW i \in Alert
  PROVE  /\ Len(outbox[i]) \in Nat
         /\ outbox[i] \in Seq([status : Receipts, quantity : 0..Contracts])
         /\ \A k \in 1..Len(outbox[i]) :
              outbox[i][k].status \in Receipts /\ outbox[i][k].quantity \in 0..Contracts
<1>1. outbox[i] \in Seq([status : Receipts, quantity : 0..Contracts])
  BY DEF Trading
<1>2. \A k \in 1..Len(outbox[i]) : outbox[i][k] \in [status : Receipts, quantity : 0..Contracts]
  BY <1>1, ElementOfSeq
<1> QED BY <1>1, <1>2

\* An intent with an order was claimed, or its story is over.
LEMMA OrderedIsClaimed ==
  ASSUME BrokerInv, NEW i \in Alert, order[i] # "NONE"
  PROVE  status[i] \notin Blockable \cup {Absent}
<1>1. Chained(i) /\ Known(i, Len(outbox[i])) \in Truth(order[i]) /\ Len(outbox[i]) \in Nat
  BY ReportTypes DEF BrokerInv, OrderSound
<1>2. CASE Len(outbox[i]) = 0
  BY <1>1, <1>2 DEF Known, Truth, Blockable, Absent
<1>3. CASE Len(outbox[i]) # 0
  <2>1. 1 \in 1..Len(outbox[i]) /\ 1 - 1 = 0
    BY <1>1, <1>3
  <2>2. outbox[i][1].status \in ReceiptAllowed(status[i])
    BY <1>1, <2>1 DEF Chained, Known
  <2> QED BY <2>2 DEF ReceiptAllowed, Blockable, Absent
<1> QED BY <1>2, <1>3

\* An order whose broker events and intent did not change stays sound.
LEMMA Untouched ==
  ASSUME NEW i \in Alert, OrderSound(i),
         mode'[i] = mode[i], status'[i] = status[i], order'[i] = order[i],
         position'[i] = position[i], outbox'[i] = outbox[i],
         order[i] = "NONE" /\ i \in fetched' => mode[i] = "LIVE" /\ status[i] = "CLAIMED"
  PROVE  OrderSound(i)'
<1> QED BY DEF OrderSound, Chained, Known, Result

\* Before the first fill no report speaks of a failed exit.
LEMMA NoExitYet ==
  ASSUME BrokerInv, NEW i \in Alert, order[i] \in {"WORKING", "CANCELLED"}, NEW k \in 1..Len(outbox[i])
  PROVE  outbox[i][k].status # "FAILED"
<1> SUFFICES ASSUME outbox[i][k].status = "FAILED" PROVE FALSE
  OBVIOUS
<1>1. /\ Chained(i) /\ Known(i, Len(outbox[i])) \in Truth(order[i])
      /\ Len(outbox[i]) \in Nat /\ k # 0
  BY ReportTypes DEF BrokerInv, OrderSound
<1>2. Known(i, k) = "FAILED"
  BY <1>1 DEF Known, Result
<1>3. CASE k = Len(outbox[i])
  BY <1>1, <1>2, <1>3 DEF Truth
<1>4. CASE k # Len(outbox[i])
  <2>1. k + 1 \in 1..Len(outbox[i]) /\ (k + 1) - 1 = k
    BY <1>1, <1>4
  <2>2. outbox[i][k + 1].status \in ReceiptAllowed("FAILED")
    BY <1>1, <1>2, <2>1 DEF Chained
  <2> QED BY <2>2 DEF ReceiptAllowed
<1> QED BY <1>3, <1>4

\* A report that the gateway will accept once it knows the others makes a longer
\* chain.
LEMMA ReportChained ==
  ASSUME BrokerInv, NEW i \in Alert, order[i] # "NONE", NEW o \in OrderState, o # "NONE",
         NEW answer \in Receipts, NEW quantity \in 0..Contracts,
         order'[i] = o, mode'[i] = mode[i], status'[i] = status[i],
         outbox'[i] = Append(outbox[i], [status |-> answer, quantity |-> quantity]),
         \A k \in 1..Len(outbox[i]) : Result(o, outbox[i][k].status) = Result(order[i], outbox[i][k].status),
         \A st \in Truth(order[i]) : answer \in ReceiptAllowed(st) /\ StatusAfter(st, answer) = Result(o, answer),
         Result(o, answer) \in Truth(o),
         position'[i] > 0 <=> o = "FILLED"
  PROVE  OrderSound(i)'
<1> SUFFICES ASSUME NEW n \in Nat, n = Len(outbox[i]), NEW e, e = [status |-> answer, quantity |-> quantity]
             PROVE  OrderSound(i)'
  BY ReportTypes DEF BrokerInv
<1>1. /\ mode[i] = "LIVE" /\ Chained(i) /\ Known(i, n) \in Truth(order[i])
      /\ outbox[i] \in Seq([status : Receipts, quantity : 0..Contracts])
      /\ e \in [status : Receipts, quantity : 0..Contracts] /\ e.status = answer
  BY ReportTypes DEF BrokerInv, OrderSound
<1>2. /\ Len(outbox'[i]) = n + 1
      /\ \A k \in 1..n : outbox'[i][k] = outbox[i][k]
      /\ outbox'[i][n + 1] = e
  BY <1>1, AppendProperties
<1>3. ASSUME NEW k \in 0..n PROVE Known(i, k)' = Known(i, k)
  <2>1. CASE k = 0
    BY <2>1 DEF Known
  <2>2. CASE k # 0
    <3>1. k \in 1..n
      BY <2>2
    <3>2. outbox'[i][k] = outbox[i][k] /\ Result(o, outbox[i][k].status) = Result(order[i], outbox[i][k].status)
      BY <1>2, <3>1
    <3> QED BY <2>2, <3>2 DEF Known
  <2> QED BY <2>1, <2>2
<1>4. Known(i, n + 1)' = Result(o, answer)
  <2>1. n + 1 # 0
    OBVIOUS
  <2> QED BY <1>1, <1>2, <2>1 DEF Known
<1>5. Chained(i)'
  <2> SUFFICES ASSUME NEW k \in 1..(n + 1)
               PROVE  /\ outbox'[i][k].status \in ReceiptAllowed(Known(i, k - 1)')
                      /\ StatusAfter(Known(i, k - 1)', outbox'[i][k].status) = Known(i, k)'
    BY <1>2 DEF Chained
  <2>1. CASE k \in 1..n
    <3>1. k - 1 \in 0..n /\ k \in 0..n
      BY <2>1
    <3>2. outbox[i][k].status \in ReceiptAllowed(Known(i, k - 1)) /\ StatusAfter(Known(i, k - 1), outbox[i][k].status) = Known(i, k)
      BY <1>1, <2>1 DEF Chained
    <3>3. Known(i, k - 1)' = Known(i, k - 1) /\ Known(i, k)' = Known(i, k) /\ outbox'[i][k] = outbox[i][k]
      BY <1>2, <1>3, <2>1, <3>1
    <3> QED BY <3>2, <3>3
  <2>2. CASE k = n + 1
    <3>1. k - 1 = n /\ n \in 0..n
      BY <2>2
    <3>2. Known(i, k - 1)' \in Truth(order[i])
      BY <1>1, <1>3, <3>1
    <3> QED BY <1>1, <1>2, <1>4, <2>2, <3>2
  <2> QED BY <2>1, <2>2
<1> QED BY <1>1, <1>2, <1>4, <1>5 DEF OrderSound

\* Posting the oldest report shortens the chain by the step the gateway takes.
LEMMA PostChained ==
  ASSUME BrokerInv, NEW i \in Alert, Post(i)
  PROVE  OrderSound(i)'
<1> SUFFICES ASSUME NEW b, b = outbox[i], NEW n \in Nat, n = Len(outbox[i]) PROVE OrderSound(i)'
  BY ReportTypes DEF BrokerInv
<1>1. /\ b # <<>> /\ b \in Seq([status : Receipts, quantity : 0..Contracts])
      /\ order[i] # "NONE" /\ mode[i] = "LIVE" /\ Chained(i) /\ Known(i, n) \in Truth(order[i])
      /\ position[i] > 0 <=> order[i] = "FILLED"
  BY ReportTypes DEF BrokerInv, OrderSound, Post
<1>2. /\ Head(b) = b[1] /\ n >= 1 /\ Len(Tail(b)) = n - 1
      /\ \A k \in 1..(n - 1) : Tail(b)[k] = b[k + 1]
  BY <1>1
<1>3. /\ order' = order /\ position' = position /\ mode' = mode
      /\ outbox'[i] = Tail(b)
      /\ status'[i] = StatusAfter(status[i], b[1].status)
  BY <1>2 DEF Post, RecordReceipt, BrokerInv, Trading, IInv, TypeOK
<1>4. 1 \in 1..n /\ 1 - 1 = 0
  BY <1>2
<1>5. status'[i] = Known(i, 1)
  <2>1. StatusAfter(Known(i, 0), b[1].status) = Known(i, 1)
    BY <1>1, <1>4 DEF Chained
  <2> QED BY <1>3, <2>1 DEF Known
<1>6. ASSUME NEW k \in 0..(n - 1) PROVE Known(i, k)' = Known(i, k + 1)
  <2>1. CASE k = 0
    BY <1>5, <2>1 DEF Known
  <2>2. CASE k # 0
    <3>1. k \in 1..(n - 1) /\ k + 1 # 0
      BY <2>2
    <3>2. outbox'[i][k] = b[k + 1]
      BY <1>2, <1>3, <3>1
    <3> QED BY <1>3, <2>2, <3>1, <3>2 DEF Known
  <2> QED BY <2>1, <2>2
<1>7. Chained(i)'
  <2> SUFFICES ASSUME NEW k \in 1..(n - 1)
               PROVE  /\ outbox'[i][k].status \in ReceiptAllowed(Known(i, k - 1)')
                      /\ StatusAfter(Known(i, k - 1)', outbox'[i][k].status) = Known(i, k)'
    BY <1>2, <1>3 DEF Chained
  <2>1. k - 1 \in 0..(n - 1) /\ k \in 0..(n - 1) /\ (k - 1) + 1 = k /\ k + 1 \in 1..n /\ (k + 1) - 1 = k
    OBVIOUS
  <2>2. Known(i, k - 1)' = Known(i, k) /\ Known(i, k)' = Known(i, k + 1)
    BY <1>6, <2>1
  <2>3. outbox'[i][k] = b[k + 1]
    BY <1>2, <1>3
  <2>4. /\ b[k + 1].status \in ReceiptAllowed(Known(i, k))
        /\ StatusAfter(Known(i, k), b[k + 1].status) = Known(i, k + 1)
    BY <1>1, <2>1 DEF Chained
  <2> QED BY <2>2, <2>3, <2>4
<1>8. Known(i, n - 1)' = Known(i, n) /\ Len(outbox'[i]) = n - 1
  <2>1. n - 1 \in 0..(n - 1) /\ (n - 1) + 1 = n
    BY <1>2
  <2>2. Known(i, n - 1)' = Known(i, n)
    BY <1>6, <2>1
  <2> QED BY <1>2, <1>3, <2>2
<1> QED BY <1>1, <1>3, <1>7, <1>8 DEF OrderSound

-----------------------------------------------------------------------------
(* Every step keeps the invariant.                                         *)

\* The agent's and the broker's variables stay in their types.
LEMMA ReportKeepsType ==
  ASSUME Trading, NEW i \in Alert, NEW answer \in Receipts, NEW quantity \in 0..Contracts,
         Report(i, answer, quantity)
  PROVE  /\ outbox' \in [Alert -> Seq([status : Receipts, quantity : 0..Contracts])]
         /\ outbox'[i] = Append(outbox[i], [status |-> answer, quantity |-> quantity])
         /\ \A j \in Alert : j # i => outbox'[j] = outbox[j]
<1>1. [status |-> answer, quantity |-> quantity] \in [status : Receipts, quantity : 0..Contracts]
  OBVIOUS
<1>2. outbox' = [outbox EXCEPT ![i] = Append(outbox[i], [status |-> answer, quantity |-> quantity])]
  BY DEF Report
<1>3. Append(outbox[i], [status |-> answer, quantity |-> quantity]) \in Seq([status : Receipts, quantity : 0..Contracts])
  BY <1>1, ReportTypes, AppendProperties
<1> QED BY <1>2, <1>3 DEF Trading

LEMMA ManagerKeeps ==
  ASSUME BrokerInv, ManagerNext
  PROVE  Trading' /\ \A i \in Alert : OrderSound(i)'
<1>1. UNCHANGED brokerVars
  BY DEF ManagerNext
<1>2. Trading'
  BY <1>1 DEF BrokerInv, Trading
<1>3. ASSUME NEW i \in Alert PROVE OrderSound(i)'
  <2>1. Steady(i)
    BY ManagerSteady DEF BrokerInv
  <2>2. CASE order[i] # "NONE"
    <3>1. status'[i] = status[i] /\ mode'[i] = mode[i]
      BY <2>1, <2>2, OrderedIsClaimed DEF Steady
    <3> QED BY <1>1, <2>2, <3>1, Untouched DEF BrokerInv
  <2>3. CASE order[i] = "NONE"
    <3>1. (mode[i] = "LIVE" => status[i] # "EXECUTED") /\ outbox[i] = <<>> /\ ~(position[i] > 0)
      BY <2>3 DEF BrokerInv, OrderSound
    <3>2. i \in fetched => mode'[i] = "LIVE" /\ status'[i] = "CLAIMED"
      BY <2>1, <2>3 DEF BrokerInv, OrderSound, Steady, Blockable, Absent
    <3>3. mode'[i] = "LIVE" => status'[i] # "EXECUTED"
      BY <2>1, <3>1 DEF Steady, Blockable, Absent
    <3> QED BY <1>1, <2>3, <3>1, <3>2, <3>3 DEF OrderSound
  <2> QED BY <2>2, <2>3
<1> QED BY <1>2, <1>3

LEMMA FetchKeeps ==
  ASSUME BrokerInv, Fetch
  PROVE  Trading' /\ \A i \in Alert : OrderSound(i)'
<1>1. /\ UNCHANGED <<order, position, outbox, entered>> /\ mode' = mode
      /\ fetched' = {i \in Alert : Authority(i)' /\ GateOpen(i)}
      /\ Poll
  BY DEF Fetch, Poll
<1>2. Trading'
  BY <1>1 DEF BrokerInv, Trading
<1>3. ASSUME NEW i \in Alert PROVE OrderSound(i)'
  <2>1. Steady(i)
    BY <1>1, PollSteady DEF BrokerInv
  <2>2. IInv'
    <3>1. [Next]_vars
      BY <1>1 DEF Next, AgentNext
    <3> QED BY <3>1, SoundStep DEF BrokerInv
  <2>3. i \in fetched' => mode'[i] = "LIVE" /\ status'[i] = "CLAIMED"
    BY <1>1, <2>2 DEF Authority, IInv, Sound, Armed, Executable
  <2>4. CASE order[i] # "NONE"
    <3>1. status'[i] = status[i]
      BY <2>1, <2>4, OrderedIsClaimed DEF Steady
    <3> QED BY <1>1, <2>4, <3>1, Untouched DEF BrokerInv
  <2>5. CASE order[i] = "NONE"
    <3>1. (mode[i] = "LIVE" => status[i] # "EXECUTED") /\ outbox[i] = <<>> /\ ~(position[i] > 0)
      BY <2>5 DEF BrokerInv, OrderSound
    <3> QED BY <1>1, <2>1, <2>3, <2>5, <3>1 DEF OrderSound, Steady
  <2> QED BY <2>4, <2>5
<1> QED BY <1>2, <1>3

LEMMA PlaceOrderKeeps ==
  ASSUME BrokerInv, NEW i \in Alert, PlaceOrder(i)
  PROVE  Trading' /\ \A j \in Alert : OrderSound(j)'
<1>1. /\ i \in fetched /\ order[i] = "NONE" /\ order' = [order EXCEPT ![i] = "WORKING"]
      /\ UNCHANGED <<status, mode, fetched, position, outbox, entered>>
  BY DEF PlaceOrder, vars
<1>2. Trading'
  BY <1>1 DEF BrokerInv, Trading, OrderState
<1>3. ASSUME NEW j \in Alert PROVE OrderSound(j)'
  <2>1. CASE j # i
    <3>1. order'[j] = order[j]
      BY <1>1, <2>1 DEF BrokerInv, Trading
    <3> QED BY <1>1, <3>1, Untouched DEF BrokerInv, OrderSound
  <2>2. CASE j = i
    <3>1. order'[i] = "WORKING" /\ mode[i] = "LIVE" /\ status[i] = "CLAIMED" /\ outbox[i] = <<>> /\ ~(position[i] > 0)
      BY <1>1 DEF BrokerInv, Trading, OrderSound
    <3>2. Len(<<>>) = 0 /\ 1..0 = {}
      OBVIOUS
    <3> QED BY <1>1, <2>2, <3>1, <3>2 DEF OrderSound, Chained, Known, Truth
  <2> QED BY <2>1, <2>2
<1> QED BY <1>2, <1>3

LEMMA PostKeeps ==
  ASSUME BrokerInv, NEW i \in Alert, Post(i)
  PROVE  Trading' /\ \A j \in Alert : OrderSound(j)'
<1>1. /\ UNCHANGED <<fetched, order, position, mode>>
      /\ status' = [status EXCEPT ![i] = StatusAfter(status[i], Head(outbox[i]).status)]
      /\ outbox' = [outbox EXCEPT ![i] = Tail(outbox[i])] /\ outbox[i] # <<>>
      /\ entered' = [entered EXCEPT ![i] = IF Head(outbox[i]).status = "EXECUTED" THEN Head(outbox[i]).quantity ELSE entered[i]]
  BY DEF Post, RecordReceipt
<1>2. Trading'
  <2>1. Tail(outbox[i]) \in Seq([status : Receipts, quantity : 0..Contracts])
    BY <1>1, ReportTypes, HeadTailProperties DEF BrokerInv
  <2>2. Head(outbox[i]) \in [status : Receipts, quantity : 0..Contracts]
    BY <1>1, ReportTypes, HeadTailProperties DEF BrokerInv
  <2>3. Head(outbox[i]).quantity \in 0..Contracts
    BY <2>2
  <2> QED BY <1>1, <2>1, <2>3 DEF BrokerInv, Trading
<1>3. ASSUME NEW j \in Alert, j # i PROVE OrderSound(j)'
  <2>1. status'[j] = status[j] /\ outbox'[j] = outbox[j]
    BY <1>1, <1>3 DEF BrokerInv, IInv, TypeOK, Trading
  <2> QED BY <1>1, <2>1, Untouched DEF BrokerInv, OrderSound
<1> QED BY <1>2, <1>3, PostChained

LEMMA BrokerKeeps ==
  ASSUME BrokerInv, BrokerNext
  PROVE  Trading' /\ \A j \in Alert : OrderSound(j)'
<1>1. UNCHANGED <<status, mode, fetched, entered>>
  BY DEF BrokerNext, Refuse, Fill, ExitFails, Exit, vars
<1>2. PICK i \in Alert :
        \/ \E answer \in {"REJECTED", "FAILED", "CANCELLED"} : Refuse(i, answer)
        \/ \E quantity \in Fills : Fill(i, quantity)
        \/ ExitFails(i)
        \/ Exit(i)
  BY DEF BrokerNext
<1>3. Contracts \in Nat /\ Contracts > 0 /\ position[i] \in 0..Contracts
  BY BrokerAssumption DEF BrokerInv, Trading
<1>4. ASSUME NEW j \in Alert, order'[j] = order[j], position'[j] = position[j], outbox'[j] = outbox[j]
      PROVE  OrderSound(j)'
  BY <1>1, <1>4, Untouched DEF BrokerInv, OrderSound
<1>5. ASSUME NEW answer \in {"REJECTED", "FAILED", "CANCELLED"}, Refuse(i, answer)
      PROVE  Trading' /\ \A j \in Alert : OrderSound(j)'
  <2> SUFFICES ASSUME NEW o \in OrderState, o = IF answer = "CANCELLED" THEN "CANCELLED" ELSE "REFUSED"
               PROVE  Trading' /\ \A j \in Alert : OrderSound(j)'
    BY DEF OrderState
  <2>1. /\ order[i] = "WORKING" /\ order' = [order EXCEPT ![i] = o] /\ position' = position
        /\ Report(i, answer, 0) /\ answer \in Receipts /\ 0 \in 0..Contracts
    BY <1>3, <1>5 DEF Refuse, Receipts
  <2>2. /\ outbox' \in [Alert -> Seq([status : Receipts, quantity : 0..Contracts])]
        /\ outbox'[i] = Append(outbox[i], [status |-> answer, quantity |-> 0])
        /\ \A j \in Alert : j # i => outbox'[j] = outbox[j]
    BY <2>1, ReportKeepsType DEF BrokerInv
  <2>3. Trading' /\ order'[i] = o /\ \A j \in Alert : j # i => order'[j] = order[j]
    BY <1>1, <2>1, <2>2 DEF BrokerInv, Trading
  <2>4. OrderSound(i)'
    <3>1. \A k \in 1..Len(outbox[i]) : Result(o, outbox[i][k].status) = Result(order[i], outbox[i][k].status)
      BY <2>1 DEF Result
    <3>2. \A st \in Truth(order[i]) : answer \in ReceiptAllowed(st) /\ StatusAfter(st, answer) = Result(o, answer)
      BY <2>1 DEF Truth, ReceiptAllowed, StatusAfter, Result
    <3>3. Result(o, answer) \in Truth(o) /\ ~(position[i] > 0) /\ o # "FILLED" /\ o # "NONE"
      BY <2>1 DEF Truth, Result, BrokerInv, OrderSound
    <3> QED BY <1>1, <2>1, <2>2, <2>3, <3>1, <3>2, <3>3, ReportChained
  <2> QED BY <1>4, <2>1, <2>2, <2>3, <2>4
<1>6. ASSUME NEW quantity \in Fills, Fill(i, quantity)
      PROVE  Trading' /\ \A j \in Alert : OrderSound(j)'
  <2>1. /\ order[i] \in {"WORKING", "CANCELLED", "FILLED"} /\ order' = [order EXCEPT ![i] = "FILLED"]
        /\ position' = [position EXCEPT ![i] = position[i] + quantity] /\ position[i] + quantity <= Contracts
        /\ quantity \in 1..Contracts
    BY <1>6, BrokerAssumption DEF Fill
  <2>2. /\ order'[i] = "FILLED" /\ position'[i] = position[i] + quantity /\ position'[i] > 0 /\ position' \in [Alert -> 0..Contracts]
        /\ \A j \in Alert : j # i => order'[j] = order[j] /\ position'[j] = position[j]
    BY <1>3, <2>1 DEF BrokerInv, Trading
  <2>3. CASE order[i] = "FILLED"
    <3>1. outbox' = outbox /\ order' = order
      BY <1>6, <2>1, <2>3 DEF Fill, BrokerInv, Trading
    <3>2. Trading'
      BY <1>1, <2>2, <3>1 DEF BrokerInv, Trading
    <3>3. OrderSound(i)'
      BY <1>1, <2>2, <2>3, <3>1 DEF BrokerInv, OrderSound, Chained, Known, Result
    <3> QED BY <1>4, <2>2, <3>1, <3>2, <3>3
  <2>4. CASE order[i] # "FILLED"
    <3>1. Report(i, "EXECUTED", quantity) /\ "EXECUTED" \in Receipts /\ quantity \in 0..Contracts
      BY <1>6, <2>1, <2>4 DEF Fill, Receipts
    <3>2. /\ outbox' \in [Alert -> Seq([status : Receipts, quantity : 0..Contracts])]
          /\ outbox'[i] = Append(outbox[i], [status |-> "EXECUTED", quantity |-> quantity])
          /\ \A j \in Alert : j # i => outbox'[j] = outbox[j]
      BY <3>1, ReportKeepsType DEF BrokerInv
    <3>3. Trading'
      BY <1>1, <2>1, <2>2, <3>2 DEF BrokerInv, Trading, OrderState
    <3>4. \A k \in 1..Len(outbox[i]) : Result("FILLED", outbox[i][k].status) = Result(order[i], outbox[i][k].status)
      BY <2>1, <2>4, NoExitYet DEF Result
    <3>5. \A st \in Truth(order[i]) : "EXECUTED" \in ReceiptAllowed(st) /\ StatusAfter(st, "EXECUTED") = Result("FILLED", "EXECUTED")
      BY <2>1, <2>4 DEF Truth, ReceiptAllowed, StatusAfter, Result
    <3>6. Result("FILLED", "EXECUTED") \in Truth("FILLED") /\ "FILLED" \in OrderState /\ order[i] # "NONE"
      BY <2>1 DEF Truth, Result, OrderState
    <3>7. OrderSound(i)'
      BY <1>1, <2>2, <3>1, <3>2, <3>4, <3>5, <3>6, ReportChained
    <3> QED BY <1>4, <2>2, <3>2, <3>3, <3>7
  <2> QED BY <2>3, <2>4
<1>7. ASSUME ExitFails(i)
      PROVE  Trading' /\ \A j \in Alert : OrderSound(j)'
  <2>1. order[i] = "FILLED" /\ Report(i, "FAILED", 0) /\ UNCHANGED <<order, position>> /\ "FAILED" \in Receipts /\ 0 \in 0..Contracts
    BY <1>3, <1>7 DEF ExitFails, Receipts
  <2>2. /\ outbox' \in [Alert -> Seq([status : Receipts, quantity : 0..Contracts])]
        /\ outbox'[i] = Append(outbox[i], [status |-> "FAILED", quantity |-> 0])
        /\ \A j \in Alert : j # i => outbox'[j] = outbox[j]
    BY <2>1, ReportKeepsType DEF BrokerInv
  <2>3. Trading'
    BY <1>1, <2>1, <2>2 DEF BrokerInv, Trading
  <2>4. \A st \in Truth(order[i]) : "FAILED" \in ReceiptAllowed(st) /\ StatusAfter(st, "FAILED") = Result("FILLED", "FAILED")
    BY <2>1 DEF Truth, ReceiptAllowed, StatusAfter, Result
  <2>5. Result("FILLED", "FAILED") \in Truth("FILLED") /\ "FILLED" \in OrderState /\ position[i] > 0
    BY <2>1 DEF Truth, Result, OrderState, BrokerInv, OrderSound
  <2>6. OrderSound(i)'
    BY <1>1, <2>1, <2>2, <2>4, <2>5, ReportChained
  <2> QED BY <1>4, <2>1, <2>2, <2>3, <2>6
<1>8. ASSUME Exit(i)
      PROVE  Trading' /\ \A j \in Alert : OrderSound(j)'
  <2>1. /\ order[i] = "FILLED" /\ order' = [order EXCEPT ![i] = "CLOSED"] /\ position' = [position EXCEPT ![i] = 0]
        /\ Report(i, "CLOSED", position[i]) /\ "CLOSED" \in Receipts
    BY <1>8 DEF Exit, Receipts
  <2>2. /\ outbox' \in [Alert -> Seq([status : Receipts, quantity : 0..Contracts])]
        /\ outbox'[i] = Append(outbox[i], [status |-> "CLOSED", quantity |-> position[i]])
        /\ \A j \in Alert : j # i => outbox'[j] = outbox[j]
    BY <1>3, <2>1, ReportKeepsType DEF BrokerInv
  <2>3. /\ order'[i] = "CLOSED" /\ position'[i] = 0
        /\ \A j \in Alert : j # i => order'[j] = order[j] /\ position'[j] = position[j]
    BY <2>1 DEF BrokerInv, Trading
  <2>4. Trading'
    <3>1. position' \in [Alert -> 0..Contracts]
      BY <1>3, <2>1 DEF BrokerInv, Trading
    <3>2. order' \in [Alert -> OrderState]
      BY <2>1 DEF BrokerInv, Trading, OrderState
    <3> QED BY <1>1, <2>2, <3>1, <3>2 DEF BrokerInv, Trading
  <2>5. \A k \in 1..Len(outbox[i]) : Result("CLOSED", outbox[i][k].status) = Result(order[i], outbox[i][k].status)
    BY <2>1 DEF Result
  <2>6. \A st \in Truth(order[i]) : "CLOSED" \in ReceiptAllowed(st) /\ StatusAfter(st, "CLOSED") = Result("CLOSED", "CLOSED")
    BY <2>1 DEF Truth, ReceiptAllowed, StatusAfter, Result
  <2>7. Result("CLOSED", "CLOSED") \in Truth("CLOSED") /\ "CLOSED" \in OrderState
    BY DEF Truth, Result, OrderState
  <2>8. OrderSound(i)'
    <3>1. status'[i] = status[i] /\ mode'[i] = mode[i] /\ order[i] # "NONE" /\ ~(position'[i] > 0)
      BY <1>1, <2>1, <2>3
    <3> QED BY <1>3, <2>1, <2>2, <2>3, <2>5, <2>6, <2>7, <3>1, ReportChained
  <2> QED BY <1>4, <2>2, <2>3, <2>4, <2>8
<1> QED BY <1>2, <1>5, <1>6, <1>7, <1>8

\* The invariant holds whatever the agent, the broker, the operator, the live loop
\* and the clock do, in any order.
THEOREM TradingInvariant == TradingSpec => []BrokerInv
<1>1. TradingInit => BrokerInv
  <2> SUFFICES ASSUME TradingInit PROVE BrokerInv
    OBVIOUS
  <2>1. IInv
    BY InvInit DEF TradingInit
  <2>2. Trading
    <3>1. <<>> \in Seq([status : Receipts, quantity : 0..Contracts]) /\ 0 \in 0..Contracts
      BY BrokerAssumption
    <3> QED BY <3>1 DEF TradingInit, Trading, OrderState
  <2>3. \A i \in Alert : OrderSound(i)
    BY DEF TradingInit, Init, OrderSound
  <2> QED BY <2>1, <2>2, <2>3 DEF BrokerInv
<1>2. BrokerInv /\ [TradingNext]_allVars => BrokerInv'
  <2> SUFFICES ASSUME BrokerInv, [TradingNext]_allVars PROVE BrokerInv'
    OBVIOUS
  <2>1. IInv'
    BY ManagerStep, SoundStep DEF BrokerInv
  <2>2. CASE UNCHANGED allVars
    <3>1. UNCHANGED <<fetched, order, position, outbox, entered, status, mode>>
      BY <2>2 DEF allVars, vars
    <3>2. Trading' /\ \A i \in Alert : OrderSound(i)'
      BY <3>1, Untouched DEF BrokerInv, Trading, OrderSound
    <3> QED BY <2>1, <3>2 DEF BrokerInv
  <2>3. CASE TradingNext
    <3>1. Trading' /\ \A i \in Alert : OrderSound(i)'
      BY <2>3, ManagerKeeps, FetchKeeps, PlaceOrderKeeps, PostKeeps, BrokerKeeps DEF TradingNext, PostNext
    <3> QED BY <2>1, <3>1 DEF BrokerInv
  <2> QED BY <2>2, <2>3
<1> QED BY <1>1, <1>2, PTL DEF TradingSpec

\* The manager, the outbox and the account stay in their types.
THEOREM TradingTypeCorrect == TradingSpec => []TradingTypeOK
<1>1. BrokerInv => TradingTypeOK
  BY DEF BrokerInv, IInv, Trading, TradingTypeOK
<1> QED BY <1>1, TradingInvariant, PTL

\* Once every broker event is posted, gateway and account agree on what is open,
\* for any number of orders and whatever parts the broker fills them in.
THEOREM BooksAlwaysAgree == TradingSpec => []BooksAgree
<1>1. BrokerInv => BooksAgree
  <2> SUFFICES ASSUME BrokerInv, NEW i \in Alert, outbox[i] = <<>>
               PROVE  position[i] > 0 <=> status[i] = "EXECUTED" /\ mode[i] = "LIVE"
    BY DEF BooksAgree
  <2>1. OrderSound(i) /\ Len(outbox[i]) = 0 /\ order[i] \in OrderState
    BY DEF BrokerInv, Trading
  <2> QED BY <2>1 DEF OrderSound, Known, Truth, OrderState
<1> QED BY <1>1, TradingInvariant, PTL

-----------------------------------------------------------------------------
(* Whole fills.                                                            *)

\* With one fill for the whole order the quantities agree as well.
WholeFill(i) ==
  /\ position[i] \in {0, Contracts}
  /\ \A k \in 1..Len(outbox[i]) :
       outbox[i][k].status \in {"EXECUTED", "CLOSED"} => outbox[i][k].quantity = Contracts
  /\ order[i] # "NONE" /\ status[i] = "EXECUTED" => entered[i] = Contracts

\* A report whose quantity is that of the order keeps the outbox whole.
LEMMA ReportWhole ==
  ASSUME Trading, NEW i \in Alert, NEW answer \in Receipts, NEW quantity \in 0..Contracts, WholeFill(i),
         Report(i, answer, quantity), answer \in {"EXECUTED", "CLOSED"} => quantity = Contracts
  PROVE  /\ \A j \in Alert : j # i => outbox'[j] = outbox[j]
         /\ \A k \in 1..Len(outbox'[i]) :
              outbox'[i][k].status \in {"EXECUTED", "CLOSED"} => outbox'[i][k].quantity = Contracts
<1> SUFFICES ASSUME NEW n \in Nat, n = Len(outbox[i]), NEW e, e = [status |-> answer, quantity |-> quantity]
             PROVE  /\ \A j \in Alert : j # i => outbox'[j] = outbox[j]
                    /\ \A k \in 1..Len(outbox'[i]) :
                         outbox'[i][k].status \in {"EXECUTED", "CLOSED"} => outbox'[i][k].quantity = Contracts
  BY ReportTypes
<1>1. /\ outbox'[i] = Append(outbox[i], e) /\ \A j \in Alert : j # i => outbox'[j] = outbox[j]
      /\ e.status = answer /\ e.quantity = quantity /\ e \in [status : Receipts, quantity : 0..Contracts]
      /\ outbox[i] \in Seq([status : Receipts, quantity : 0..Contracts])
  BY ReportKeepsType, ReportTypes
<1>2. /\ Len(outbox'[i]) = n + 1
      /\ \A k \in 1..n : outbox'[i][k] = outbox[i][k]
      /\ outbox'[i][n + 1] = e
  BY <1>1, AppendProperties
<1>3. ASSUME NEW k \in 1..(n + 1), outbox'[i][k].status \in {"EXECUTED", "CLOSED"}
      PROVE  outbox'[i][k].quantity = Contracts
  <2>1. CASE k = n + 1
    BY <1>1, <1>2, <1>3, <2>1
  <2>2. CASE k \in 1..n
    BY <1>2, <1>3, <2>2 DEF WholeFill
  <2> QED BY <2>1, <2>2
<1> QED BY <1>1, <1>2, <1>3

LEMMA PostWhole ==
  ASSUME BrokerInv, NEW i \in Alert, WholeFill(i), Post(i)
  PROVE  WholeFill(i)'
<1> SUFFICES ASSUME NEW b, b = outbox[i], NEW n \in Nat, n = Len(outbox[i]) PROVE WholeFill(i)'
  BY ReportTypes DEF BrokerInv
<1>1. b # <<>> /\ b \in Seq([status : Receipts, quantity : 0..Contracts])
  BY ReportTypes DEF BrokerInv, Post
<1>2. /\ Head(b) = b[1] /\ n >= 1 /\ Len(Tail(b)) = n - 1
      /\ \A k \in 1..(n - 1) : Tail(b)[k] = b[k + 1]
  BY <1>1
<1>3. /\ order' = order /\ position' = position
      /\ outbox'[i] = Tail(b)
      /\ status'[i] = StatusAfter(status[i], b[1].status)
      /\ entered'[i] = IF b[1].status = "EXECUTED" THEN b[1].quantity ELSE entered[i]
  BY <1>2 DEF Post, RecordReceipt, BrokerInv, Trading, IInv, TypeOK
<1>4. ASSUME NEW k \in 1..(n - 1), Tail(b)[k].status \in {"EXECUTED", "CLOSED"}
      PROVE  Tail(b)[k].quantity = Contracts
  <2>1. k + 1 \in 1..n /\ Tail(b)[k] = b[k + 1]
    BY <1>2
  <2> QED BY <1>4, <2>1 DEF WholeFill
<1>5. ASSUME order[i] # "NONE", status'[i] = "EXECUTED" PROVE entered'[i] = Contracts
  <2>1. b[1].status = "EXECUTED" \/ status[i] = "EXECUTED"
    BY <1>3, <1>5 DEF StatusAfter
  <2>2. b[1].status = "EXECUTED" => b[1].quantity = Contracts
    BY <1>2 DEF WholeFill
  <2> QED BY <1>3, <1>5, <2>1, <2>2 DEF WholeFill
<1> QED BY <1>2, <1>3, <1>4, <1>5 DEF WholeFill

LEMMA WholeStep ==
  ASSUME Fills = {Contracts}, BrokerInv, \A i \in Alert : WholeFill(i), [TradingNext]_allVars
  PROVE  \A i \in Alert : WholeFill(i)'
<1>1. ASSUME NEW i \in Alert, order'[i] = order[i], position'[i] = position[i], outbox'[i] = outbox[i],
             entered'[i] = entered[i], order[i] # "NONE" => status'[i] = status[i]
      PROVE  WholeFill(i)'
  BY <1>1 DEF WholeFill
<1>2. CASE UNCHANGED allVars
  <2>1. UNCHANGED <<order, position, outbox, entered, status>>
    BY <1>2 DEF allVars, vars
  <2> QED BY <1>1, <2>1
<1>3. ASSUME ManagerNext \/ Fetch, NEW i \in Alert PROVE WholeFill(i)'
  <2>1. Steady(i) /\ UNCHANGED <<order, position, outbox, entered>>
    BY <1>3, ManagerSteady, PollSteady DEF ManagerNext, Fetch, BrokerInv
  <2> QED BY <1>1, <2>1, OrderedIsClaimed DEF Steady
<1>4. ASSUME NEW j \in Alert, PlaceOrder(j), NEW i \in Alert PROVE WholeFill(i)'
  <2>1. /\ order[j] = "NONE" /\ order' = [order EXCEPT ![j] = "WORKING"]
        /\ UNCHANGED <<status, position, outbox, entered>>
    BY <1>4 DEF PlaceOrder, vars
  <2>2. CASE i = j
    <3>1. j \in fetched /\ status[i] = "CLAIMED"
      BY <1>4, <2>1, <2>2 DEF PlaceOrder, BrokerInv, OrderSound
    <3> QED BY <2>1, <2>2, <3>1 DEF WholeFill
  <2>3. CASE i # j
    BY <1>1, <2>1, <2>3 DEF BrokerInv, Trading
  <2> QED BY <2>2, <2>3
<1>5. ASSUME NEW j \in Alert, Post(j), NEW i \in Alert PROVE WholeFill(i)'
  <2>1. CASE i # j
    <3>1. /\ UNCHANGED <<order, position>> /\ outbox'[i] = outbox[i] /\ entered'[i] = entered[i]
          /\ status'[i] = status[i]
      BY <1>5, <2>1 DEF Post, RecordReceipt, BrokerInv, Trading, IInv, TypeOK
    <3> QED BY <1>1, <3>1
  <2> QED BY <1>5, <2>1, PostWhole
<1>6. ASSUME NEW j \in Alert, NEW answer \in {"REJECTED", "FAILED", "CANCELLED"}, Refuse(j, answer) \/ ExitFails(j),
             NEW i \in Alert
      PROVE  WholeFill(i)'
  <2>1. PICK a \in {"REJECTED", "FAILED", "CANCELLED"} : Report(j, a, 0)
    BY <1>6 DEF Refuse, ExitFails
  <2>2. /\ UNCHANGED <<status, position, entered>> /\ order[j] # "NONE"
        /\ i # j => order'[i] = order[i]
    BY <1>6 DEF Refuse, ExitFails, vars, BrokerInv, Trading
  <2>3. 0 \in 0..Contracts /\ a \in Receipts /\ a \notin {"EXECUTED", "CLOSED"}
    BY BrokerAssumption DEF Receipts
  <2>4. /\ i # j => outbox'[i] = outbox[i]
        /\ i = j => \A k \in 1..Len(outbox'[i]) :
             outbox'[i][k].status \in {"EXECUTED", "CLOSED"} => outbox'[i][k].quantity = Contracts
    BY <2>1, <2>3, ReportWhole DEF BrokerInv
  <2> QED BY <2>2, <2>4 DEF WholeFill
<1>7. ASSUME NEW j \in Alert, Fill(j, Contracts), NEW i \in Alert PROVE WholeFill(i)'
  <2>1. /\ UNCHANGED <<status, entered>> /\ order[j] \in {"WORKING", "CANCELLED", "FILLED"}
        /\ position' = [position EXCEPT ![j] = position[j] + Contracts] /\ position[j] + Contracts <= Contracts
        /\ order' = [order EXCEPT ![j] = "FILLED"]
    BY <1>7 DEF Fill, vars
  <2>2. position[j] \in 0..Contracts /\ Contracts \in Nat /\ Contracts > 0
    BY BrokerAssumption DEF BrokerInv, Trading
  <2>3. position[j] = 0 /\ order[j] # "FILLED" /\ position'[j] = Contracts
    BY <2>1, <2>2 DEF BrokerInv, OrderSound, Trading
  <2>4. Report(j, "EXECUTED", Contracts) /\ "EXECUTED" \in Receipts /\ Contracts \in 0..Contracts
    BY <1>7, <2>2, <2>3 DEF Fill, Receipts
  <2>5. /\ i # j => outbox'[i] = outbox[i]
        /\ i = j => \A k \in 1..Len(outbox'[i]) :
             outbox'[i][k].status \in {"EXECUTED", "CLOSED"} => outbox'[i][k].quantity = Contracts
    BY <2>4, ReportWhole DEF BrokerInv
  <2>6. i # j => position'[i] = position[i] /\ order'[i] = order[i]
    BY <2>1 DEF BrokerInv, Trading
  <2>7. order[j] # "NONE"
    BY <2>1
  <2> QED BY <2>1, <2>3, <2>5, <2>6, <2>7 DEF WholeFill
<1>8. ASSUME NEW j \in Alert, Exit(j), NEW i \in Alert PROVE WholeFill(i)'
  <2>1. /\ UNCHANGED <<status, entered>> /\ order[j] = "FILLED" /\ position' = [position EXCEPT ![j] = 0]
        /\ order' = [order EXCEPT ![j] = "CLOSED"] /\ Report(j, "CLOSED", position[j])
    BY <1>8 DEF Exit, vars
  <2>2. position[j] = Contracts /\ Contracts \in 0..Contracts /\ "CLOSED" \in Receipts
    BY <2>1, BrokerAssumption DEF BrokerInv, OrderSound, WholeFill, Receipts
  <2>3. /\ i # j => outbox'[i] = outbox[i]
        /\ i = j => \A k \in 1..Len(outbox'[i]) :
             outbox'[i][k].status \in {"EXECUTED", "CLOSED"} => outbox'[i][k].quantity = Contracts
    BY <2>1, <2>2, ReportWhole DEF BrokerInv
  <2>4. position'[j] = 0 /\ (i # j => position'[i] = position[i] /\ order'[i] = order[i])
    BY <2>1 DEF BrokerInv, Trading
  <2> QED BY <2>1, <2>3, <2>4 DEF WholeFill
<1>9. ASSUME BrokerNext, NEW i \in Alert PROVE WholeFill(i)'
  BY <1>6, <1>7, <1>8, <1>9 DEF BrokerNext
<1> QED BY <1>2, <1>3, <1>4, <1>5, <1>9 DEF TradingNext, PostNext

\* "Exposure truth must win": when orders fill whole, the gateway accepts every
\* broker event in the order the agent reports them, whatever the manager did to
\* the intent meanwhile.  With partial fills an exit may be refused (broker_partial).
THEOREM TruthAlwaysRecordable ==
  ASSUME Fills = {Contracts}
  PROVE  TradingSpec => []TruthIsRecordable
<1>1. TradingInit => \A i \in Alert : WholeFill(i)
  <2>1. TradingInit => \A i \in Alert : position[i] = 0 /\ outbox[i] = <<>> /\ order[i] = "NONE"
    BY DEF TradingInit
  <2>2. 1..Len(<<>>) = {}
    OBVIOUS
  <2> QED BY <2>1, <2>2 DEF WholeFill
<1>2. BrokerInv /\ (\A i \in Alert : WholeFill(i)) /\ [TradingNext]_allVars => (\A i \in Alert : WholeFill(i))'
  BY WholeStep
<1>3. BrokerInv /\ (\A i \in Alert : WholeFill(i)) => TruthIsRecordable
  <2> SUFFICES ASSUME BrokerInv, NEW i \in Alert, WholeFill(i), outbox[i] # <<>>,
                      NEW e \in [status : Receipts, quantity : 0..Contracts], e = Head(outbox[i])
               PROVE  mode[i] = "LIVE" /\ e.status \in ReceiptAllowed(status[i]) /\ QuantityFits(i, e)
    BY ReportTypes, HeadTailProperties DEF TruthIsRecordable, BrokerInv
  <2>1. /\ outbox[i] \in Seq([status : Receipts, quantity : 0..Contracts])
        /\ order[i] # "NONE" /\ mode[i] = "LIVE" /\ Chained(i)
    BY ReportTypes DEF BrokerInv, OrderSound
  <2>2. 1 \in 1..Len(outbox[i]) /\ e = outbox[i][1] /\ 1 - 1 = 0
    BY <2>1
  <2>3. e.status \in ReceiptAllowed(status[i])
    BY <2>1, <2>2 DEF Chained, Known
  <2>4. e.status = "EXECUTED" => e.quantity <= Contracts
    <3>1. e.quantity \in 0..Contracts /\ Contracts \in Nat
      BY BrokerAssumption
    <3> QED BY <3>1
  <2>5. ASSUME e.status = "CLOSED" PROVE e.quantity = entered[i]
    <3>1. status[i] = "EXECUTED"
      BY <2>3, <2>5 DEF ReceiptAllowed
    <3> QED BY <2>1, <2>2, <2>5, <3>1 DEF WholeFill
  <2> QED BY <2>1, <2>3, <2>4, <2>5 DEF QuantityFits
<1> QED BY <1>1, <1>2, <1>3, TradingInvariant, PTL DEF TradingSpec
=============================================================================
