--------------------------- MODULE AutotradeBroker ---------------------------
(***************************************************************************)
(* The execution manager with the two parties it cannot see: the agent     *)
(* that places orders and the broker that answers them.  Neither is in     *)
(* the repository; they follow the Live loop of doc 27.  The agent fetches *)
(* the intents before it places an order, places at most one order for an  *)
(* intent, and posts every broker event as a receipt; between its fetch    *)
(* and its order, and between a broker event and its receipt, anything     *)
(* may happen: switches, quarantines, polls, expiry.                       *)
(***************************************************************************)
EXTENDS Autotrade

CONSTANTS
  Contracts,  \* planned quantity of every order
  Fills,      \* quantities the broker may fill at once
  MaxEvents   \* bound of one order's broker events

ASSUME BrokerAssumption ==
  /\ Contracts \in Nat \ {0}
  /\ Fills \subseteq 1..Contracts
  /\ MaxEvents \in Nat

VARIABLES
  fetched,   \* intents that were placeable when the agent last fetched them
  order,     \* the broker's order for each intent
  position,  \* contracts the account holds for the intent
  outbox,    \* broker events the agent has not reported yet
  entered    \* filled_quantity of the ENTRY event

brokerVars == <<fetched, order, position, outbox, entered>>
allVars == <<vars, brokerVars>>

OrderState == {"NONE", "WORKING", "CANCELLED", "REFUSED", "FILLED", "CLOSED"}
Receipts == {"EXECUTED", "REJECTED", "FAILED", "CANCELLED", "CLOSED"}

-----------------------------------------------------------------------------
(* The agent.                                                                *)

\* Before it places an order the agent fetches health and intents again.
Fetch ==
  /\ Poll
  /\ fetched' = {i \in Alert : Authority(i)' /\ GateOpen(i)}
  /\ UNCHANGED <<order, position, outbox, entered>>

PlaceOrder(i) ==
  /\ i \in fetched
  /\ order[i] = "NONE"
  /\ order' = [order EXCEPT ![i] = "WORKING"]
  /\ UNCHANGED <<vars, fetched, position, outbox, entered>>

\* Quantities record_receipt accepts for a selected contract: a fill inside the
\* plan, and an exit of the full recorded quantity.  An equity plan takes any.
QuantityFits(i, receipt) ==
  selection[i] # NoSelection =>
    /\ receipt.status = "EXECUTED" => receipt.quantity <= Contracts
    /\ receipt.status = "CLOSED" => receipt.quantity = entered[i]

\* POST .../receipt with the oldest unreported event; a refused receipt is posted
\* again.
Post(i) ==
  LET receipt == Head(outbox[i])
  IN  /\ outbox[i] # <<>>
      /\ QuantityFits(i, receipt)
      /\ RecordReceipt(i, receipt.status)
      /\ entered' = [entered EXCEPT ![i] =
            IF receipt.status = "EXECUTED" THEN receipt.quantity ELSE @]
      /\ outbox' = [outbox EXCEPT ![i] = Tail(@)]
      /\ UNCHANGED <<fetched, order, position>>

-----------------------------------------------------------------------------
(* The broker.                                                               *)

Report(i, answer, quantity) ==
  /\ Len(outbox[i]) + Len(trades[i]) < MaxEvents
  /\ outbox' = [outbox EXCEPT ![i] = Append(@, [status |-> answer, quantity |-> quantity])]

Refuse(i, answer) ==
  /\ order[i] = "WORKING"
  /\ order' = [order EXCEPT ![i] = IF answer = "CANCELLED" THEN "CANCELLED" ELSE "REFUSED"]
  /\ Report(i, answer, 0)
  /\ UNCHANGED <<vars, fetched, position, entered>>

\* A fill may come after a cancellation was acknowledged.  The agent reports the
\* first fill; the receipt schema has no second one.
Fill(i, quantity) ==
  /\ order[i] \in {"WORKING", "CANCELLED", "FILLED"}
  /\ position[i] + quantity <= Contracts
  /\ order' = [order EXCEPT ![i] = "FILLED"]
  /\ position' = [position EXCEPT ![i] = @ + quantity]
  /\ IF order[i] = "FILLED" THEN UNCHANGED outbox ELSE Report(i, "EXECUTED", quantity)
  /\ UNCHANGED <<vars, fetched, entered>>

\* An exit or protection order fails; the position stays.
ExitFails(i) ==
  /\ order[i] = "FILLED"
  /\ Len(outbox[i]) + Len(trades[i]) < MaxEvents - 1
  /\ Report(i, "FAILED", 0)
  /\ UNCHANGED <<vars, fetched, order, position, entered>>

Exit(i) ==
  /\ order[i] = "FILLED"
  /\ order' = [order EXCEPT ![i] = "CLOSED"]
  /\ position' = [position EXCEPT ![i] = 0]
  /\ Report(i, "CLOSED", position[i])
  /\ UNCHANGED <<vars, fetched, entered>>

-----------------------------------------------------------------------------
\* Calls of the manager that neither read nor change what the broker knows.
ManagerNext ==
  /\ \/ OperatorNext
     \/ LiveLoopNext
     \/ Tick
     \/ \E i \in Alert, power \in Power, price \in Price, g \in Grade, age \in Lag :
           AttestSelection(i, power, price, g, age)
     \/ \E i \in Alert, power \in Power, age \in Lag : AttestCapital(i, power, age)
     \/ \E i \in Alert : ClaimRefused(i) \/ ClaimExpired(i) \/ ClaimGranted(i)
  /\ UNCHANGED brokerVars

BrokerNext ==
  \E i \in Alert :
    \/ \E answer \in {"REJECTED", "FAILED", "CANCELLED"} : Refuse(i, answer)
    \/ \E quantity \in Fills : Fill(i, quantity)
    \/ ExitFails(i)
    \/ Exit(i)

PostNext == \E i \in Alert : Post(i)

TradingInit ==
  /\ Init
  /\ fetched = {}
  /\ order = [i \in Alert |-> "NONE"]
  /\ position = [i \in Alert |-> 0]
  /\ outbox = [i \in Alert |-> <<>>]
  /\ entered = [i \in Alert |-> 0]

TradingNext ==
  \/ ManagerNext
  \/ Fetch
  \/ \E i \in Alert : PlaceOrder(i)
  \/ PostNext
  \/ BrokerNext

TradingSpec == TradingInit /\ [][TradingNext]_allVars

\* The agent reconciles: what it can post it posts.
TradingFairSpec == TradingSpec /\ WF_allVars(PostNext)

-----------------------------------------------------------------------------
(* Properties.                                                               *)

\* The manager, the agent's outbox and the account stay in their types.
TradingTypeOK ==
  /\ TypeOK
  /\ fetched \subseteq Alert
  /\ order \in [Alert -> OrderState]
  /\ position \in [Alert -> 0..Contracts]
  /\ outbox \in [Alert -> Seq([status : Receipts, quantity : 0..Contracts])]
  /\ entered \in [Alert -> 0..Contracts]

\* "Exposure truth must win" (record_receipt): whatever halted, expired or polled
\* the intent since the agent looked, the next unreported broker event of its
\* order is one the gateway accepts.
TruthIsRecordable ==
  \A i \in Alert : outbox[i] # <<>> =>
    /\ mode[i] = "LIVE"
    /\ Head(outbox[i]).status \in ReceiptAllowed(status[i])
    /\ QuantityFits(i, Head(outbox[i]))

\* Once every event is reported the gateway and the account agree on what is open.
BooksAgree ==
  \A i \in Alert : outbox[i] = <<>> =>
    (position[i] > 0 <=> status[i] = "EXECUTED" /\ mode[i] = "LIVE")

\* Every broker event is recorded in the end.
TruthIsRecorded == \A i \in Alert : outbox[i] # <<>> ~> outbox[i] = <<>>

\* "the intent remains EXECUTED until a broker-confirmed CLOSED receipt is
\* reconciled" (doc 27): such a receipt can be reconciled.
CloseIsRecordable ==
  \A i \in Alert : status[i] = "EXECUTED" /\ outbox[i] # <<>> /\ Head(outbox[i]).status = "CLOSED"
    => QuantityFits(i, Head(outbox[i]))
=============================================================================
