---------------------------- MODULE IntentStates ----------------------------
(***************************************************************************)
(* Statuses of an execution intent and what a broker receipt does to them  *)
(* (autotrade.py), shared by the models of the manager and of its store.   *)
(***************************************************************************)
Modes     == {"SIMULATION", "LIVE"}
Terminal  == {"BLOCKED", "REJECTED", "FAILED", "CANCELLED", "EXPIRED", "CLOSED"}
Blockable == {"SHADOW", "READY"}
Status    == Blockable \cup Terminal \cup {"CLAIMED", "EXECUTED"}
Absent    == "NONE"

\* Fault: a repeated fill receipt is accepted.
FaultyReceiptAllowed(st) ==
  CASE st = "CLAIMED"   -> {"EXECUTED", "REJECTED", "FAILED", "CANCELLED"}
    [] st = "CANCELLED" -> {"EXECUTED"}
    [] st = "EXECUTED"  -> {"EXECUTED", "CLOSED", "FAILED"}
    [] OTHER            -> {}

\* Fault: a cancellation is final.
FaultyReceiptsAfter(st) ==
  CASE st = "CLAIMED"   -> {"EXECUTED", "REJECTED", "FAILED", "CANCELLED"}
    [] st = "EXECUTED"  -> {"CLOSED", "FAILED"}
    [] OTHER            -> {}

\* Receipt statuses record_receipt accepts in each status.
ReceiptAllowed(st) ==
  CASE st = "CLAIMED"   -> {"EXECUTED", "REJECTED", "FAILED", "CANCELLED"}
    [] st = "CANCELLED" -> {"EXECUTED"}
    [] st = "EXECUTED"  -> {"CLOSED", "FAILED"}
    [] OTHER            -> {}

\* Fault: a failed exit ends the intent.
FaultyStatusAfter(st, receipt) == receipt

\* A failed exit does not close the exposure.
StatusAfter(st, receipt) ==
  IF st = "EXECUTED" /\ receipt = "FAILED" THEN "EXECUTED" ELSE receipt

TradeEvents == {"ENTRY", "EXIT", "REJECTED", "FAILED", "CANCELLED"}

\* Fault: the journal keeps the broker's word.
FaultyTradeEvent(receipt) == receipt

\* _trade_event: the name of the journal entry of a receipt.
TradeEvent(receipt) ==
  CASE receipt = "EXECUTED" -> "ENTRY"
    [] receipt = "CLOSED"   -> "EXIT"
    [] OTHER                -> receipt
=============================================================================
