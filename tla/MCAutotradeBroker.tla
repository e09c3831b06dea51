------------------------- MODULE MCAutotradeBroker -------------------------
(***************************************************************************)
(* Instances of AutotradeBroker: one dynamic option plan of two contracts  *)
(* (the per-order cap of two units buys two at a price of one), alive for  *)
(* two ticks, with caps that never change.                                 *)
(***************************************************************************)
EXTENDS AutotradeBroker, MCAutotrade

BrokerOptionValidity == a2 :> 2
BrokerLimits == {Cap(Alert, 2, 3, 1, 80, 1)}
=============================================================================
