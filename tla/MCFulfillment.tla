--------------------------- MODULE MCFulfillment ---------------------------
(***************************************************************************)
(* Instances of Fulfillment for TLC: one need or two, the unit             *)
(* fort-consumer and one callback at a time. FulfillmentProofs covers any  *)
(* number of units and callbacks.                                          *)
(***************************************************************************)
EXTENDS Fulfillment, TLC

CONSTANTS n1, n2, v1, v2, noReq, consumer

OneNeed == {n1}
TwoNeeds == {n1, n2}
Versions == {v1, v2}
OneVersion == {v1}

\* Every need is declared at first boot.
AllDeclared == [n \in Needs |-> v1]

\* Need n2 only comes with a later deploy.
SecondLater == [n \in Needs |-> IF n = n1 THEN v1 ELSE noReq]

=============================================================================
