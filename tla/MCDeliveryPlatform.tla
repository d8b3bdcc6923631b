-------------------------- MODULE MCDeliveryPlatform --------------------------
(***************************************************************************)
(* Small instances of DeliveryPlatform: each request draws the shipment    *)
(* and the event of its own index.                                         *)
(***************************************************************************)
EXTENDS DeliveryPlatform

CONSTANTS r1, r2, s1, s2, m1, m2

OwnIds == [r \in Requests |-> IF r = r1 THEN s1 ELSE s2]
OwnEvents == [r \in Requests |-> IF r = r1 THEN m1 ELSE m2]
GoodBodies == [r \in Requests |-> "ok"]
GoodAndInvalid == [r \in Requests |-> IF r = r1 THEN "ok" ELSE "invalid"]
=============================================================================
