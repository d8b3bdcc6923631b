----------------------------- MODULE MCShipmentApi -----------------------------
(***************************************************************************)
(* Small instances of ShipmentApi: each request draws the shipment and the *)
(* event of its own index.                                                 *)
(***************************************************************************)
EXTENDS ShipmentApi

CONSTANTS r1, r2, r3, s1, s2, s3, m1, m2, m3

OwnIds == [r \in Requests |-> CASE r = r1 -> s1 [] r = r2 -> s2 [] OTHER -> s3]
OwnEvents == [r \in Requests |-> CASE r = r1 -> m1 [] r = r2 -> m2 [] OTHER -> m3]

\* Two good bodies and one that does not decode.
MixedBodies == [r \in Requests |-> IF r = r3 THEN "malformed" ELSE "ok"]
=============================================================================
