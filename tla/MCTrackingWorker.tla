--------------------------- MODULE MCTrackingWorker ---------------------------
(***************************************************************************)
(* Small instances of TrackingWorker.  Each message is a shipment's event  *)
(* or poison; the event of a shipment is the message of the same index.    *)
(***************************************************************************)
EXTENDS TrackingWorker

CONSTANTS m1, m2, s1, s2

\* Two valid events, one each for two shipments.
KindsTwoValid == [m \in Messages |-> "valid"]
OwnShipment == [m \in Messages |-> IF m = m1 THEN s1 ELSE s2]

\* One valid event beside one undecodable payload.
KindsValidAndUndecodable ==
  [m \in Messages |-> IF m = m1 THEN "valid" ELSE "undecodable"]

\* The same shipment named by every event (a duplicated publish).
SameShipment == [m \in Messages |-> s1]
=============================================================================
