SPECIFICATION FairSpec
CONSTANTS
  m1 = m1  m2 = m2  s1 = s1  s2 = s2
  Messages = {m1, m2}
  Shipments = {s1}
  Workers = {w1, w2}
  NoMessage = NoMessage
  Kind <- KindsTwoValid
  ShipmentOf <- SameShipment
  MaxDeliver = 2
  BatchSize = 1
  Timely = FALSE
  MaxDisruptions = 1
  MaxStops = 0
INVARIANTS TypeOK PartWayIsInFlight AckedIsDelivered
PROPERTIES FirstDeliveryIsMonotone EventuallySettled EventuallyDelivered
