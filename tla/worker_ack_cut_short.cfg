SPECIFICATION Spec
CONSTANTS
  m1 = m1  m2 = m2  s1 = s1  s2 = s2
  Messages = {m1}
  Shipments = {s1}
  Workers = {w1}
  NoMessage = NoMessage
  Kind <- KindsTwoValid
  ShipmentOf <- OwnShipment
  MaxDeliver = 3
  BatchSize = 1
  Timely = TRUE
  MaxDisruptions = 0
  MaxStops = 1
INVARIANTS AckOnlyOnCompletion
