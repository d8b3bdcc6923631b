SPECIFICATION FairSpec
CONSTANTS
  m1 = m1  m2 = m2  s1 = s1  s2 = s2
  Messages = {m1, m2}
  Shipments = {s1, s2}
  Workers = {w1, w2}
  NoMessage = NoMessage
  Kind <- KindsValidAndUndecodable
  ShipmentOf <- OwnShipment
  MaxDeliver = 2
  BatchSize = 2
  Timely = TRUE
  MaxDisruptions = 2
  MaxStops = 1
INVARIANTS SingleHolder
PROPERTIES OrderlyProgression EventuallySettled EventuallyDelivered
