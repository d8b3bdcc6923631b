SPECIFICATION FairSpec
CONSTANTS
  r1 = r1  r2 = r2  r3 = r3
  s1 = s1  s2 = s2  s3 = s3
  m1 = m1  m2 = m2  m3 = m3
  Requests = {r1, r2, r3}
  Shipments = {s1, s2, s3}
  Messages = {m1, m2, m3}
  Servers = {v1, v2}
  NoServer = NoServer
  Body <- MixedBodies
  NewShipment <- OwnIds
  NewEvent <- OwnEvents
  MaxDeliver = 1
  MaxApiFaults = 1
INVARIANTS TypeOK CreatedIsStoredAndPublished EventHasRow OrphanIsReported
PROPERTIES EventuallyFinished
