SPECIFICATION FairSpec
CONSTANTS
  r1 = r1  r2 = r2  s1 = s1  s2 = s2  m1 = m1  m2 = m2
  Requests = {r1, r2}
  Shipments = {s1, s2}
  Messages = {m1, m2}
  Servers = {v1}
  NoServer = NoServer
  Body <- GoodAndInvalid
  NewShipment <- OwnIds
  NewEvent <- OwnEvents
  MaxApiFaults = 1
  Workers = {w1, w2}
  NoMessage = NoMessage
  MaxDeliver = 2
  BatchSize = 2
  Timely = TRUE
  MaxDisruptions = 1
  MaxStops = 0
INVARIANTS NoUpdateWithoutRow ProgressHasCause
PROPERTIES ImplementsLifecycle CreatedIsDelivered
