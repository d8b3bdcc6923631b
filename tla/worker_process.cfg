SPECIFICATION Spec
CONSTANTS
  MaxOutages = 2
  MaxBrokerOutages = 2
  MaxForgotten = 2
  MaxEnds = 2
INVARIANTS TypeOK NoPoolDroppedInUse
PROPERTIES NoConnectionForgotten OutageIsNoticed BrokerOutageIsNoticed ReadyAgain ShutdownEnds
