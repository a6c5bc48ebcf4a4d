CONSTANTS
  MaxPolls = 60
  MaxIdle = 12
SPECIFICATION FairSpec
INVARIANTS SocketsOutliveNode SocketsReleased PingSocketAccounted
PROPERTIES NoParkingInTeardown ExitEnds FloodEnds JoinsWhenOnline RespondsWhenOnline
CHECK_DEADLOCK FALSE
