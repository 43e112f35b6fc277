SPECIFICATION FairSpec
CONSTANTS
  None = None
  e1 = e1
  s1 = s1
  s2 = s2
  daemon = daemon
  request = request
  foreign = foreign
  connect = connect
  Events = {e1}
  Sessions = {s1, s2}
  Clients = {daemon, request, foreign, connect}
  Options <- CommandOptions
  Target <- OneSession
  MaxConns = 2
  MaxTrouble = 1
INVARIANTS
  TypeOK
  OpenIsCurrent
  NothingStranded
  DelayWithinPolicy
PROPERTIES
  ImplementsAtLeastOnce
  
  DaemonIsBack
CHECK_DEADLOCK FALSE
