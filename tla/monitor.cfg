SPECIFICATION LiveMonitorGatewaySpec
CONSTANTS
  Links = {l1}
  Tickets = {k1, k2}
  Checkers = {r1, w1, w2}
  Sockets = {w1, w2}
  Talkers = {w2}
  Casters = {lis}
  Listener = lis
  Groups = {g1}
  MaxMsgs = 1
  Lifetime = 3
  Idle = 2
  MaxClock = 4
  Gone = Gone
  NoKey = Gone
INVARIANTS
  MonitorGatewayTypeOK
  OneSessionPerLink
  NoDeadRegistration
  BroadcastReachesAll

PROPERTY LifetimeEndsSockets

CHECK_DEADLOCK FALSE
