SPECIFICATION FairSpec
CONSTANTS
  c1 = c1
  c2 = c2
  c3 = c3
  a = a
  Clients <- MCOne
  IPs <- MCIPs
  IpOf <- MCOneIp
  Limit = 1
  SendCap = 2
  BcastCap = 1
  MaxMsgs = 4
CHECK_DEADLOCK FALSE
PROPERTIES
  GoroutinesReclaimed
  HandlerReturns
  DeliveredOrDropped
  ImplementsFanout
