SPECIFICATION Spec
CONSTANTS
  c1 = c1
  c2 = c2
  c3 = c3
  a = a
  Clients <- MCTwo
  IPs <- MCIPs
  IpOf <- MCTwoIp
  Limit = 1
  SendCap = 1
  BcastCap = 1
  MaxMsgs = 2
CHECK_DEADLOCK FALSE
PROPERTIES
  RefusalMeansTooMany
