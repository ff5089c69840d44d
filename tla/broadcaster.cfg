SPECIFICATION Spec
CONSTANTS
  c1 = c1
  c2 = c2
  c3 = c3
  a = a
  Clients <- MCThree
  IPs <- MCIPs
  IpOf <- MCThreeIp
  Limit = 2
  SendCap = 1
  BcastCap = 1
  MaxMsgs = 2
CHECK_DEADLOCK FALSE
SYMMETRY MCSymmetryThree
INVARIANTS
  TypeOK
  RunNeverPanics
  StreamComplete
  SlotsAccounted
  LimitRespected
