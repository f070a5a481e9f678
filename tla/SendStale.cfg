SPECIFICATION Spec
CONSTANTS
  me = me
  bob = bob
  eve = eve
  s1 = s1
  s2 = s2
  Addrs <- PairAddrs
  Us <- MyFirst
  Group <- NoGroup
  Sends = {s1, s2}
  GroupSends = {}
  MaxReg = 2
  MaxBase = 2
PROPERTY StaleSessionsAreReported
CHECK_DEADLOCK FALSE
