SPECIFICATION Spec
CONSTANTS
  me = me
  bob = bob
  eve = eve
  s1 = s1
  s2 = s2
  Addrs <- TrioAddrs
  Us <- MySecond
  Group <- Trio
  Sends = {s1}
  GroupSends = {s1}
  MaxReg = 2
  MaxBase = 1
INVARIANT GroupTriesEveryMember
PROPERTY SendEnds
CHECK_DEADLOCK FALSE
