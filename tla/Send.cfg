SPECIFICATION Spec
CONSTANTS
  me = me
  bob = bob
  eve = eve
  s1 = s1
  s2 = s2
  Addrs <- PairAddrs
  Us <- MyFirst
  Group <- NoGroup
  Sends = {s1, s2}
  GroupSends = {}
  MaxReg = 3
  MaxBase = 2
INVARIANTS SendTypeOK NoMessageKeyTwice SessionsMatchKnown ReturnMeansAccepted
PROPERTIES IdentityPinned RefusedOnlyByChange NewSessionsReadable
SYMMETRY Symmetric
CHECK_DEADLOCK FALSE
