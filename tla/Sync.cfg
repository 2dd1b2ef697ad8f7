CONSTANTS
  Peer = {p, q}
  Bad = {q}
  ahead = 1
  most = 2
  Start <- ThePeers
  MaxSeq = 5
  MaxFlight = 2
  MaxLost = 1
SPECIFICATION LiveSpec
INVARIANTS OnlyFromChain FollowUpsServed ProbationDeserved
PROPERTIES CatchesUp
CHECK_DEADLOCK FALSE
