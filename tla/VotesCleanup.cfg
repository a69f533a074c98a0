SPECIFICATION Spec
CONSTANTS
  user = user
  peer = peer
  writer = writer
  Local = {user}
  Peers = {peer}
  Author = writer
  MaxVotes = 1
  Slots = {s1, s2}
  s1 = s1
  s2 = s2
  MaxTotal = 1
  MaxArrivals = 1
SYMMETRY SlotSymmetry
CHECK_DEADLOCK FALSE
PROPERTY CleanupRefreshesCache
