SPECIFICATION FairSpec
CONSTANTS
  user = user
  peer = peer
  Local = {user}
  Peers = {peer}
  Author = writer
  writer = writer
  MaxVotes = 2
  Slots = {s1, s2}
  s1 = s1
  s2 = s2
  MaxTotal = 1
  MaxArrivals = 1
CHECK_DEADLOCK FALSE
INVARIANT TypeOK
INVARIANT VotesAccounted
INVARIANT ReceivedWasTaken
PROPERTY SortCountHeals
