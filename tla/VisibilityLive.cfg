SPECIFICATION FairSpec
CONSTANTS
  remote = remote
  forum = forum
  Hosts = {remote}
  Communities = {forum}
  HostOf <- Home
  Listed <- OwnList
  Lemmy = {remote}
  Lanes = {"main", "discovery"}
  Visitors = {}
  MaxOutgoing = 0
  MaxChanges = 1
  MaxStops = 1
CHECK_DEADLOCK FALSE
PROPERTY SuppressedHidden
PROPERTY SuppressionHeals
