SPECIFICATION Spec
CONSTANTS
  remote = remote
  forum = forum
  Hosts = {remote}
  Communities = {forum}
  HostOf <- Home
  Listed <- OwnList
  Lemmy = {remote}
  Lanes = {"main", "discovery"}
  Visitors = {forum}
  MaxChanges = 1
  MaxStops = 1
  MaxOutgoing = 1
CHECK_DEADLOCK FALSE
INVARIANT TypeOK
PROPERTY LiftedOnEvidence
PROPERTY FollowedSurvives
