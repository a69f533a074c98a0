SPECIFICATION Spec
CONSTANTS
  remote = remote
  forum = forum
  Hosts = {remote}
  Communities = {forum}
  HostOf <- Home
  Listed <- OwnList
  Lemmy = {}
  Lanes = {"main"}
  Visitors = {forum}
  MaxOutgoing = 1
  MaxChanges = 1
  MaxStops = 0
CHECK_DEADLOCK FALSE
PROPERTY RejectionRecorded
