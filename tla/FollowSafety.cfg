SPECIFICATION Spec
CONSTANTS
  u1 = u1
  s1 = s1
  s2 = s2
  Users = {u1}
  Kind = "community"
  MaxFollows = 2
  Slots = {s1, s2}
  MaxTries = 2
  MaxCrashes = 1
  Answers = {"accept", "reject"}
  HasPosts = FALSE
  Conventional = TRUE
SYMMETRY SlotSymmetry
CHECK_DEADLOCK FALSE
INVARIANT TypeOK
INVARIANT AcceptedWasHeard
INVARIANT RemovalLeavesUndo
