SPECIFICATION Spec
CONSTANTS
  u1 = u1
  s1 = s1
  s2 = s2
  Users = {u1}
  Kind = "community"
  MaxFollows = 1
  Slots = {s1, s2}
  MaxTries = 1
  MaxCrashes = 0
  Answers = {"reject"}
  HasPosts = FALSE
  Conventional = FALSE
SYMMETRY SlotSymmetry
CHECK_DEADLOCK FALSE
INVARIANT RejectedNotAccepted
