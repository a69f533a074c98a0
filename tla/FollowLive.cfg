SPECIFICATION FairSpec
CONSTANTS
  u1 = u1
  s1 = s1
  s2 = s2
  Users = {u1}
  Kind = "community"
  MaxFollows = 2
  Slots = {s1, s2}
  MaxTries = 1
  MaxCrashes = 1
  Answers = {"accept"}
  HasPosts = TRUE
  Conventional = FALSE
CHECK_DEADLOCK FALSE
PROPERTY EveryFollowSent
PROPERTY EveryUndoSent
