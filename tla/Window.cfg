SPECIFICATION Spec
CONSTANTS
  Screens = {"s1", "s2"}
  FirstOf <- MCFirstOf
  Places = {"a", "b", "small"}
  MaxTimers = 2
INVARIANT FollowsSettings
PROPERTY KeepsItsPlace
