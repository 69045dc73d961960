SPECIFICATION FairSpec
CONSTANT MaxVersion = 4
INVARIANT DiskIsSound
PROPERTIES
  NotTriedAgain
  UpdatesArrive
CHECK_DEADLOCK FALSE
