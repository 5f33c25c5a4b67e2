SPECIFICATION SpecRunning
CONSTANTS
  N = 3
  BeatThreshold = 2
  MaxQueue = 1
  MaxWaiting = 3
  Mortal = {2}
  Busy = {0}
  MaxEvents = 0
PROPERTIES TrustByOwnToken DeadSuspected
CHECK_DEADLOCK FALSE
