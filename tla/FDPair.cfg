SPECIFICATION Spec
CONSTANTS
  N = 2
  BeatThreshold = 2
  MaxQueue = 1
  MaxWaiting = 3
  Mortal = {1}
  Busy = {0}
  MaxEvents = 4
INVARIANTS TypeOK TokensCirculate BarrierHolds
PROPERTIES TrustedAgain StatusForward RunsInTheEnd MonitorsStabilize
CHECK_DEADLOCK FALSE
