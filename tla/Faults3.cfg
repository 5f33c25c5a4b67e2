SPECIFICATION SpecFaults
CONSTANTS
  N = 3
  NotParticipant = NP
  Bottom = BT
  Proposals = {{0, 1}}
  Mortal = {2}
  MaxEstab = 1
  MaxSuspect = 1
  MaxBacklog = 0
INVARIANTS SurvivorsRun
PROPERTIES RestIsKept RunningSettle
