SPECIFICATION SpecThreads
CONSTANTS
  N = 2
  NotParticipant = NP
  Bottom = BT
  Proposals = {{0}}
  Mortal = {}
  MaxEstab = 1
  MaxSuspect = 0
  MaxBacklog = 0
INVARIANTS ThreadsTypeOK LoopsRun
PROPERTIES RacesHeal
