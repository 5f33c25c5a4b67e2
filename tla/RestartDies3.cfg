SPECIFICATION SpecRestart
CONSTANTS
  N = 3
  NotParticipant = NP
  Bottom = BT
  Proposals = {}
  Mortal = {}
  MaxEstab = 0
  MaxSuspect = 0
  MaxBacklog = 0
INVARIANTS LoopsRun
