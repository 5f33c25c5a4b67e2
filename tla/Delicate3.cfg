SPECIFICATION SpecSteady
CONSTANTS
  N = 3
  NotParticipant = NP
  Bottom = BT
  Proposals = {{0, 1}, {1, 2}}
  Mortal = {}
  MaxEstab = 2
  MaxSuspect = 0
  MaxBacklog = 0
INVARIANTS UnanimousInPhase2 AllowedOnlyAtRest
PROPERTIES InstallAgreement Settles
