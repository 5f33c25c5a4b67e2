SPECIFICATION SpecJoining
CONSTANTS
  N = 3
  NotParticipant = NP
  Bottom = BT
  Join = JN
  Pass = PS
  Groups = {{0}, {0, 1}}
  Proposals = {}
  Mortal = {}
  MaxEstab = 1
  MaxSuspect = 0
  MaxBacklog = 0
INVARIANTS JoiningTypeOK ServersHear
PROPERTIES JoinsPresent Admitted
