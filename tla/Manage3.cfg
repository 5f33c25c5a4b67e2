SPECIFICATION ManagedSpec
CONSTANTS
  N = 3
  NotParticipant = NP
  Bottom = BT
  Proposals = {}
  Mortal = {2}
  MaxEstab = 0
  MaxSuspect = 0
  MaxBacklog = 0
INVARIANTS ManagerTypeOK
PROPERTIES OnlyTheDeadAreReplaced ConfigIsAlive
