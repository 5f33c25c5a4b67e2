SPECIFICATION Spec
CONSTANTS
  N = 2
  NotParticipant = NP
  Bottom = BT
  Proposals = {{0}, {1}, {0, 1}}
  Mortal = {}
  MaxEstab = 3
  MaxSuspect = 0
  MaxBacklog = 3
INVARIANTS TypeOK NtfValid LoopsRun
PROPERTIES OnlyProposalsChangeConfig ReplacesOneAtATime Settles
