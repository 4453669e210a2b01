SPECIFICATION AcceptedSpec
CONSTANTS
  alice = alice
  bob = bob
  a1 = a1
  a2 = a2
  b1 = b1
  Initiator = alice
  Receiver = bob
  NoAgent = NoAgent
  Agents <- MCAgents
  Roster <- MCRosterOne
  MaxTurns = 3
  Ops = {"pause"}
  TurnKinds = {}
  Bodies = {"m"}
  MaxSequence = 3
  MaxMail = 0
  MaxApprovals = 1
  CrashingThreads = {}
  OtherBudgets = FALSE
INVARIANTS
  Custody
CHECK_DEADLOCK FALSE
