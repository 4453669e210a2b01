SPECIFICATION FairSpec
CONSTANTS
  alice = alice
  bob = bob
  a1 = a1
  a2 = a2
  b1 = b1
  Initiator = alice
  Receiver = bob
  NoAgent = NoAgent
  Agents <- MCAgents
  Roster <- MCRosterOne
  MaxTurns = 3
  Ops = {"dispatch", "clarify"}
  TurnKinds = {}
  Bodies = {"m"}
  MaxSequence = 1
  MaxMail = 1
  MaxApprovals = 1
  CrashingThreads = {}
  OtherBudgets = FALSE
PROPERTIES
  FirstMessageArrives
CHECK_DEADLOCK FALSE
