SPECIFICATION Spec
CONSTANTS
  alice = alice
  bob = bob
  a1 = a1
  a2 = a2
  b1 = b1
  Initiator = alice
  Receiver = bob
  NoAgent = NoAgent
  Agents <- MCAgents
  Roster <- MCRosterOne
  MaxTurns = 3
  Ops = {"dispatch", "accept", "decline", "clarify", "expire"}
  TurnKinds = {}
  Bodies = {"m"}
  MaxSequence = 2
  MaxMail = 1
  MaxApprovals = 1
  CrashingThreads = {"bg"}
  OtherBudgets = FALSE
INVARIANTS
  TypeOK
  LogContiguous
  PeerPrefix
  
  DeliveredIsProcessed
  NeverSilentlyActivated
CHECK_DEADLOCK FALSE
