SPECIFICATION AcceptedSpec
CONSTANTS
  alice = alice
  bob = bob
  a1 = a1
  a2 = a2
  b1 = b1
  Initiator = alice
  Receiver = bob
  NoAgent = NoAgent
  Agents <- MCAgents
  Roster <- MCRoster
  MaxTurns = 3
  Ops = {"human", "tag_in", "pause", "resume", "cancel", "expire"}
  TurnKinds = {}
  Bodies = {"m"}
  MaxSequence = 3
  MaxMail = 2
  MaxApprovals = 1
  CrashingThreads = {"fg", "bg"}
  OtherBudgets = FALSE
INVARIANTS
  
  OutcomeSigned
PROPERTIES
  TerminalImmutable
CHECK_DEADLOCK FALSE
