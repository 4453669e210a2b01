SPECIFICATION Spec
CONSTANTS
  alice = alice
  bob = bob
  a1 = a1
  b1 = b1
  w1 = w1
  w2 = w2
  Initiator = alice
  Receiver = bob
  Me = bob
  NoAgent = NoAgent
  NoJob = NoJob
  Agents <- MCAgents
  MaxTurns = 3
  Workers = {w1, w2}
  Openings <- MCOpenings
  Mail <- Questions
  Drafts <- OwnMessages
  NodeTargets = {"failed"}
  OwnerActions = {"owner_pause", "owner_resume"}
  MaxJobs = 3
INVARIANTS
  TypeOK
  UndisturbedIsAtomic
  NoGaps
CHECK_DEADLOCK FALSE
