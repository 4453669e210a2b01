SPECIFICATION MCSpec
CONSTANTS
  Requests = {r1}
  CredentialMode = "custom"
  MaxChunks = 2
  Callers = {c1, c2, c3}
  CardOf <- MCCardOf
  ApprovedSkills = {"lookup"}
  Ttl = 2
  FetchTimeout = 1
  MaxRedirects = 1
  MaxClock = 4
INVARIANTS
  TypeOK
  
PROPERTIES
  StreamsEnd
  CardsAsPromised
  OneRefreshPerTtl
  CardRequestsEnd
CHECK_DEADLOCK FALSE
