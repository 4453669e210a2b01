SPECIFICATION NodeSpec
CONSTANTS
    Asker = a
    Answerer = b
    Slots = {h1, h2}
    PolicyNodes = {b}
    DraftTypes = {"answer"}
    MaxTaskMessages = 2
    MaxTasks = 2
    MaxSends = 3
    MaxFaults = 1
    Deciders = {d1, d2}
    Writers = {w}
    Cards <- MCCards
    Agendas <- MCAgendas
    Keys <- MCKeys
    MaxApprovals = 2
    MaxUpsets = 1
    Calls = {"fails", "json"}
    OwnerActions = {"owner_resume"}
    MaxStamps = 2
    ArtNodes = {"alice", "bob"}
    ArtSessions = {s1}
    ArtIds = {i1}
    Contents = {"report", "large"}
    Size <- MCSize
    MaxArtifactBytes <- MCMaxArtifactBytes
    MaxOffers = 2
    MaxDeaths = 1
    TextLines = {"x", "y"}
    MaxScript = 3
    ContextSizes = {0, 1}
    MaxEdits = 1
    Openers = {"cli", "server"}
    Releases = {6, 8}
    MaxRows = 1
    MaxStops = 1
    Agents = {"scout"}
    CardTexts = {"c1", "c2"}
    MaxCardSteps = 2
    Contacts = {"bob", "carol"}
    Publisher = "bob"
    MaxItems = 1
    PageSize = 1
    MaxLog = 3
    Profiles = {p1, p2}
    Flyers = {p2}
    Usernames = {u1, u2}
    Wanted <- MCWanted
    MaxPhrases <- MCPhrases
    MaxStumbles = 1
INVARIANTS
    NodeTypeOK
    TaskMailKept
    AppliedOncePerDoubt
    NoTaskStuck
    
    ReconciledIsMutual
    OnceIsOnce
    AnsweredOnce
    ClearedByOwner
    WaitsForAnOpenRow
    AcceptedIsHeld
    BudgetSeesVault
    
    
    SwapIsWhole
    SyncedIsCurrent
    
    ArenaMissesNothing
    
    IdentityHolds
CHECK_DEADLOCK FALSE
