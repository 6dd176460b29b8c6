SPECIFICATION PageSpec
CONSTANTS
    Players = {alice}
    NoPlayer = nobody
    MaxEntries = 2
    MaxLives = 1
    MaxRuns = 1
    MaxSequence = 2
    MaxPlayers = 1
    LivesPerEntry = 1
    EntryAmount = 10
    Haircut = 5
    CreatorHaircut = 10
    IsPublic = FALSE
    Requests = {t1}
    Tabs = {t1}
    FirstPlayer = alice
    InboxDepth = 1
    PageFaults = {"socket drops", "read lost", "answer lost", "reload"}
    Acts = {}
    Nonces = {n1, n2}
    NoNonce = nonone
    MaxInvoices = 2
    BatchSize = 1
    Rank <- OldestFirst
    DeskFaults = {}
    MaxCrashes = 0
SYMMETRY Alike
CHECK_DEADLOCK FALSE
INVARIANTS
    OfferIsSound
PROPERTIES
    RetiresOnlySettled
