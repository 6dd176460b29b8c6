SPECIFICATION FairPageSpec
CONSTANTS
    Players = {alice, alice2}
    NoPlayer = nobody
    MaxEntries = 1
    MaxLives = 2
    MaxRuns = 1
    MaxSequence = 2
    MaxPlayers = 1
    LivesPerEntry = 2
    EntryAmount = 10
    Haircut = 5
    CreatorHaircut = 10
    IsPublic = FALSE
    Requests = {t1}
    Tabs = {t1}
    FirstPlayer = alice
    InboxDepth = 1
    PageFaults = {"socket drops", "read lost", "leave fails", "admission fails", "engine fails"}
    Acts = {"play", "leave", "join again"}
    Nonces = {n1}
    NoNonce = nonone
    MaxInvoices = 1
    BatchSize = 1
    Rank <- OldestFirst
    DeskFaults = {}
    MaxCrashes = 0
CHECK_DEADLOCK FALSE
PROPERTIES
    LeftIsFinal
    PageIsSeen
    PaidIsPlayed
    DeadInvoiceGoes
