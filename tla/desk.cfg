SPECIFICATION FairDeskSpec
CONSTANTS
    Players = {alice}
    NoPlayer = nobody
    MaxEntries = 2
    MaxLives = 0
    MaxRuns = 1
    MaxSequence = 1
    MaxPlayers = 1
    LivesPerEntry = 1
    EntryAmount = 10
    Haircut = 5
    CreatorHaircut = 10
    IsPublic = FALSE
    Requests = {r1}
    Nonces = {n1, n2}
    NoNonce = nonone
    MaxInvoices = 2
    BatchSize = 1
    Rank <- YoungestFirst
    DeskFaults = {"wallet fails", "database fails", "event lost", "closure"}
    MaxCrashes = 1
CHECK_DEADLOCK FALSE
INVARIANTS
    NonceNamesOneEntry
    OneInvoicePerEntry
    ShownIsCreditable
    CreditIsPaid
PROPERTIES
    PaidIsCredited
