SPECIFICATION DeskSpec
CONSTANTS
    Players = {alice}
    NoPlayer = nobody
    MaxEntries = 2
    MaxLives = 1
    MaxRuns = 1
    MaxSequence = 2
    MaxPlayers = 1
    LivesPerEntry = 1
    EntryAmount = 10
    Haircut = 5
    CreatorHaircut = 10
    IsPublic = FALSE
    Requests = {r1, r2}
    Nonces = {n1, n2}
    NoNonce = nonone
    MaxInvoices = 2
    BatchSize = 1
    Rank <- YoungestFirst
    DeskFaults = {"wallet fails", "database fails", "event lost", "closure"}
    MaxCrashes = 0
SYMMETRY DeskSymmetry
CHECK_DEADLOCK FALSE
INVARIANTS
    DeskTypeOK
    NonceNamesOneEntry
    OneInvoicePerEntry
    ShownIsCreditable
    CreditIsPaid
