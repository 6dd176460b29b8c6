SPECIFICATION Spec
CONSTANTS
    Players = {p1, p2}
    NoPlayer = NoPlayer
    MaxEntries = 2
    MaxLives = 3
    MaxRuns = 2
    MaxSequence = 2
    MaxPlayers = 2
    LivesPerEntry = 2
    EntryAmount = 50
    Haircut = 10
    CreatorHaircut = 20
    IsPublic = TRUE
SYMMETRY Symmetry
CHECK_DEADLOCK FALSE
INVARIANTS
    LivesConserved
    FundedLife
    LeaverIsSettled
    OneSeatEach
    KillsJustified
    OneLiveInvoice
    ClosingIsFair
    Solvent
PROPERTIES
    ImplementsAccount
