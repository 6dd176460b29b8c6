SPECIFICATION GameSpec
CONSTANTS
    alice = alice
    bob = bob
    c1 = c1
    c2 = c2
    Players = {alice, bob}
    NoPlayer = nobody
    Conns = {c1, c2}
    NoConn = noconn
    Owner <- TwoTabs
    Holder <- AllAlice
    MaxEntries = 2
    MaxLives = 2
    MaxRuns = 2
    MaxSequence = 2
    MaxPlayers = 2
    LivesPerEntry = 1
    EntryAmount = 10
    Haircut = 5
    CreatorHaircut = 10
    IsPublic = FALSE
    BatchSize = 2
    IpcDepth = 1
    MaxCrashes = 1
    Faults = {"engine exits", "lease ends", "late answer"}
CHECK_DEADLOCK FALSE
INVARIANTS
    NoAuthorizedOrphan
PROPERTIES
    SeatEndsWithLife
