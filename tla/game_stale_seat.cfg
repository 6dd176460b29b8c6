SPECIFICATION GameSpec
CONSTANTS
    alice = alice
    bob = bob
    c1 = c1
    c2 = c2
    Players = {alice, bob}
    NoPlayer = nobody
    Conns = {c1, c2}
    NoConn = noconn
    Owner <- TwoPlayers
    Holder <- OneEach
    MaxEntries = 2
    MaxLives = 2
    MaxRuns = 2
    MaxSequence = 2
    MaxPlayers = 2
    LivesPerEntry = 1
    EntryAmount = 10
    Haircut = 5
    CreatorHaircut = 10
    IsPublic = FALSE
    BatchSize = 2
    IpcDepth = 1
    MaxCrashes = 0
    Faults = {"engine exits"}
CHECK_DEADLOCK FALSE
PROPERTY DisconnectConsumes
