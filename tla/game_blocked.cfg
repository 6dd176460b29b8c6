SPECIFICATION FairGameSpec
CONSTANTS
    alice = alice
    bob = bob
    c1 = c1
    c2 = c2
    Players = {alice}
    NoPlayer = nobody
    Conns = {c1}
    NoConn = noconn
    Owner <- SoloTab
    Holder <- SoloEntry
    MaxEntries = 1
    MaxLives = 1
    MaxRuns = 1
    MaxSequence = 1
    MaxPlayers = 2
    LivesPerEntry = 1
    EntryAmount = 10
    Haircut = 5
    CreatorHaircut = 10
    IsPublic = FALSE
    BatchSize = 1
    IpcDepth = 1
    MaxCrashes = 0
    Faults = {"late answer"}
CHECK_DEADLOCK FALSE
PROPERTY LeaveNeedsNoRestart
