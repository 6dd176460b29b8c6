SPECIFICATION LobbySpec
CONSTANTS
    Pages = {v1}
    Forms = {f1, f2}
    DearForm = f2
    Fee <- SomeFee
    Nonces = {n1, n2, n3}
    NoForm = noform
    NoNonce = nonone
    Haircuts = {10, 40}
    Limit = 2
    MaxGames = 3
    Faults = {"server fails", "too many"}
    Acts = {"edit", "others", "settings", "disabling", "expiry"}
SYMMETRY Alike
CHECK_DEADLOCK FALSE
INVARIANTS
    LobbyTypeOK
PROPERTIES
    GameAsAsked
    AnnouncedIsOpen
