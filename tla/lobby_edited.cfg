SPECIFICATION LobbySpec
CONSTANTS
    Pages = {v1}
    Forms = {f1, f2}
    DearForm = f2
    Fee <- SomeFee
    Nonces = {n1, n2, n3}
    NoForm = noform
    NoNonce = nonone
    Haircuts = {10}
    Limit = 2
    MaxGames = 3
    Faults = {"answer lost"}
    Acts = {"edit"}
SYMMETRY Alike
CHECK_DEADLOCK FALSE
PROPERTIES
    GameAsAsked
