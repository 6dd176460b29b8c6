SPECIFICATION FairLobbySpec
CONSTANTS
    Pages = {v1}
    Forms = {f1, f2}
    DearForm = f2
    Fee <- SomeFee
    Nonces = {n1, n2}
    NoForm = noform
    NoNonce = nonone
    Haircuts = {10, 40}
    Limit = 2
    MaxGames = 3
    Faults = {"answer lost", "server fails", "reload"}
    Acts = {"others", "settings", "expiry"}
CHECK_DEADLOCK FALSE
INVARIANTS
    OneGamePerForm
PROPERTIES
    GameAsAsked
    WantedIsCreated
