SPECIFICATION OutboxSpec
CONSTANTS
    p1 = p1
    p2 = p2
    h1 = h1
    h2 = h2
    w1 = w1
    w2 = w2
    Rows = {p1, p2}
    Hashes = {h1, h2}
    Workers = {w1, w2}
    Nobody = Nobody
    Foreign = Foreign
    MaxAttempts = 2
SYMMETRY Symmetry
CHECK_DEADLOCK FALSE
INVARIANTS
    SentOnce
    SentIsRemembered
    InvoiceUsedOnce
    VerdictIsTrue
PROPERTIES
    Irrevocable
