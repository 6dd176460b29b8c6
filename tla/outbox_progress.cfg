SPECIFICATION FairOutboxSpec
CONSTANTS
    p1 = p1
    p2 = p2
    h1 = h1
    h2 = h2
    w1 = w1
    w2 = w2
    Rows = {p1}
    Hashes = {h1}
    Workers = {w1, w2}
    Nobody = Nobody
    Foreign = Foreign
    MaxAttempts = 2
CHECK_DEADLOCK FALSE
PROPERTIES
    PaymentIsRecorded
    QueueDrains
