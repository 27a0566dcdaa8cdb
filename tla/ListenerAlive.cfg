\* A LISTEN connection closed by the database: LostLinkIsNoticed fails.
CONSTANTS
    a = a
    b = b
    r1 = r1
    w1 = w1
    w2 = w2
    Namespaces = {a, b}
    Readers = {r1}
    Writers = {w1, w2}
    InProcess = {w1}
    GateTTL = 1
    PlainTTL = 2
    MaxFill = 1
    MaxSeq = 1
SPECIFICATION FairSpec
PROPERTY LostLinkIsNoticed
