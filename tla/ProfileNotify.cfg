\* An edit whose notification was obeyed: NotifiedEditIsServed fails.
CONSTANTS
    a = a
    b = b
    r1 = r1
    w1 = w1
    w2 = w2
    Namespaces = {a, b}
    Readers = {r1}
    Writers = {w1, w2}
    InProcess = {w1}
    GateTTL = 1
    PlainTTL = 2
    MaxFill = 1
    MaxSeq = 2
SPECIFICATION Spec
INVARIANT NotifiedEditIsServed
