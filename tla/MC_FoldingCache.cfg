CONSTANTS
    c1 = c1
    c2 = c2
    w1 = w1
    w2 = w2
    b = b
    a = a
    d = d
    Callers = {c1, c2}
    Workers = {w1, w2}
    Bases = {b}
    Transforms = {a, d}
    Requirement <- MCRequirement
    Kind <- MCKind
    Dependent = {d}
    MaxLen = 2
    CacheActive = TRUE
    MaxQueue = 2
SPECIFICATION Spec
INVARIANTS
    TypeOK
PROPERTIES
    AbstractSpec
    QueueDrains
    RequestsServed
