CONSTANTS
    p1 = p1
    p2 = p2
    c1 = c1
    c2 = c2
    m1 = m1
    m2 = m2
    Producers = {p1, p2}
    Consumers = {c1, c2}
    Msgs = {m1, m2}
    NoMsg = NoMsg
    Capacity = 2
    Initialised = 2
    MaxPos = 5
SYMMETRY Symmetry
SPECIFICATION Spec
INVARIANTS
    NoRace
    Inv
PROPERTIES
    FailuresAreForLack
    ImplementsFifo
