CONSTANTS
    c1 = c1
    c2 = c2
    c3 = c3
    l1 = l1
    l2 = l2
    l3 = l3
    l4 = l4
    NoLock = NoLock
    Client = {c1, c2, c3}
    Lock = {l1, l2, l3, l4}
    OwnerOf <- Owners
    ModeOf <- Modes
    BitsOf <- BitSets
    Bits = {0, 1}
    Held = {l1}
    DomBit = 0
    Budgets <- OneIntervention
SPECIFICATION FairSpec
CHECK_DEADLOCK FALSE
INVARIANTS
    TypeOK
    Exclusive
    Coherent
    NoPanic
PROPERTIES
    Settles
