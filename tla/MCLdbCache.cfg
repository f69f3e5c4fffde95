SPECIFICATION Spec
CONSTANTS
    Keys = {k1, k2}
    Clients = {c1, c2, c3}
    Entries = {e1, e2, e3, e4}
    Charges = {1, 2}
    Capacity = 3
    None = None
SYMMETRY Symmetry
INVARIANTS
    RefsAreCounted
    HeldIsAlive
    ListsAgree
    UsageIsTheSum
