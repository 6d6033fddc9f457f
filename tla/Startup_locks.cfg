SPECIFICATION Spec
CONSTANTS
    Nil = Nil
    Processes = {p1, p2, p3}
    Bootstrap = {p1, p2}
INVARIANTS NobodyWaitsForStores RaftHasItsStores
CHECK_DEADLOCK FALSE
