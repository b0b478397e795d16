CONSTANTS
    p1 = p1
    p2 = p2
    shared = shared
    Nil = Nil
    Callers = {p1, p2}
    Options = {shared}
    Verbs = {"raw", "json", "form"}
    Cookies = {"a"}
    ByHand = {"Content-Type"}
    MaxSets = 2
    MaxCalls = 1
SPECIFICATION Spec
SYMMETRY Symmetry
INVARIANTS
    TypeOK
    NoLeak
    UndisturbedAsExpected
