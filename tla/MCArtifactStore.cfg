SPECIFICATION Spec
CONSTANTS
    h1 = h1
    p1 = p1
    v1 = v1
    s1 = s1
    s2 = s2
    d1 = d1
    d2 = d2
    Hash <- OneHash
    Publisher = {p1}
    Verifier = {v1}
    Scanner = {s1, s2}
    Deleter = {d1, d2}
    NoToken = NoToken
    NoHash = NoHash
SYMMETRY Crowd
INVARIANTS
    HeldIsNotCollected
    RowTellsTruth
    OneRoot
    RowAgreesWithCandidate
PROPERTIES
    ImplementsLifecycle
    ErasedAfterDecision
