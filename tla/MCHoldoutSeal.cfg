SPECIFICATION Spec
CONSTANTS
    w1 = w1  w2 = w2  h1 = h1  h2 = h2  dev = dev  held = held  held2 = held2
    c1 = c1  c2 = c2  e1 = e1  e2 = e2  i1 = i1
    Worker = {w1, w2}
    Holdout = {h1, h2}
    Run = {dev, held, held2}
    Commitment = {c1, c2}
    Evaluation = {e1, e2}
    Instrument = {i1}
    Development <- MCDevelopment
    Future <- MCFuture
    Sample <- MCSample
    Start <- MCStart
    Stop <- MCStop
    Planned <- MCPlanned
    RunOf <- MCRunOf
    Of <- MCOf
    At <- MCAt
    Due <- MCDue
    Required <- MCRequired
    MaxSession = 4
    Nothing = Nothing
SYMMETRY Connections
CHECK_DEADLOCK FALSE
INVARIANTS
    SealHolds
    ReadBySelected
    NeverTrained
PROPERTIES
    ImplementsAtomicSeal
