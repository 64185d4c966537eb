SPECIFICATION Spec
CONSTANTS
    r1 = r1
    s1 = s1
    p1 = p1
    p2 = p2
    Run = {r1}
    Step = {s1}
    Proc = {p1, p2}
    NoProc = NoProc
    NoSlice = NoSlice
    RunOf <- MCRunOf
    Needs <- MCNone
    After <- MCNone
    Required = {s1}
    Remote = {}
    Dated = {s1}
    MaxAttempts <- MCMax
    MaxBudget = 3
    LeaseTerm = 1
SYMMETRY Processes
INVARIANTS
    OneProviderCall
    TerminalMatchesEvidence
PROPERTY TerminalIsFinal
