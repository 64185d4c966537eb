SPECIFICATION Spec
CONSTANTS
    r1 = r1
    r2 = r2
    a = a
    b = b
    c = c
    d = d
    w1 = w1
    w2 = w2
    p1 = p1
    p2 = p2
    Run <- MCRun
    Step <- MCStep
    RunOf <- MCRunOf
    Needs <- MCNeeds
    After <- MCAfter
    Required <- MCRequired
    Remote <- MCRemote
    Dated <- MCDated
    MaxAttempts <- MCMaxAttempts
    MaxBudget = 2
    LeaseTerm = 2
    Session <- MCSession
    Sweeper <- MCSweeper
SYMMETRY Workers
INVARIANTS
    OneLiveStepPerRun
    CurrentAttemptIsTheLiveOne
    RunAgreesWithSteps
    DependenciesFirst
PROPERTIES
    EndedRunIsFrozen
    LapsedAttemptHasNoResult
    RemoteEffectIsNeverRetriedBlind
    ImplementsLedger
    StepsGoForward
