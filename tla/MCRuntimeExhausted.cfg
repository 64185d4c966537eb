SPECIFICATION LiveSpec
CONSTANTS
    r1 = r1
    a = a
    b = b
    c = c
    w1 = w1
    p1 = p1
    Run <- MCRun
    Step <- MCStep
    RunOf <- MCRunOf
    Needs <- MCNeeds
    After <- MCAfter
    Required <- MCRequired
    Remote <- MCRemote
    Dated <- MCDated
    MaxAttempts <- MCMaxAttempts
    MaxBudget = 2
    LeaseTerm = 2
    Session <- MCSession
    Sweeper <- MCSweeper
PROPERTIES
    ExhaustedLeaseFails
