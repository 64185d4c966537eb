SPECIFICATION Spec
CONSTANTS
    run = run
    report = report
    p1 = p1
    p2 = p2
    NoProc = NoProc
    Run <- MCRun
    Step <- MCStep
    RunOf <- MCRunOf
    Needs <- MCNone
    After <- MCNone
    Required <- MCStep
    Remote <- MCStep
    Dated <- MCStep
    MaxAttempts <- MCMaxAttempts
    MaxBudget = 3
    LeaseTerm = 1
    Report = report
    Proc <- MCProc
    MaxSends = 2
SYMMETRY Processes
INVARIANTS
    AtMostOneAcceptance
    OneSendPerAttempt
    OneResponsePerAttempt
    AcceptedResponseIsTheSuccess
PROPERTIES
    ResumeHasProof
    ImplementsLedger
    DeliverGoesForward
