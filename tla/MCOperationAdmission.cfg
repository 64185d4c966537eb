SPECIFICATION Spec
CONSTANTS
    n1 = n1
    n2 = n2
    s1 = s1
    s2 = s2
    q1 = q1
    q2 = q2
    r1 = r1
    r2 = r2
    r3 = r3
    a1 = a1
    a2 = a2
    NoClient = NoClient
    NoRun = NoRun
    Narrow <- MCNarrow
    Supervisor <- MCSupervisor
    Retained <- MCRetained
    Run <- MCRun
    Kind <- MCKind
    Recoverable <- MCRecoverable
    Slot <- MCSlot
SYMMETRY Clients
INVARIANTS
    RetainedIsAlone
    AdmittedUnderOneWriter
    SupervisedClaimIsAlone
    NarrowMeetsNoSupervisor
