SPECIFICATION FairSpec
CONSTANTS
    c1 = c1
    c2 = c2
    s1 = s1
    q1 = q1
    q2 = q2
    Caller = {c1, c2}
    Step = {s1}
    Request = {q1, q2}
    RequestOf <- One
    Budget = 2
    NoStep = NoStep
    NoRequest = NoRequest
INVARIANTS
    EffectOnce
    AttemptMatchesReceipt
    ReceiptNamesItsAttempt
    AnswersAreTrue
PROPERTIES
    ReceiptIsFinal
    EveryCallEnds
