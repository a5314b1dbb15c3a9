\* Two staff browsers whose requests overlap and replace each other's sessions, while
\* requests and calls to Stripe fail: the session of the invoice has its link, and every
\* popup ends, with the truth.
SPECIFICATION FairSpec
CONSTANTS
    i1 = i1  s1 = s1  s2 = s2
    Invoices = {i1}
    Staff = {s1, s2}
    Intents <- TwoIntents
    Total = 1
    MaxSurcharge = 0
    MaxFailures = 1
CHECK_DEADLOCK FALSE
INVARIANTS
    TypeOK
    SessionHasItsLink
    PopupsTellTheTruth
PROPERTY
    WaitingEnds
