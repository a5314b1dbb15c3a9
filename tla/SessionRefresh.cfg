\* Two pages of one browser, two exchanges, one mishap.
SPECIFICATION FairSpec
CONSTANTS
    t1 = t1  t2 = t2  x1 = x1  x2 = x2
    Tabs = {t1, t2}
    NoTab = NoTab
    Exchanges = {x1, x2}
    MaxTokens = 3
    MaxMishaps = 1
INVARIANTS
    TypeOK
    OneExchangePerPage
    OneLiveToken
    CookieIsNewest
    NoFalseAlarm
PROPERTY WaitersAreServed
CHECK_DEADLOCK FALSE
