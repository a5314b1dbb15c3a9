\* Two requests in flight on one invoice, every handler that touches money.
SPECIFICATION Spec
CONSTANTS
    i1 = i1  i2 = i2  k1 = k1  k2 = k2  s1 = s1  s2 = s2
    Invoices = {i1}
    NoInvoice = NoInvoice
    Intents = {k1}
    NoIntent = NoIntent
    Slots = {s1, s2}
    NoSlot = NoSlot
    Ops <- MoneyOps
    MaxTotal = 2
    MaxRequests = 5
CHECK_DEADLOCK FALSE
SYMMETRY SymSlots
INVARIANTS
    TypeOK
    OneCapturePerIntent
    BalancesNonNegative
    WebhookSeesCommittedRow
    RecordedRefundsWereMade
