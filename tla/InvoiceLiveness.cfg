\* A payment Stripe has taken is recorded; an invoice past due is marked overdue.
SPECIFICATION FairSpec
CONSTANTS
    i1 = i1  i2 = i2  k1 = k1  k2 = k2  s1 = s1  s2 = s2
    Invoices = {i1}
    NoInvoice = NoInvoice
    Intents = {k1}
    NoIntent = NoIntent
    Slots = {s1, s2}
    NoSlot = NoSlot
    Ops <- LiveOps
    MaxTotal = 2
    MaxRequests = 3
CHECK_DEADLOCK FALSE
PROPERTIES
    SucceededIntentIsRecorded
    PastDueBecomesOverdue
