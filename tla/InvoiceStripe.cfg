\* Two invoices with payment links: overlapping issues, webhooks and deletions.
SPECIFICATION Spec
CONSTANTS
    i1 = i1  i2 = i2  k1 = k1  k2 = k2  s1 = s1  s2 = s2
    Invoices = {i1, i2}
    NoInvoice = NoInvoice
    Intents = {k1, k2}
    NoIntent = NoIntent
    Slots = {s1, s2}
    NoSlot = NoSlot
    Ops <- StripeOps
    MaxTotal = 2
    MaxRequests = 5
CHECK_DEADLOCK FALSE
SYMMETRY SymAll
INVARIANTS
    BooksBalance
    UniqueNumbers
