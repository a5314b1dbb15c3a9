\* One request at a time, every handler.
SPECIFICATION Spec
CONSTANTS
    i1 = i1  i2 = i2  k1 = k1  k2 = k2  s1 = s1  s2 = s2
    Invoices = {i1}
    NoInvoice = NoInvoice
    Intents = {k1, k2}
    NoIntent = NoIntent
    Slots = {s1}
    NoSlot = NoSlot
    Ops <- EveryOp
    MaxTotal = 2
    MaxRequests = 6
CHECK_DEADLOCK FALSE
SYMMETRY SymIntents
INVARIANTS
    BooksBalance
    StatusAgreesWithBooks
    CreditWithinTotal
PROPERTIES
    VoidedIsTerminal
    NumberImmutable
    TotalFixedOnceIssued
    PaidLeavesOnlyByMoneyOut
    HandlersLookAtomic
