\* A customer pays by code what was paid in cash meanwhile: nothing cancels the intent, and
\* the webhook ignores the payment Stripe has captured.
SPECIFICATION Spec
CONSTANTS
    i1 = i1  s1 = s1  s2 = s2
    Invoices = {i1}
    Staff = {s1}
    Intents <- TwoIntents
    Total = 1
    MaxSurcharge = 0
    MaxFailures = 0
CHECK_DEADLOCK FALSE
PROPERTY
    PaymentsAreRecorded
