SPECIFICATION Spec
CONSTANTS
    c1 = c1  c2 = c2
    h1 = h1  h2 = h2
    Invoices = {i1, i2}
    Charges = {c1, c2}
    Handlers = {h1, h2}
    NoCharge = none
    MaxFaults = 2
    Ordered = {c2}
CHECK_DEADLOCK FALSE
INVARIANT TypeOK
INVARIANT PaymentsSound
INVARIANT PaymentAgrees
INVARIANT AnsweredIsPaid
