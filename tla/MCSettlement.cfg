SPECIFICATION Spec
CONSTANTS
    Providers = {p1}
    Accounts = {a1, a2}
    Prices = {1}
    Quotes = {q1, q2}
    Requests = {r1, r2, r3}
    Payloads = {k1, k2}
    None = None
    ListLimit = 3
    MaxRestarts = 1
    p1 = p1
    a1 = a1
    a2 = a2
    q1 = q1
    q2 = q2
    r1 = r1
    r2 = r2
    r3 = r3
    k1 = k1
    k2 = k2
SYMMETRY Symmetry
INVARIANTS BookedPaymentIsReal BookedOnce SettlementFindsJob
PROPERTIES PaymentIsFinal ImplementsBookkeeping
