SPECIFICATION Spec
CONSTANTS
    blank = blank
    fair = fair
    zero = zero
    q1 = q1
    q2 = q2
    i1 = i1
    i2 = i2
    c1 = c1
    c2 = c2
    None = None
    Inputs = {blank, fair, zero}
    Empty = blank
    Unpriced = {zero}
    Quotes = {q1, q2}
    Payments = {i1, i2}
    Connectors = {c1, c2}
    MaxDisconnects = 2
SYMMETRY Symmetry
CHECK_DEADLOCK FALSE
INVARIANTS QuoteIsOfInput PaidOnce
PROPERTIES SignedByAccountShown
