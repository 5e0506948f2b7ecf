SPECIFICATION DeskSpec
CONSTANTS
    r1 = r1
    r2 = r2
    r3 = r3
    c1 = c1
    c2 = c2
    p1 = p1
    Requests = {r1, r2, r3}
    Clients = {c1, c2}
    Providers = {p1}
    Prices <- MCPrices
    Rates <- MCRates
    Limit = 1
    Window = 2
    MaxAge = 2
    FetchTime = 1
    MaxTime = 5
    MaxChanges = 1
SYMMETRY Symmetry
CHECK_DEADLOCK FALSE
INVARIANTS LimitHolds QuoteIsFair NoHbarForCause
