SPECIFICATION ConfigSpec
CONSTANTS
    c1 = c1
    c2 = c2
    old = old
    new = new
    Commands = {c1, c2}
    Wallets = {old, new}
    Fresh = new
    Prices <- MCPrices
    Preset = 5000
    Limit = 3
    MaxRows = 4
    MaxStops = 1
SYMMETRY Symmetry
CHECK_DEADLOCK FALSE
INVARIANTS ConfigWhole SaidIsSaved LedgerKept
