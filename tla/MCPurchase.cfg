SPECIFICATION FairSpec
CONSTANTS
    Reports = {"r1", "r2"}
    Prices = {1, 2}
    Ceiling = 1
    MaxRestarts = 1
CHECK_DEADLOCK FALSE
INVARIANTS OneReceipt
PROPERTIES FailureIsReal WatchingEnds ReceiptFollows
