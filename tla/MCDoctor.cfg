SPECIFICATION DoctorSpec
CONSTANTS
    Machines <- MCMachines
    Offers <- MCOffers
    Accounts <- MCAccounts
    MaxTime = 3
    Margin = 1
    Life = 2
    MaxChanges = 3
CHECK_DEADLOCK FALSE
INVARIANTS  TestSpeaksForNode
