SPECIFICATION FairSpec
CONSTANTS
    MaxSockets = 4
    MaxBeats = 2
    MaxTroubles = 1
    AdvertisedWorks = TRUE
CHECK_DEADLOCK FALSE
INVARIANTS HoldsWhatIsOpen
PROPERTIES KeepsRejoining SettlesDown
