SPECIFICATION Spec
CONSTANTS
    MaxEvents = 4
    MaxFaults = 3
    MaxCrashes = 2
INVARIANTS TypeOK SyncedIsStored ReturnedIsDurable ChainStaysIntact
PROPERTIES SyncsInOrder EveryEventIsStored
