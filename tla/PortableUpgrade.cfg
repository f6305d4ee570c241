SPECIFICATION FairSpec
CONSTANTS
    Program <- MCProgram
    User <- MCUser
    Config = "config"
    Attempts = 2
    MaxWrites = 2
    MaxFaults = 3
INVARIANTS
    WholeWithoutMarker
PROPERTIES
    ImplementsAtomicUpgrade
    OperatorRuntimeKept
    Recovers
