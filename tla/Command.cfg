CONSTANTS
    IntBits = 4
    DefaultMaxDelay = 5
    LongOf <- MCLongOf
    IntOf <- MCIntOf
    Cpus = 2
    NoLimit = 7
    IdOrder <- MCIdOrder
    MaxClock = 2
    Sessions <- MCSessions
    SessionOf <- MCSessionOf
    Base <- MCBase
SPECIFICATION Spec
INVARIANTS
    SafetyNetUnreachable
    AcceptedStarts
    RetriesBackOff
    AcceptedEnds
    RoundTrip
    SettingsLayered
PROPERTIES
    LaunchOrder
