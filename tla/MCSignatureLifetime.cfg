SPECIFICATION LSpec
CONSTANTS
    TicksPerSecond = 2
    NoInstant = NoInstant
    PolicySet <- MCPolicies
    SignerOptionSet <- MCSignerOptions
    MaxClock = 8
CONSTRAINT ClockBound
INVARIANTS AcceptedIsFresh RefusedForCause
PROPERTIES StaleForEver
