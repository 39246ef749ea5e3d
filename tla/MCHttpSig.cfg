SPECIFICATION Spec
CONSTANTS
    NoURL = NoURL
    NoRequest = NoRequest
    Absent = Absent
    CanonicalHeaderKey <- MCKey
    QueryUnescape <- MCText
    IdentifierText <- MCWritten
    StructuredField <- MCIdentity
    DictionaryMember <- MCPair
    Unreadable <- MCNone
    BadKeys <- MCNone
    MaxInteger = 10
    MaxComponents = 3
    MaxMembers = 2
    MaxParameters = 5
    TicksPerSecond = 2
    NoInstant = NoInstant
    Messages <- MCMessages
    Slices <- MCSlices
    SignerOptions <- MCSignerOptions
    VerifyOptions <- MCVerifyOptions
    KeyRings <- MCKeyRings
    ForeignInputs <- MCForeignInputs
    Builtin <- MCBuiltin
    Custom <- MCCustom
    NoKey = "nokey"
    Calls <- MCCalls
    MaxClock = 2
    MaxSigners = 2
    MaxSignatures = 2
CONSTRAINT Relevant
ACTION_CONSTRAINT RelevantStep
INVARIANTS Authentic CoveredUnchanged AlgorithmAgreement ParametersAreSigned SignerIsYoung Complete
