SPECIFICATION MCSpec
CONSTANTS
    EmptyBase = ""
    ByteValues = 2
    macLen = 1
    edLen = 2
    p256Len = 1
    p384Len = 3
    p256N = 2
    p384N = 5
    SigningKeys <- MCKeysWithNil
    VerifyingKeys <- MCVerifyingKeys
    Bases <- MCBases
    MaxIssued = 2
    KeyPairs <- MCKeyPairs
    Other = Other
    NoKey = NoKey
    None = None
CHECK_DEADLOCK FALSE
INVARIANTS NeverPanics
