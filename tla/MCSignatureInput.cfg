SPECIFICATION MCSpec
CONSTANTS
    NoURL = NoURL
    NoRequest = NoRequest
    Absent = Absent
    CanonicalHeaderKey <- MCIdentity
    QueryUnescape <- MCText
    IdentifierText <- MCWritten
    StructuredField <- MCIdentity
    DictionaryMember <- MCPair
    Unreadable <- MCUnprintable
    BadKeys <- MCBadKeys
    MaxInteger = 10
    MaxComponents = 2
    MaxMembers = 2
    MaxParameters = 5
    sig1 = sig1
    sig2 = sig2
    notAKey = notAKey
    Labels <- MCLabels
    ComponentLists <- MCComponentLists
    ParamSets <- MCParamSets
    ForeignMembers <- MCForeignMembers
    PartyLabels <- MCPartyLabels
    Members <- MCMembers
    Values <- MCValues
    MaxSignings = 3
SYMMETRY LabelsSymmetry
CHECK_DEADLOCK FALSE
INVARIANTS RoundTrip SameParamsLine BothReadersAgree PairedTogether AllSignaturesRead
