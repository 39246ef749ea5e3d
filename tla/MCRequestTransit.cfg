SPECIFICATION MCSpec
CONSTANTS
    NoURL = NoURL
    NoRequest = NoRequest
    Absent = Absent
    CanonicalHeaderKey <- MCKey
    QueryUnescape <- MCUnescape
    IdentifierText <- MCWritten
    StructuredField <- MCStructured
    DictionaryMember <- MCMember
    Requests <- MCRequests
    Components <- MCComponents
    Chars = {"a"}
    MaxLength = 4
    MaxLines = 2
CHECK_DEADLOCK FALSE
INVARIANTS ScanMatchesReference NoLineBreakInBase CombiningLinesKeepsValue ComponentsSurvive TargetURIIsComplete
