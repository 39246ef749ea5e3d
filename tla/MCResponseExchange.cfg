SPECIFICATION RSpec
CONSTANTS
    NoURL = NoURL
    NoRequest = NoRequest
    NoOutcome = NoOutcome
    NoVerifier = NoVerifier
    Absent = Absent
    CanonicalHeaderKey <- MCKey
    QueryUnescape <- MCUnescape
    IdentifierText <- MCWritten
    StructuredField <- MCIdentity
    DictionaryMember <- MCPair
    Unreadable <- MCNone
    BadKeys <- MCNone
    MaxInteger = 10
    MaxComponents = 3
    MaxMembers = 2
    MaxParameters = 5
    Requests <- MCRequests
    Responses <- MCResponses
    Signers <- MCSigners
    ClientSigners <- MCClientSigners
    ServerSigners <- MCServerSigners
    ClientOptions <- MCClientOptions
    ServerOptions <- MCServerOptions
    Names = {n1, n2, n3}
SYMMETRY NamesSymmetry
CONSTRAINT Relevant
INVARIANTS NoReflection AnswersMyRequest RequiredWereSigned OwnResponseVerifies RequestReachedServer
