SPECIFICATION FairSpec
CONSTANTS
    Procs = {g1, g2, g3}
    NoProc = NoProc
    Ids <- MCIds
    EmptyID <- MCEmptyID
    Impls <- MCImpls
    NoAlg <- MCNoAlg
    Builtin <- MCBuiltin
INVARIANTS NoDataRace
PROPERTIES FirstRegistrationWins Refinement EveryCallReturns
ACTION_CONSTRAINT TellingCalls
