SPECIFICATION MCSpec
CONSTANTS
    Limits <- MCLimits
    MaxDigits = 2
    Alphabets <- MCAlphabets
    Vocabularies <- MCVocabularies
    Separators <- MCSeparators
CHECK_DEADLOCK FALSE
INVARIANTS StrictKeepsCanonical
