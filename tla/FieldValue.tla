----------------------------- MODULE FieldValue -----------------------------
(***************************************************************************)
(* Canonicalization of HTTP field values (pkg/base/extract.go).  A raw     *)
(* value is a sequence of characters; the ones the code tells apart are    *)
(* space, tab, CR, LF and everything else.                                 *)
(***************************************************************************)
EXTENDS Naturals, Sequences, SequencesExt

SP == " "
HT == "HT"
CR == "CR"
LF == "LF"
Blank   == {SP, HT}
Newline == {CR, LF}

\* The error result; "invalid" is no character, so no value equals it.
Invalid == <<"invalid">>

\* The first index from j on that holds no blank.
SkipBlanks(s, j) ==
    CHOOSE k \in j..(Len(s) + 1) :
        /\ \A m \in j..(k - 1) : s[m] \in Blank
        /\ k <= Len(s) => s[k] \notin Blank

\* Mutant: the fold ends after one blank.
skipOneBlank(s, i) ==
    LET j == IF s[i] = CR THEN i + 2 ELSE i + 1
    IN  IF (s[i] = CR /\ (i + 1 > Len(s) \/ s[i + 1] # LF)) \/ j > Len(s) \/ s[j] \notin Blank
        THEN 0 ELSE j + 1

\* Consumes the newline at i and the blanks that make it a fold; the index
\* after them, 0 for a newline that folds nothing or a CR without LF.
skipObsFold(s, i) ==
    LET bareCR == s[i] = CR /\ (i + 1 > Len(s) \/ s[i + 1] # LF)
        j      == IF s[i] = CR THEN i + 2 ELSE i + 1
    IN  IF bareCR \/ j > Len(s) \/ s[j] \notin Blank THEN 0 ELSE SkipBlanks(s, j)

Prepend(c, s) == IF s = Invalid THEN Invalid ELSE <<c>> \o s

\* Mutant: a newline that folds nothing is copied.
normalizeKeepingBare(s) ==
    LET scan[i \in 1..(Len(s) + 1)] ==
          IF i > Len(s) THEN <<>>
          ELSE IF s[i] \notin Newline \/ skipObsFold(s, i) = 0
          THEN Prepend(s[i], scan[i + 1])
          ELSE Prepend(SP, scan[skipObsFold(s, i)])
    IN  scan[1]

normalizeLineFolding(s) ==
    LET scan[i \in 1..(Len(s) + 1)] ==
          IF i > Len(s) THEN <<>>
          ELSE IF s[i] \notin Newline THEN Prepend(s[i], scan[i + 1])
          ELSE LET next == skipObsFold(s, i)
               IN  IF next = 0 THEN Invalid ELSE Prepend(SP, scan[next])
    IN  scan[1]

\* strings.TrimSpace on a value that has no newline left.
TrimSpace(s) ==
    LET solid == {i \in 1..Len(s) : s[i] \notin Blank}
    IN  IF solid = {} THEN <<>>
        ELSE SubSeq(s, CHOOSE i \in solid : \A j \in solid : i <= j,
                       CHOOSE i \in solid : \A j \in solid : i >= j)

\* strings.Join(values, ", ")
JoinComma(values) ==
    LET joined[n \in 0..Len(values)] ==
          IF n = 0 THEN <<>>
          ELSE joined[n - 1] \o (IF n = 1 THEN <<>> ELSE <<",", SP>>) \o values[n]
    IN  joined[Len(values)]

\* Mutant: values are trimmed before they are unfolded.
canonicalizeTrimFirst(values) ==
    LET normalized == [i \in 1..Len(values) |-> normalizeLineFolding(TrimSpace(values[i]))]
    IN  IF \E i \in 1..Len(values) : normalized[i] = Invalid
        THEN Invalid ELSE JoinComma(normalized)

canonicalizeFieldValues(values) ==
    LET normalized == [i \in 1..Len(values) |-> normalizeLineFolding(values[i])]
    IN  IF \E i \in 1..Len(values) : normalized[i] = Invalid
        THEN Invalid
        ELSE JoinComma([i \in 1..Len(values) |-> TrimSpace(normalized[i])])
=============================================================================
