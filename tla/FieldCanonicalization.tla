------------------------ MODULE FieldCanonicalization ------------------------
(***************************************************************************)
(* A header is built up character by character and line by line, the way a *)
(* sender or an intermediary may write it, and canonicalized at any point. *)
(* The scanning code of FieldValue is compared with a definition that      *)
(* looks at each position of the value on its own.                         *)
(***************************************************************************)
EXTENDS FieldValue

CONSTANTS Chars,     \* the characters that are neither blank nor newline
          MaxLength, \* bound: characters per field line
          MaxLines   \* bound: field lines

ASSUME FieldAssumption == /\ Chars \cap (Blank \cup Newline \cup {"invalid"}) = {}
                          /\ MaxLength \in Nat /\ MaxLines \in Nat \ {0}

VARIABLES lines,     \* the raw field lines
          canonical  \* the canonical value of the lines once it is computed

fvars == <<lines, canonical>>

FInit == lines = << <<>> >> /\ canonical = <<>>

AppendChar ==
    /\ Len(lines[Len(lines)]) < MaxLength
    /\ \E c \in Chars \cup Blank \cup Newline :
         lines' = [lines EXCEPT ![Len(lines)] = Append(@, c)]
    /\ canonical' = <<>>

AddLine ==
    /\ Len(lines) < MaxLines
    /\ lines' = Append(lines, <<>>)
    /\ canonical' = <<>>

Canonicalize ==
    /\ canonical' = canonicalizeFieldValues(lines)
    /\ UNCHANGED lines

FNext == AppendChar \/ AddLine \/ Canonicalize

FSpec == FInit /\ [][FNext]_fvars

-----------------------------------------------------------------------------
\* A newline that is not part of an obsolete fold: a CR that no LF follows, an
\* LF that no blank follows.
BareNewline(s) ==
    \E i \in 1..Len(s) :
      \/ s[i] = CR /\ (i = Len(s) \/ s[i + 1] # LF)
      \/ s[i] = LF /\ (i = Len(s) \/ s[i + 1] \notin Blank)

\* A blank that belongs to the fold before it.
InFold(s, i) ==
    /\ s[i] \in Blank
    /\ \E k \in 1..(i - 1) : s[k] = LF /\ \A m \in (k + 1)..i : s[m] \in Blank

\* What one position of a well-formed value contributes after unfolding.
UnfoldedAt(s, i) ==
    CASE s[i] = LF                      -> <<SP>>
      [] s[i] = CR \/ InFold(s, i)      -> <<>>
      [] OTHER                          -> <<s[i]>>

Unfolded(s) == FlattenSeq([i \in 1..Len(s) |-> UnfoldedAt(s, i)])

\* normalizeLineFolding (RFC 9421 2.1): the scan rejects exactly the values with
\* a newline outside a fold, and turns every fold into one space whatever its
\* length and neighbours.
ScanMatchesReference ==
    \A n \in 1..Len(lines) :
      normalizeLineFolding(lines[n]) =
        IF BareNewline(lines[n]) THEN Invalid ELSE Unfolded(lines[n])

\* extract.go: "Bare newlines in header values could allow signature base
\* injection attacks".  A field value that reaches the signature base holds no
\* newline, so that it stays on the line of its component.
NoLineBreakInBase ==
    \A i \in 1..Len(canonical) : canonical[i] \notin Newline

\* An intermediary may combine the lines of a field into one line, with the
\* comma and space of HTTP; the value that is signed does not change with it.
CombiningLinesKeepsValue ==
    LET once == canonicalizeFieldValues(lines)
        Visible(s) == \E i \in 1..Len(s) : s[i] \notin Blank \cup Newline
    IN  (\A n \in 1..Len(lines) : Visible(lines[n])) /\ once # Invalid
          => canonicalizeFieldValues(<<once>>) = once
=============================================================================
