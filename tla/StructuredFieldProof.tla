------------------------ MODULE StructuredFieldProof ------------------------
(***************************************************************************)
(* What pkg/sfv reads, and reads again of what it writes, for texts of any *)
(* length and with any limits.                                             *)
(*                                                                         *)
(* The grammar is stated as relations between a text and two of its        *)
(* offsets: BareAt(s, i, v, j, Ch) says that the text s of characters Ch   *)
(* has between i and j a spelling of the bare item v, and ParamAt, ItemAt, *)
(* ListAt, MemberAt, EntryAt the same of what is built from bare items.    *)
(* For each there are two lemmas: what the parser returns is there         *)
(* (...Returns), and what is there is returned if it keeps to the limits   *)
(* and refused if not (...IsRead).  A loop of the parser is followed along *)
(* the offsets it passes (Passes, RoundsAlong, RoundsRead), so no fact     *)
(* depends on how a text could be read otherwise.                          *)
(*                                                                         *)
(* The serializer has one lemma for each production: where a text has what *)
(* is written for a value, the grammar has the value there (...Written).   *)
(***************************************************************************)
EXTENDS StructuredFieldText, StructuredFieldPeer, SignatureBaseProof

-----------------------------------------------------------------------------
(* Characters.                                                             *)

Letters == {"A","B","C","D","E","F","G","H","I","J","K","L","M","N","O","P","Q","R","S","T","U",
            "V","W","X","Y","Z","a","b","c","d","e","f","g","h","i","j","k","l","m","n","o","p",
            "q","r","s","t","u","v","w","x","y","z"}
Figures == {"0","1","2","3","4","5","6","7","8","9"}

LEMMA AlphabetAt ==
    /\ Len(Base64Alphabet) = 64
    /\ \A i \in 1..52 : Base64Alphabet[i] \in Letters
    /\ \A i \in 53..62 : Base64Alphabet[i] \in Figures
    /\ Base64Alphabet[63] = "+" /\ Base64Alphabet[64] = "/"
  <1>1. ASSUME NEW i \in 1..52 PROVE Base64Alphabet[i] \in Letters
    BY SMTT(60) DEF Base64Alphabet, Letters
  <1>2. ASSUME NEW i \in 53..62 PROVE Base64Alphabet[i] \in Figures
    BY SMTT(60) DEF Base64Alphabet, Figures
  <1>3. Len(Base64Alphabet) = 64
    BY DEF Base64Alphabet
  <1>4. Base64Alphabet[63] = "+"
    BY DEF Base64Alphabet
  <1>5. Base64Alphabet[64] = "/"
    BY DEF Base64Alphabet
  <1> QED
    BY <1>1, <1>2, <1>3, <1>4, <1>5

\* A delimiter is neither a letter nor a digit.
LEMMA Delimiters ==
    ASSUME NEW c \in {Quote, Escape, Comma, Semicolon, SP, HT, CR, LF, Ctl, "EOF", "?", "-", "_",
                      ".", ":", "%", "*", "=", "(", ")", "+", "/"}
    PROVE  c \notin Letters \cup Figures
  BY Zenon DEF Letters, Figures, Quote, Escape, Comma, Semicolon, SP, HT, CR, LF, Ctl

Starters == {"?", "-", Quote, ":", "*"} \cup isDigit \cup isAlpha

\* The text that follows an item or its parameters belongs to neither.
Stop(c) == c \notin isTokenChar \cup {Semicolon, "="}

\* The characters of a text.
LEMMA CharactersOf ==
    ASSUME NEW S, NEW s \in Seq(S)
    PROVE  /\ ToSet(s) \subseteq S
           /\ \A c \in ToSet(s) : \E i \in 1..Len(s) : c = s[i]
           /\ \A i \in 1..Len(s) : s[i] \in ToSet(s)
  <1>1. DOMAIN s = 1..Len(s) /\ \A i \in 1..Len(s) : s[i] \in S
    OBVIOUS
  <1> QED
    BY <1>1 DEF ToSet

LEMMA AlphabetIsSeq ==
    Base64Alphabet \in Seq(Letters \cup Figures \cup {"+", "/"}) /\ Len(Base64Alphabet) = 64
  <1> DEFINE A == Base64Alphabet
  <1>1. \A i \in 1..64 : A[i] \in Letters \cup Figures \cup {"+", "/"}
    BY AlphabetAt
  <1>2. A = [i \in 1..64 |-> A[i]]
    BY SMTT(60) DEF Base64Alphabet
  <1> HIDE DEF A
  <1>3. A \in Seq(Letters \cup Figures \cup {"+", "/"})
    BY ONLY <1>1, <1>2
  <1> QED
    BY <1>3, AlphabetAt DEF A

LEMMA AlphabetClasses ==
    /\ isAlpha \subseteq Letters /\ isDigit \subseteq Figures
    /\ ToSet(Base64Alphabet) \subseteq Letters \cup Figures \cup {"+", "/"}
    /\ isAlpha \subseteq ToSet(Base64Alphabet) /\ isDigit \subseteq ToSet(Base64Alphabet)
  <1> DEFINE A == Base64Alphabet
  <1>1. A \in Seq(Letters \cup Figures \cup {"+", "/"}) /\ Len(A) = 64
    BY AlphabetIsSeq
  <1>2. Len(A) = 64
    BY <1>1
  <1> HIDE DEF A
  <1>3. ASSUME NEW c \in ToSet(A)
        PROVE  c \in Letters \cup Figures \cup {"+", "/"}
    BY <1>1, <1>3, CharactersOf
  <1>4. ASSUME NEW c \in ToSet(SubSeq(A, 1, 52)) PROVE c \in Letters /\ c \in ToSet(A)
    <2>1. PICK i \in 1..52 : c = A[i]
      BY <1>1, <1>2, <1>4 DEF ToSet
    <2>2. A[i] \in Letters
      BY AlphabetAt, <2>1 DEF A
    <2>3. i \in 1..64 /\ DOMAIN A = 1..64
      BY <1>1, <1>2
    <2> QED
      BY <2>1, <2>2, <2>3 DEF ToSet
  <1>5. ASSUME NEW c \in ToSet(SubSeq(A, 53, 62)) PROVE c \in Figures /\ c \in ToSet(A)
    <2>1. PICK i \in 53..62 : c = A[i]
      <3> DEFINE B == SubSeq(A, 53, 62)
      <3>1. DOMAIN B = 1..10 /\ \A i \in 1..10 : B[i] = A[52 + i]
        BY <1>1, <1>2
      <3>2. PICK i \in 1..10 : c = B[i]
        <4> HIDE DEF B
        <4>1. c \in ToSet(B)
          BY <1>5 DEF B
        <4> QED
          BY <3>1, <4>1 DEF ToSet
      <3>3. 52 + i \in 53..62
        OBVIOUS
      <3> QED
        BY <3>1, <3>2, <3>3
    <2>2. A[i] \in Figures
      BY AlphabetAt, <2>1 DEF A
    <2>3. i \in 1..64 /\ DOMAIN A = 1..64
      BY <1>1, <1>2
    <2> QED
      BY <2>1, <2>2, <2>3 DEF ToSet
  <1> QED
    BY <1>3, <1>4, <1>5 DEF isAlpha, isDigit, A

LEMMA LettersAndFigures == Letters \cap Figures = {}
  BY ZenonT(60) DEF Letters, Figures

LEMMA DelimitersDiffer ==
    /\ "?" \notin {"-", Quote, ":", "*", "=", SP, HT, "(", ")", Comma, Semicolon, "EOF"}
    /\ "-" \notin {Quote, ":", "*", "=", SP, HT, "(", ")", Comma, Semicolon, "EOF"}
    /\ ":" \notin {Quote, "*", "=", SP, HT, "(", ")", Comma, Semicolon, "EOF", "+", "/"}
    /\ "*" \notin {Quote, "=", SP, HT, "(", ")", Comma, Semicolon, "EOF"}
    /\ Quote \notin {"=", SP, HT, "(", ")", Comma, Semicolon, "EOF", Escape, Ctl, CR, LF}
    /\ Escape \notin {"EOF", SP, HT, Ctl, CR, LF}
    /\ "=" \notin {SP, HT, "(", ")", Comma, Semicolon, "EOF", "+", "/"}
    /\ "(" \notin {SP, HT, Comma, Semicolon, "EOF", ")"}
    /\ ")" \notin {SP, HT, Comma, Semicolon, "EOF"}
    /\ Comma \notin {SP, HT, Semicolon, "EOF", CR, LF}
    /\ Semicolon \notin {SP, HT, "EOF"}
    /\ SP \notin {HT, "EOF", CR, LF} /\ HT \notin {"EOF", CR, LF} /\ "EOF" \notin {"+", "/"}
    /\ "0" # "1"
  BY Zenon DEF Quote, Escape, Comma, Semicolon, SP, HT, CR, LF, Ctl

Marks == {"_", "-", ".", ":", "%", "*", "/"}

\* The characters that end a token.
Ends == {Quote, Escape, Comma, Semicolon, SP, HT, CR, LF, Ctl, "EOF", "?", "=", "(", ")", "+"}

LEMMA MarksAndEnds == Marks \cap Ends = {}
  BY Zenon DEF Quote, Escape, Comma, Semicolon, SP, HT, CR, LF, Ctl, Marks, Ends

LEMMA TokenClasses ==
    /\ isDigit \subseteq isTokenChar /\ isAlpha \subseteq isTokenChar
    /\ isTokenChar \cap Ends = {} /\ isDigit \cap isAlpha = {}
    /\ \A c \in isTokenChar : c \in isAlpha \cup isDigit \cup Marks
  <1>1. isTokenChar = isAlpha \cup isDigit \cup Marks
    BY Zenon DEF isTokenChar, Marks
  <1>2. \A c \in Ends : c \notin Letters \cup Figures
    BY Delimiters, Zenon DEF Ends
  <1> QED
    BY <1>1, <1>2, AlphabetClasses, LettersAndFigures, MarksAndEnds

LEMMA StarterClasses ==
    /\ {"?", "-", Quote, ":", "*"} \cap (isDigit \cup isAlpha) = {}
    /\ Starters \cap {SP, HT, "(", ")", Comma, Semicolon, "=", "EOF"} = {}
  <1>1. \A c \in {"?", "-", Quote, ":", "*"} :
          /\ c \notin Letters \cup Figures
          /\ c \notin {SP, HT, "(", ")", Comma, Semicolon, "=", "EOF"}
    BY Delimiters, DelimitersDiffer, Zenon
  <1>2. \A c \in {SP, HT, "(", ")", Comma, Semicolon, "=", "EOF"} : c \notin Letters \cup Figures
    BY Delimiters, Zenon
  <1> QED
    BY <1>1, <1>2, AlphabetClasses, Zenon DEF Starters

LEMMA Base64Classes ==
    /\ ":" \notin isBase64Char /\ "EOF" \notin isBase64Char /\ "=" \notin ToSet(Base64Alphabet)
    /\ ToSet(Base64Alphabet) \subseteq isBase64Char /\ "=" \in isBase64Char
  <1>1. \A c \in {":", "EOF", "="} : c \notin Letters \cup Figures \cup {"+", "/"}
    BY Delimiters, DelimitersDiffer, Zenon
  <1>2. ":" # "=" /\ "EOF" # "="
    OBVIOUS
  <1>3. ":" \notin ToSet(Base64Alphabet) /\ "EOF" \notin ToSet(Base64Alphabet)
        /\ "=" \notin ToSet(Base64Alphabet)
    BY <1>1, AlphabetClasses
  <1> QED
    BY <1>2, <1>3 DEF isBase64Char

LEMMA Stopping == \A c \in {Comma, "EOF", SP, HT, ")"} : Stop(c)
  <1>1. \A c \in {Comma, "EOF", SP, HT, ")"} : c \in Ends /\ c \notin {Semicolon, "="}
    BY DelimitersDiffer, Zenon DEF Ends
  <1> QED
    BY <1>1, TokenClasses DEF Stop

LEMMA Digits == \A i \in 1..10 : Base64Alphabet[52 + i] \in isDigit
  <1> DEFINE A == Base64Alphabet
  <1>1. A \in Seq(Letters \cup Figures \cup {"+", "/"}) /\ Len(A) = 64
    BY AlphabetIsSeq
  <1> HIDE DEF A
  <1>2. ASSUME NEW i \in 1..10 PROVE A[52 + i] \in ToSet(SubSeq(A, 53, 62))
    <2> DEFINE B == SubSeq(A, 53, 62)
    <2>1. DOMAIN B = 1..10 /\ B[i] = A[52 + i]
      BY <1>1
    <2> HIDE DEF B
    <2>2. A[52 + i] \in ToSet(B)
      BY <2>1 DEF ToSet
    <2> QED
      BY <2>2 DEF B
  <1> QED
    BY <1>2 DEF isDigit, A

\* The number of a character, and the character of a number.
LEMMA Codes ==
    /\ \A c \in ToSet(Base64Alphabet) : Code[c] \in 0..63 /\ Base64Alphabet[Code[c] + 1] = c
    /\ \A n \in 0..63 : /\ Base64Alphabet[n + 1] \in ToSet(Base64Alphabet)
                          /\ Code[Base64Alphabet[n + 1]] = n
    /\ \A c \in isDigit : Code[c] - 52 \in 0..9
  <1> DEFINE A == Base64Alphabet
             C == Code
  <1>1. A \in Seq(Letters \cup Figures \cup {"+", "/"}) /\ Len(A) = 64
    BY AlphabetIsSeq
  <1>2. ASSUME NEW i \in 1..64, NEW j \in 1..64, A[i] = A[j] PROVE i = j
    BY <1>2, SMTT(60) DEF Base64Alphabet
  <1>3. C = [c \in ToSet(A) |-> CHOOSE n \in 0..63 : A[n + 1] = c]
    BY DEF Code
  <1> HIDE DEF A, C
  <1>7. /\ \A c \in ToSet(A) : \E i \in 1..64 : c = A[i]
        /\ \A i \in 1..64 : A[i] \in ToSet(A)
    <2>1. PICK S : A \in Seq(S)
      BY <1>1
    <2>2. /\ \A c \in ToSet(A) : \E i \in 1..Len(A) : c = A[i]
          /\ \A i \in 1..Len(A) : A[i] \in ToSet(A)
      BY ONLY <2>1, CharactersOf
    <2> QED
      BY <1>1, <2>2
  <1>4. ASSUME NEW c \in ToSet(A) PROVE C[c] \in 0..63 /\ A[C[c] + 1] = c
    <2>1. C[c] = CHOOSE n \in 0..63 : A[n + 1] = c
      BY <1>3
    <2>2. PICK i \in 1..64 : c = A[i]
      BY <1>7
    <2>3. i - 1 \in 0..63 /\ A[(i - 1) + 1] = c
      BY <2>2
    <2> QED
      BY <2>1, <2>3
  <1>5. ASSUME NEW n \in 0..63 PROVE A[n + 1] \in ToSet(A) /\ C[A[n + 1]] = n
    <2>1. n + 1 \in 1..64 /\ A[n + 1] \in ToSet(A)
      BY <1>7
    <2>2. C[A[n + 1]] \in 0..63 /\ A[C[A[n + 1]] + 1] = A[n + 1]
      BY <1>4, <2>1
    <2>3. C[A[n + 1]] + 1 \in 1..64
      BY <2>2
    <2>4. C[A[n + 1]] + 1 = n + 1
      BY <1>2, <2>1, <2>2, <2>3
    <2> QED
      BY <2>1, <2>2, <2>4
  <1>6. ASSUME NEW c \in isDigit PROVE C[c] - 52 \in 0..9
    <2>1. PICK i \in 53..62 : c = A[i]
      <3> DEFINE B == SubSeq(A, 53, 62)
      <3>1. DOMAIN B = 1..10 /\ \A i \in 1..10 : B[i] = A[52 + i]
        BY <1>1
      <3>2. PICK i \in 1..10 : c = B[i]
        <4> HIDE DEF B
        <4>1. c \in ToSet(B)
          BY <1>6 DEF B, isDigit, A
        <4> QED
          BY <3>1, <4>1 DEF ToSet
      <3>3. 52 + i \in 53..62
        OBVIOUS
      <3> QED
        BY <3>1, <3>2, <3>3
    <2>2. i - 1 \in 0..63 /\ (i - 1) + 1 = i
      OBVIOUS
    <2>3. C[A[i]] = i - 1
      BY <1>5, <2>2
    <2> QED
      BY <2>1, <2>3
  <1> QED
    BY <1>4, <1>5, <1>6 DEF A, C

\* What a reading function returns at offset k: Fail, or a value and an offset
\* after k.
IsRead(r, k, s) == r = Fail \/ (r = Got(r.val, r.at) /\ r.at \in (k + 1)..(Len(s) + 1))

\* Every pass of a loop reads on.
Advances(s, more, round) == \A k \in Offsets(s) : k \in more => IsRead(round[k], k, s)

\* A result and its parts.
LEMMA Results ==
    /\ \A v, i : /\ Got(v, i).ok /\ Got(v, i).val = v /\ Got(v, i).at = i
                 /\ Got(v, i) # Fail
    /\ ~Fail.ok
    /\ \A v, i, w, j : Got(v, i) = Got(w, j) => v = w /\ i = j
  <1>1. \A v, i : Got(v, i).ok /\ Got(v, i).val = v /\ Got(v, i).at = i
    BY DEF Got
  <1>2. ~Fail.ok
    BY DEF Fail
  <1>3. \A v, i : Got(v, i) # Fail
    BY ONLY <1>1, <1>2
  <1>4. \A v, i, w, j : Got(v, i) = Got(w, j) => v = w /\ i = j
    BY ONLY <1>1
  <1> QED
    BY <1>1, <1>2, <1>3, <1>4

\* The loop at offset k, with f[j] what it reads from j on.
RoundAt(s, k, more, round, f) ==
    IF k \notin more THEN Got(<<>>, k)
    ELSE Then(round[k], LAMBDA x, next :
           Then(f[next], LAMBDA xs, end : Got(<<x>> \o xs, end)))

Loops(f, s, more, round) == \A k \in Offsets(s) : f[k] = RoundAt(s, k, more, round, f)

LEMMA LoopLooksAhead ==
    ASSUME NEW s, Len(s) \in Nat, NEW more, NEW round, Advances(s, more, round),
           NEW k \in Offsets(s), NEW f, NEW g,
           \A j \in (k + 1)..(Len(s) + 1) : f[j] = g[j]
    PROVE  RoundAt(s, k, more, round, f) = RoundAt(s, k, more, round, g)
  <1>1. CASE k \notin more
    BY <1>1 DEF RoundAt
  <1>2. CASE k \in more /\ round[k] = Fail
    BY <1>2, Results DEF RoundAt, Then
  <1>3. CASE k \in more /\ round[k] # Fail
    <2>1. round[k].at \in (k + 1)..(Len(s) + 1)
      BY <1>3 DEF Advances, IsRead
    <2>2. f[round[k].at] = g[round[k].at]
      BY <2>1
    <2> QED
      BY <1>3, <2>2 DEF RoundAt, Then
  <1> QED
    BY <1>1, <1>2, <1>3

LEMMA RoundsSteps ==
    ASSUME NEW s, Len(s) \in Nat, NEW more, NEW round, Advances(s, more, round)
    PROVE  \E f : /\ Loops(f, s, more, round)
                  /\ \A i : Rounds(s, i, more, round) = f[i]
  <1> DEFINE N       == Len(s) + 1
             F(f, m) == [k \in m..N |-> RoundAt(s, k, more, round, f)]
             rest    == CHOOSE f : f = F(f, 1)
             good    == {m \in 1..N : \E f : f = F(f, m)}
  <1>1. \A i : Rounds(s, i, more, round) = rest[i]
    <2>1. ASSUME NEW i PROVE Rounds(s, i, more, round) =
            (CHOOSE f : f = [k \in 1..(Len(s) + 1) |-> RoundAt(s, k, more, round, f)])[i]
      BY DEF Rounds, RoundAt, Offsets
    <2> QED
      BY <2>1
  <1>2. N \in good
    <2>1. PICK x : x = RoundAt(s, N, more, round, s)
      OBVIOUS
    <2> DEFINE g == [k \in N..N |-> x]
    <2>2. \A f : RoundAt(s, N, more, round, f) = x
      <3>1. \A f : \A j \in (N + 1)..(Len(s) + 1) : f[j] = s[j]
        OBVIOUS
      <3>2. N \in Offsets(s)
        BY DEF Offsets
      <3> HIDE DEF N
      <3>3. ASSUME NEW f PROVE RoundAt(s, N, more, round, f) = RoundAt(s, N, more, round, s)
        BY <3>1, <3>2, LoopLooksAhead
      <3> QED
        BY <3>3, <2>1
    <2>3. g = F(g, N)
      <3> HIDE DEF g
      <3>1. g = [k \in N..N |-> x]
        BY DEF g
      <3>2. \A k \in N..N : k = N
        OBVIOUS
      <3> HIDE DEF N
      <3> QED
        BY <2>2, <3>1, <3>2
    <2>4. N \in 1..N
      OBVIOUS
    <2> HIDE DEF g, F, N
    <2> QED
      BY <2>3, <2>4
  <1>3. ASSUME NEW m \in good, m # 1 PROVE m - 1 \in good
    <2>1. m \in 2..N
      BY <1>3
    <2>2. PICK f : f = F(f, m)
      BY <1>3
    <2> DEFINE x == RoundAt(s, m - 1, more, round, f)
               g == [k \in (m - 1)..N |-> IF k = m - 1 THEN x ELSE f[k]]
    <2>3. \A k \in m..N : f[k] = RoundAt(s, k, more, round, f)
      BY <2>2
    <2>4. g[m - 1] = x /\ \A k \in m..N : g[k] = f[k]
      <3> HIDE DEF x
      <3> QED
        BY <2>1
    <2>5. g = [k \in (m - 1)..N |-> g[k]]
      <3> HIDE DEF x
      <3> QED
        OBVIOUS
    <2> HIDE DEF g
    <2>6. \A k \in (m - 1)..N : g[k] = RoundAt(s, k, more, round, f)
      BY <2>1, <2>3, <2>4
    <2>7. ASSUME NEW k \in (m - 1)..N
          PROVE  RoundAt(s, k, more, round, f) = RoundAt(s, k, more, round, g)
      <3>1. k \in Offsets(s) /\ \A j \in (k + 1)..(Len(s) + 1) : f[j] = g[j]
        BY <2>1, <2>4 DEF Offsets
      <3> QED
        BY <3>1, LoopLooksAhead
    <2>8. g = F(g, m - 1)
      BY <2>5, <2>6, <2>7
    <2> HIDE DEF F
    <2> QED
      BY <2>1, <2>8
  <1>4. 1 \in good
    <2>1. good \subseteq 1..N /\ N \in Nat
      OBVIOUS
    <2> HIDE DEF good
    <2>2. PICK m \in good : \A k \in good : m <= k
      BY <1>2, <2>1, FirstPosition
    <2> QED
      BY <1>3, <2>1, <2>2
  <1>5. rest = F(rest, 1)
    <2>1. \E f : f = F(f, 1)
      BY <1>4
    <2> HIDE DEF F
    <2> QED
      BY <2>1
  <1> HIDE DEF rest
  <1>6. Loops(rest, s, more, round)
    BY <1>5 DEF Loops, Offsets
  <1> QED
    BY <1>1, <1>6

\* The offsets at[0], at[1], ... a loop passes while it reads the values xs.
Passes(s, more, round, at, xs) ==
    \A k \in 1..Len(xs) : /\ at[k - 1] \in Offsets(s) /\ at[k - 1] \in more
                          /\ round[at[k - 1]] = Got(xs[k], at[k])

\* A loop that passes them reads the values, and ends or fails where they end.
LEMMA RoundsAlong ==
    ASSUME NEW s, Len(s) \in Nat, NEW more, NEW round, Advances(s, more, round),
           NEW S, NEW xs \in Seq(S), NEW at, Passes(s, more, round, at, xs),
           at[Len(xs)] \in Offsets(s)
    PROVE  /\ at[Len(xs)] \notin more =>
                Rounds(s, at[0], more, round) = Got(xs, at[Len(xs)])
           /\ at[Len(xs)] \in more /\ round[at[Len(xs)]] = Fail =>
                Rounds(s, at[0], more, round) = Fail
  <1> DEFINE n == Len(xs)
             R(k) == IF at[n] \notin more THEN Got(SubSeq(xs, k + 1, n), at[n]) ELSE Fail
  <1>1. PICK f : Loops(f, s, more, round) /\ \A i : Rounds(s, i, more, round) = f[i]
    BY RoundsSteps
  <1> DEFINE Good(k) == f[at[k - 1]] = R(k - 1)
             wrong   == {k \in 1..(n + 1) : ~Good(k)}
  <1>2. n \in Nat
    OBVIOUS
  <1>3. ASSUME at[n] \in more => round[at[n]] = Fail PROVE wrong = {}
    <2>1. Good(n + 1)
      <3>1. f[at[n]] = RoundAt(s, at[n], more, round, f)
        BY <1>1 DEF Loops
      <3>2. (n + 1) - 1 = n /\ SubSeq(xs, n + 1, n) = <<>>
        OBVIOUS
      <3> HIDE DEF n
      <3>3. f[at[n]] = R(n)
        BY <1>3, <3>1, <3>2, Results DEF RoundAt, Then
      <3> QED
        BY <3>2, <3>3
    <2>2. ASSUME NEW k \in 1..n, Good(k + 1) PROVE Good(k)
      <3>1. /\ at[k - 1] \in Offsets(s) /\ at[k - 1] \in more
            /\ round[at[k - 1]] = Got(xs[k], at[k])
        BY DEF Passes
      <3>2. f[at[k - 1]] = RoundAt(s, at[k - 1], more, round, f)
        BY <1>1, <3>1 DEF Loops
      <3>3. (k + 1) - 1 = k /\ (k - 1) + 1 = k
        BY <1>2
      <3>4. f[at[k]] = R(k)
        BY <2>2, <3>3
      <3>5. f[at[k - 1]] = Then(f[at[k]], LAMBDA ys, end : Got(<<xs[k]>> \o ys, end))
        BY <3>1, <3>2, Results DEF RoundAt, Then
      <3>6. <<xs[k]>> \o SubSeq(xs, k + 1, n) = SubSeq(xs, k, n)
        <4> DEFINE a == <<xs[k]>>
                   b == SubSeq(xs, k + 1, n)
                   c == SubSeq(xs, k, n)
        <4>1. /\ a \in Seq(S) /\ Len(a) = 1 /\ a[1] = xs[k]
              /\ b \in Seq(S) /\ Len(b) = n - k /\ \A i \in 1..(n - k) : b[i] = xs[k + i]
              /\ c \in Seq(S) /\ Len(c) = n - k + 1 /\ c[1] = xs[k]
              /\ \A i \in 1..(n - k) : c[1 + i] = xs[k + i]
          <5>1. a \in Seq(S) /\ Len(a) = 1 /\ a[1] = xs[k]
            OBVIOUS
          <5>2. b \in Seq(S) /\ Len(b) = n - k /\ \A i \in 1..(n - k) : b[i] = xs[k + i]
            OBVIOUS
          <5>3. c \in Seq(S) /\ Len(c) = n - k + 1 /\ c[1] = xs[k]
            OBVIOUS
          <5>4. \A i \in 1..(n - k) : c[1 + i] = xs[k + i]
            OBVIOUS
          <5> HIDE DEF a, b, c, n
          <5> QED
            BY <5>1, <5>2, <5>3, <5>4
        <4> HIDE DEF a, b, c, n
        <4>2. /\ Len(c) = Len(a) + Len(b) /\ \A i \in 1..Len(a) : c[i] = a[i]
              /\ \A i \in 1..Len(b) : c[Len(a) + i] = b[i]
          BY <1>2, <4>1
        <4>3. a \in Seq(S) /\ b \in Seq(S) /\ c \in Seq(S)
          BY <4>1
        <4>4. a \o b = c
          BY ONLY <4>2, <4>3, Concatenation
        <4> QED
          BY <4>4 DEF a, b, c
      <3> HIDE DEF n
      <3>7. f[at[k - 1]] = R(k - 1)
        <4>1. CASE at[n] \notin more
          <5>1. f[at[k]] = Got(SubSeq(xs, k + 1, n), at[n])
            BY <3>4, <4>1
          <5> DEFINE ys == SubSeq(xs, k + 1, n)
          <5>2. f[at[k]] = Got(ys, at[n])
            BY <5>1
          <5> HIDE DEF ys
          <5>3. f[at[k - 1]] = Got(<<xs[k]>> \o ys, at[n])
            BY <3>5, <5>2, Results DEF Then
          <5>4. f[at[k - 1]] = Got(SubSeq(xs, k, n), at[n])
            BY <3>6, <5>3 DEF ys
          <5> QED
            BY <3>3, <4>1, <5>4
        <4>2. CASE at[n] \in more
          <5>1. f[at[k]] = Fail
            BY <3>4, <4>2
          <5> QED
            BY <3>5, <4>2, <5>1, Results DEF Then
        <4> QED
          BY <4>1, <4>2
      <3> QED
        BY <3>7
    <2> SUFFICES ASSUME wrong # {} PROVE FALSE
      OBVIOUS
    <2>3. wrong \subseteq 1..(n + 1) /\ n + 1 \in Nat
      BY <1>2
    <2>4. \A k \in 1..(n + 1) : k \in wrong \/ Good(k)
      OBVIOUS
    <2>5. \A k \in wrong : ~Good(k)
      OBVIOUS
    <2> HIDE DEF wrong, Good, n
    <2>6. PICK k \in wrong : \A j \in wrong : j <= k
      BY <2>3, LastPosition
    <2>7. k # n + 1 => k \in 1..n /\ k + 1 \in 1..(n + 1) /\ k + 1 \notin wrong
      BY <1>2, <2>3, <2>6
    <2> QED
      BY <2>1, <2>2, <2>4, <2>5, <2>6, <2>7
  <1>4. ASSUME at[n] \in more => round[at[n]] = Fail PROVE f[at[0]] = R(0)
    <2>1. Good(1)
      <3>1. 1 \in 1..(n + 1)
        BY <1>2
      <3> QED
        BY <1>3, <1>4, <3>1
    <2>2. 1 - 1 = 0
      OBVIOUS
    <2> HIDE DEF R
    <2> QED
      BY <2>1, <2>2
  <1>5. SubSeq(xs, 0 + 1, n) = xs
    OBVIOUS
  <1> HIDE DEF n
  <1>6. CASE at[n] \notin more
    BY <1>1, <1>4, <1>5, <1>6 DEF n
  <1>7. CASE at[n] \in more
    BY <1>1, <1>4, <1>7 DEF n
  <1> QED
    BY <1>6, <1>7

Readings(s, round) == {round[k].val : k \in Offsets(s)}

\* What a loop returns it has read on such a way.
LEMMA RoundsRead ==
    ASSUME NEW s, Len(s) \in Nat, NEW more, NEW round, Advances(s, more, round),
           NEW i \in Offsets(s)
    PROVE  \/ Rounds(s, i, more, round) = Fail
           \/ \E at, xs : /\ xs \in Seq(Readings(s, round)) /\ at[0] = i
                          /\ Passes(s, more, round, at, xs)
                          /\ at[Len(xs)] \in i..(Len(s) + 1) /\ at[Len(xs)] \notin more
                          /\ Rounds(s, i, more, round) = Got(xs, at[Len(xs)])
  <1>1. PICK f : Loops(f, s, more, round) /\ \A j : Rounds(s, j, more, round) = f[j]
    BY RoundsSteps
  <1> DEFINE S == Readings(s, round)
             N == Len(s) + 1
             Way(k, at, xs) == /\ xs \in Seq(S) /\ at[0] = k
                               /\ Passes(s, more, round, at, xs)
                               /\ at[Len(xs)] \in k..N /\ at[Len(xs)] \notin more
                               /\ f[k] = Got(xs, at[Len(xs)])
             Good(k) == f[k] = Fail \/ \E at, xs : Way(k, at, xs)
             wrong   == {k \in 1..N : ~Good(k)}
  <1>2. ASSUME NEW k \in 1..N, \A j \in (k + 1)..N : Good(j) PROVE Good(k)
    <2>1. f[k] = RoundAt(s, k, more, round, f)
      BY <1>1 DEF Loops, Offsets
    <2>2. CASE k \notin more
      <3> DEFINE at == [m \in 0..0 |-> k]
                 xs == <<>>
      <3>1. f[k] = Got(<<>>, k)
        BY <2>1, <2>2 DEF RoundAt
      <3>2. at[0] = k /\ xs \in Seq(S) /\ Len(xs) = 0 /\ k \in k..N
        OBVIOUS
      <3>3. Passes(s, more, round, at, xs)
        BY <3>2 DEF Passes
      <3>4. Way(k, at, xs)
        BY <2>2, <3>1, <3>2, <3>3
      <3> QED
        BY <3>4
    <2>3. CASE k \in more /\ round[k] = Fail
      BY <2>1, <2>3, Results DEF RoundAt, Then
    <2>4. CASE k \in more /\ round[k] # Fail
      <3> DEFINE x == round[k].val
                 next == round[k].at
      <3>1. round[k] = Got(x, next) /\ next \in (k + 1)..N
        BY <2>4 DEF Advances, IsRead, Offsets
      <3>2. x \in S
        BY DEF Readings, Offsets
      <3> HIDE DEF x, next, S
      <3>3. Good(next)
        BY <1>2, <3>1
      <3>4. f[k] = Then(f[next], LAMBDA xs, end : Got(<<x>> \o xs, end))
        BY <2>1, <2>4, <3>1, Results DEF RoundAt, Then
      <3>5. CASE f[next] = Fail
        BY <3>4, <3>5, Results DEF Then
      <3>6. ASSUME NEW bt, NEW ys, Way(next, bt, ys) PROVE Good(k)
        <4>1. ys \in Seq(S) /\ Len(ys) \in Nat
          BY <3>6
        <4> DEFINE xs == <<x>> \o ys
                   at == [m \in 0..Len(xs) |-> IF m = 0 THEN k ELSE bt[m - 1]]
                   e  == bt[Len(ys)]
        <4>2. /\ xs \in Seq(S) /\ Len(xs) = Len(ys) + 1 /\ xs[1] = x
              /\ \A m \in 1..Len(ys) : xs[m + 1] = ys[m]
          BY <3>2, <4>1
        <4> HIDE DEF xs
        <4>3. at[0] = k /\ \A m \in 1..Len(xs) : at[m] = bt[m - 1]
          BY <4>1, <4>2
        <4> HIDE DEF at
        <4>4. ASSUME NEW m \in 1..Len(xs)
              PROVE  /\ at[m - 1] \in Offsets(s) /\ at[m - 1] \in more
                     /\ round[at[m - 1]] = Got(xs[m], at[m])
          <5>1. CASE m = 1
            <6>1. at[m - 1] = k /\ at[m] = bt[0]
              BY <4>3, <5>1
            <6>2. bt[0] = next
              BY <3>6
            <6> QED
              BY <2>4, <3>1, <4>2, <5>1, <6>1, <6>2 DEF Offsets
          <5>2. CASE m # 1
            <6>1. m - 1 \in 1..Len(ys)
              BY <4>1, <4>2, <5>2
            <6>2. /\ bt[(m - 1) - 1] \in Offsets(s) /\ bt[(m - 1) - 1] \in more
                  /\ round[bt[(m - 1) - 1]] = Got(ys[m - 1], bt[m - 1])
              BY <3>6, <6>1 DEF Passes
            <6>3. at[m - 1] = bt[(m - 1) - 1] /\ at[m] = bt[m - 1] /\ xs[m] = ys[m - 1]
              <7>1. m - 1 \in 1..Len(xs) /\ (m - 1) + 1 = m
                BY <4>1, <4>2, <6>1
              <7>2. xs[(m - 1) + 1] = ys[m - 1]
                BY <4>2, <6>1
              <7> QED
                BY <4>3, <7>1, <7>2
            <6> QED
              BY <6>2, <6>3
          <5> QED
            BY <5>1, <5>2
        <4>5. at[Len(xs)] = e
          <5>1. Len(xs) \in 1..Len(xs) /\ Len(xs) - 1 = Len(ys)
            BY <4>1, <4>2
          <5> QED
            BY <4>3, <5>1
        <4>6. e \in k..N /\ e \notin more
          <5>1. e \in next..N /\ e \notin more
            BY <3>6
          <5> QED
            BY <3>1, <5>1
        <4>7. f[k] = Got(xs, e)
          <5>1. f[next] = Got(ys, e)
            BY <3>6
          <5> HIDE DEF e
          <5> QED
            BY <3>4, <5>1, Results DEF Then, xs
        <4>8. Passes(s, more, round, at, xs)
          BY <4>4 DEF Passes
        <4> HIDE DEF e
        <4>9. Way(k, at, xs)
          BY <4>2, <4>3, <4>5, <4>6, <4>7, <4>8
        <4> HIDE DEF Way
        <4> QED
          BY <4>9
      <3> HIDE DEF Way
      <3> QED
        BY <3>3, <3>5, <3>6
    <2> HIDE DEF Good
    <2> QED
      BY <2>2, <2>3, <2>4
  <1>3. wrong = {}
    <2> SUFFICES ASSUME wrong # {} PROVE FALSE
      OBVIOUS
    <2>1. wrong \subseteq 1..N /\ N \in Nat
      OBVIOUS
    <2>2. \A k \in 1..N : k \in wrong \/ Good(k)
      OBVIOUS
    <2>3. \A k \in wrong : ~Good(k)
      OBVIOUS
    <2> HIDE DEF wrong, Good
    <2>4. PICK k \in wrong : \A j \in wrong : j <= k
      BY <2>1, LastPosition
    <2>5. \A j \in (k + 1)..N : j \in 1..N /\ j \notin wrong
      <3> HIDE DEF N
      <3> QED
        BY <2>1, <2>4
    <2>6. \A j \in (k + 1)..N : Good(j)
      BY <2>2, <2>5
    <2> QED
      BY <1>2, <2>1, <2>3, <2>4, <2>6
  <1>4. Good(i)
    <2> HIDE DEF Good
    <2> QED
      BY <1>3 DEF Offsets
  <1>5. CASE f[i] = Fail
    BY <1>1, <1>5
  <1>6. ASSUME NEW at, NEW xs, Way(i, at, xs)
        PROVE  /\ xs \in Seq(S) /\ at[0] = i /\ Passes(s, more, round, at, xs)
               /\ at[Len(xs)] \in i..(Len(s) + 1) /\ at[Len(xs)] \notin more
               /\ Rounds(s, i, more, round) = Got(xs, at[Len(xs)])
    BY <1>1, <1>6
  <1> QED
    BY <1>1, <1>4, <1>5, <1>6

-----------------------------------------------------------------------------
(* Texts and offsets.                                                      *)

\* The characters of a text, and the value that stands for its end.
Text(s, Ch) == s \in Seq(Ch) /\ "EOF" \notin Ch

LEMMA PeekAt ==
    ASSUME NEW Ch, NEW s, Text(s, Ch), NEW i \in Nat \ {0}
    PROVE  /\ Len(s) \in Nat
           /\ i <= Len(s) => peek(s, i) = s[i] /\ peek(s, i) # "EOF" /\ peek(s, i) \in Ch
           /\ i > Len(s) => peek(s, i) = "EOF"
  <1>1. Len(s) \in Nat /\ \A k \in 1..Len(s) : s[k] \in Ch
    BY DEF Text
  <1> QED
    BY <1>1 DEF peek, Text

LEMMA SpanIs ==
    ASSUME NEW s, Len(s) \in Nat, NEW C, NEW i \in 1..(Len(s) + 1)
    PROVE  /\ Span(s, i, C) \in i..(Len(s) + 1)
           /\ \A m \in i..(Span(s, i, C) - 1) : s[m] \in C
           /\ Span(s, i, C) <= Len(s) => s[Span(s, i, C)] \notin C
  <1> DEFINE N == Len(s)
             ends == {k \in 1..(N + 1) : k >= i /\ (k <= N => s[k] \notin C)}
  <1>1. ends \subseteq 1..(N + 1) /\ N + 1 \in ends /\ N + 1 \in Nat
    OBVIOUS
  <1>2. \A k \in ends : k \in i..(N + 1) /\ (k <= N => s[k] \notin C)
    OBVIOUS
  <1>3. \A k \in i..(N + 1) : k \notin ends => s[k] \in C
    OBVIOUS
  <1> HIDE DEF ends
  <1>4. PICK k \in ends : \A m \in ends : k <= m
    BY <1>1, FirstPosition
  <1>5. k \in i..(N + 1) /\ (\A m \in i..(k - 1) : s[m] \in C) /\ (k <= N => s[k] \notin C)
    <2>1. \A m \in i..(k - 1) : m \in i..(N + 1) /\ m \notin ends
      BY <1>1, <1>4
    <2> QED
      BY <1>2, <1>3, <1>4, <2>1
  <1> QED
    BY <1>5 DEF Span

LEMMA SpanEnds ==
    ASSUME NEW s, Len(s) \in Nat, NEW C, NEW i \in 1..(Len(s) + 1), NEW k \in i..(Len(s) + 1),
           \A m \in i..(k - 1) : s[m] \in C, k <= Len(s) => s[k] \notin C
    PROVE  Span(s, i, C) = k
  <1> DEFINE e == Span(s, i, C)
  <1>1. /\ e \in i..(Len(s) + 1) /\ \A m \in i..(e - 1) : s[m] \in C
        /\ e <= Len(s) => s[e] \notin C
    BY SpanIs
  <1> HIDE DEF e
  <1>2. ~(e < k)
    BY <1>1
  <1>3. ~(k < e)
    BY <1>1
  <1> QED
    BY <1>1, <1>2, <1>3 DEF e

\* The same for what follows, with the end of the text among it.
LEMMA SpanPeeks ==
    ASSUME NEW Ch, NEW s, Text(s, Ch), NEW C, "EOF" \notin C, NEW i \in Offsets(s)
    PROVE  /\ Span(s, i, C) \in i..(Len(s) + 1)
           /\ \A m \in i..(Span(s, i, C) - 1) : s[m] \in C
           /\ peek(s, Span(s, i, C)) \notin C
           /\ \A k \in i..(Len(s) + 1) :
                (\A m \in i..(k - 1) : s[m] \in C) /\ peek(s, k) \notin C => Span(s, i, C) = k
  <1> DEFINE e == Span(s, i, C)
  <1>1. Len(s) \in Nat /\ i \in 1..(Len(s) + 1)
    BY DEF Offsets, Text
  <1>2. /\ e \in i..(Len(s) + 1) /\ \A m \in i..(e - 1) : s[m] \in C
        /\ e <= Len(s) => s[e] \notin C
    BY <1>1, SpanIs
  <1> HIDE DEF e
  <1>3. peek(s, e) \notin C
    BY <1>2 DEF peek
  <1>4. ASSUME NEW k \in i..(Len(s) + 1), \A m \in i..(k - 1) : s[m] \in C, peek(s, k) \notin C
        PROVE  Span(s, i, C) = k
    <2>1. k <= Len(s) => s[k] \notin C
      BY <1>4 DEF peek
    <2> QED
      BY <1>1, <1>4, <2>1, SpanEnds
  <1> QED
    BY <1>2, <1>3, <1>4 DEF e

\* t has the text w at p.
Holds(t, p, w) ==
    /\ p \in Nat \ {0} /\ p + Len(w) <= Len(t) + 1
    /\ \A m \in 1..Len(w) : t[(p - 1) + m] = w[m]

LEMMA HoldsParts ==
    ASSUME NEW Ch, NEW t, Text(t, Ch), NEW S, NEW a \in Seq(S), NEW b \in Seq(S), NEW p
    PROVE  Holds(t, p, a \o b) <=> Holds(t, p, a) /\ Holds(t, p + Len(a), b)
  <1>1. /\ Len(a \o b) = Len(a) + Len(b) /\ Len(a) \in Nat /\ Len(b) \in Nat
        /\ \A m \in 1..Len(a) : (a \o b)[m] = a[m]
        /\ \A m \in 1..Len(b) : (a \o b)[Len(a) + m] = b[m]
    OBVIOUS
  <1>2. Len(t) \in Nat
    BY DEF Text
  <1> DEFINE c == a \o b
  <1> HIDE DEF c
  <1>3. ASSUME Holds(t, p, c) PROVE Holds(t, p, a) /\ Holds(t, p + Len(a), b)
    <2>1. p \in Nat \ {0} /\ p + Len(c) <= Len(t) + 1 /\ \A m \in 1..Len(c) : t[(p - 1) + m] = c[m]
      BY <1>3 DEF Holds
    <2>2. \A m \in 1..Len(a) : t[(p - 1) + m] = a[m]
      BY <1>1, <2>1 DEF c
    <2>3. ASSUME NEW m \in 1..Len(b) PROVE t[((p + Len(a)) - 1) + m] = b[m]
      <3>1. Len(a) + m \in 1..Len(c) /\ (p - 1) + (Len(a) + m) = ((p + Len(a)) - 1) + m
        BY <1>1, <2>1 DEF c
      <3>2. t[(p - 1) + (Len(a) + m)] = c[Len(a) + m]
        BY <2>1, <3>1
      <3> QED
        BY <1>1, <3>1, <3>2 DEF c
    <2> QED
      BY <1>1, <1>2, <2>1, <2>2, <2>3 DEF Holds, c
  <1>4. ASSUME Holds(t, p, a), Holds(t, p + Len(a), b) PROVE Holds(t, p, c)
    <2>1. p \in Nat \ {0} /\ p + Len(a) + Len(b) <= Len(t) + 1
      BY <1>1, <1>2, <1>4 DEF Holds
    <2>2. ASSUME NEW m \in 1..Len(c) PROVE t[(p - 1) + m] = c[m]
      <3>1. CASE m <= Len(a)
        BY <1>1, <1>4, <3>1 DEF Holds, c
      <3>2. CASE m > Len(a)
        <4>1. m - Len(a) \in 1..Len(b) /\ Len(a) + (m - Len(a)) = m
              /\ ((p + Len(a)) - 1) + (m - Len(a)) = (p - 1) + m
          BY <1>1, <2>1, <3>2 DEF c
        <4>2. t[((p + Len(a)) - 1) + (m - Len(a))] = b[m - Len(a)]
          BY <1>4, <4>1 DEF Holds
        <4>3. c[Len(a) + (m - Len(a))] = b[m - Len(a)]
          BY <1>1, <4>1 DEF c
        <4> QED
          BY <4>1, <4>2, <4>3
      <3> QED
        BY <1>1, <3>1, <3>2 DEF c
    <2> QED
      BY <1>1, <2>1, <2>2 DEF Holds, c
  <1> QED
    BY <1>3, <1>4 DEF c

LEMMA HoldsOne ==
    ASSUME NEW Ch, NEW t, Text(t, Ch), NEW c, NEW p
    PROVE  Holds(t, p, <<c>>) <=> p \in Nat \ {0} /\ p <= Len(t) /\ t[p] = c
  <1>1. Len(<<c>>) = 1 /\ <<c>>[1] = c /\ Len(t) \in Nat
    BY DEF Text
  <1> DEFINE w == <<c>>
  <1>2. Len(w) = 1 /\ w[1] = c
    BY <1>1
  <1> HIDE DEF w
  <1>3. Holds(t, p, w) <=> p \in Nat \ {0} /\ p <= Len(t) /\ t[p] = c
    <2>1. p \in Nat => (p - 1) + 1 = p
      OBVIOUS
    <2>2. \A m \in 1..Len(w) : m = 1
      BY <1>2
    <2>3. 1 \in 1..Len(w)
      BY <1>2
    <2> QED
      BY <1>1, <1>2, <2>1, <2>2, <2>3 DEF Holds
  <1> QED
    BY <1>3 DEF w

LEMMA StepByStep ==
    ASSUME NEW n \in Nat, NEW S, 0 \in S, \A k \in 1..n : k - 1 \in S => k \in S
    PROVE  0..n \subseteq S
  <1> DEFINE out == {k \in 1..n : k \notin S}
  <1>1. out \subseteq 1..n
    OBVIOUS
  <1>2. \A k \in 1..n : k \in out <=> k \notin S
    OBVIOUS
  <1> HIDE DEF out
  <1>3. out = {}
    <2> SUFFICES ASSUME out # {} PROVE FALSE
      OBVIOUS
    <2>1. PICK k \in out : \A m \in out : k <= m
      BY <1>1, FirstPosition
    <2>2. k \in 1..n /\ k - 1 \notin out /\ (k - 1 = 0 \/ k - 1 \in 1..n)
      BY <1>1, <2>1
    <2> QED
      BY <1>2, <2>1, <2>2
  <1> QED
    BY <1>2, <1>3

\* Equal texts, character by character.
LEMMA SameText ==
    ASSUME NEW S, NEW x \in Seq(S), NEW T, NEW y \in Seq(T), Len(x) = Len(y),
           \A m \in 1..Len(x) : x[m] = y[m]
    PROVE  x = y
  <1>1. x = [m \in 1..Len(x) |-> x[m]] /\ y = [m \in 1..Len(y) |-> y[m]]
    OBVIOUS
  <1> QED
    BY <1>1

\* The text between two offsets.
LEMMA Between ==
    ASSUME NEW Ch, NEW s, Text(s, Ch), NEW i \in Offsets(s), NEW j \in i..(Len(s) + 1)
    PROVE  /\ SubSeq(s, i, j - 1) \in Seq(Ch) /\ Len(SubSeq(s, i, j - 1)) = j - i
           /\ \A m \in 1..(j - i) : SubSeq(s, i, j - 1)[m] = s[(i - 1) + m]
           /\ Holds(s, i, SubSeq(s, i, j - 1))
  <1>1. s \in Seq(Ch) /\ Len(s) \in Nat /\ i \in 1..(Len(s) + 1)
    BY DEF Text, Offsets
  <1> DEFINE w == SubSeq(s, i, j - 1)
  <1>2. w \in Seq(Ch) /\ Len(w) = j - i
    BY <1>1
  <1>3. \A m \in 1..(j - i) : w[m] = s[(i - 1) + m]
    <2>1. ASSUME NEW m \in 1..(j - i) PROVE w[m] = s[(i - 1) + m]
      <3>1. w[m] = s[i + m - 1] /\ i + m - 1 = (i - 1) + m
        BY <1>1
      <3> QED
        BY <3>1
    <2> QED
      BY <2>1
  <1> HIDE DEF w
  <1> QED
    BY <1>1, <1>2, <1>3 DEF Holds, w

LEMMA HeldText ==
    ASSUME NEW Ch, NEW s, Text(s, Ch), NEW i \in Offsets(s), NEW T, NEW w \in Seq(T),
           Holds(s, i, w)
    PROVE  SubSeq(s, i, (i + Len(w)) - 1) = w
  <1> DEFINE j == i + Len(w)
             u == SubSeq(s, i, j - 1)
  <1>1. Len(w) \in Nat /\ j \in i..(Len(s) + 1) /\ j - i = Len(w)
    BY DEF Holds, Offsets, Text
  <1>2. u \in Seq(Ch) /\ Len(u) = j - i /\ \A m \in 1..(j - i) : u[m] = s[(i - 1) + m]
    BY <1>1, Between
  <1> HIDE DEF u, j
  <1>3. \A m \in 1..Len(w) : u[m] = w[m]
    BY <1>1, <1>2 DEF Holds
  <1>4. u = w
    BY <1>1, <1>2, <1>3, SameText
  <1> QED
    BY <1>4 DEF u, j

\* Pieces of a text that follow each other, each at its place.
Places(q, t, v) ==
    /\ \A k \in 0..Len(v) : q[k] \in Offsets(t)
    /\ \A k \in 1..Len(v) : Holds(t, q[k - 1], v[k]) /\ q[k] = q[k - 1] + Len(v[k])

LEMMA FlatPlaces ==
    ASSUME NEW Ch, NEW t, Text(t, Ch), NEW T, NEW v \in Seq(Seq(T)), NEW p,
           Holds(t, p, FlattenSeq(v))
    PROVE  \E q : Places(q, t, v) /\ q[0] = p /\ q[Len(v)] = p + Len(FlattenSeq(v))
  <1>1. PICK h : /\ Flattens(h, v) /\ FlattenSeq(v) = h[Len(v)]
                 /\ \A n \in 0..Len(v) : h[n] \in Seq(T)
    BY FlatSteps
  <1> DEFINE n == Len(v)
             q == [k \in 0..n |-> p + Len(h[k])]
             S == {k \in 0..n : \A m \in 0..n : m = n - k => Holds(t, p, h[m])}
  <1>2. n \in Nat /\ \A k \in 1..n : v[k] \in Seq(T)
    OBVIOUS
  <1>3. \A k \in 1..n : h[k] = h[k - 1] \o v[k] /\ k - 1 \in 0..n
    <2>1. \A k \in 1..n : h[k] = h[k - 1] \o v[k]
      BY ONLY <1>1, Zenon DEF Flattens
    <2>2. \A k \in 1..n : k - 1 \in 0..n
      <3> HIDE DEF n
      <3> QED
        BY <1>2
    <2> QED
      BY <2>1, <2>2, Zenon
  <1>4. ASSUME NEW k \in 1..n, Holds(t, p, h[k])
        PROVE  /\ Holds(t, p, h[k - 1]) /\ Holds(t, p + Len(h[k - 1]), v[k])
               /\ Len(h[k]) = Len(h[k - 1]) + Len(v[k])
    <2>1. h[k - 1] \in Seq(T) /\ v[k] \in Seq(T) /\ h[k] = h[k - 1] \o v[k]
      BY <1>1, <1>2, <1>3
    <2> DEFINE a == h[k - 1]
               b == v[k]
    <2>2. a \in Seq(T) /\ b \in Seq(T) /\ Holds(t, p, a \o b)
      BY <1>4, <2>1
    <2> HIDE DEF a, b
    <2>3. Holds(t, p, a) /\ Holds(t, p + Len(a), b)
      BY <2>2, HoldsParts
    <2>4. Len(a \o b) = Len(a) + Len(b)
      BY <2>2
    <2> QED
      BY <2>1, <2>3, <2>4 DEF a, b
  <1>5. 0..n \subseteq S
    <2> HIDE DEF n
    <2>1. 0 \in S
      <3>1. \A m \in 0..n : m = n - 0 => m = n
        BY <1>2
      <3> QED
        BY <1>1, <1>2, <3>1 DEF n
    <2>2. ASSUME NEW k \in 1..n, k - 1 \in S PROVE k \in S
      <3>1. ASSUME NEW m \in 0..n, m = n - k PROVE Holds(t, p, h[m])
        <4>1. m + 1 \in 1..n /\ m + 1 = n - (k - 1) /\ (m + 1) - 1 = m
          BY <1>2, <3>1
        <4>2. Holds(t, p, h[m + 1])
          BY <2>2, <4>1
        <4> QED
          BY <1>4, <4>1, <4>2
      <3> QED
        BY <3>1
    <2> HIDE DEF S
    <2> QED
      BY <1>2, <2>1, <2>2, StepByStep
  <1>6. \A m \in 0..n : Holds(t, p, h[m])
    <2>1. ASSUME NEW m \in 0..n PROVE Holds(t, p, h[m])
      <3>1. n - m \in 0..n /\ m = n - (n - m)
        BY <1>2
      <3> HIDE DEF n
      <3> QED
        BY <1>5, <3>1
    <2> QED
      BY <2>1
  <1>7. h[0] = <<>>
    BY <1>1 DEF Flattens
  <1>8. /\ \A k \in 0..n : q[k] = p + Len(h[k]) /\ q[k] \in Offsets(t)
        /\ q[0] = p /\ q[n] = p + Len(FlattenSeq(v))
    <2>1. \A k \in 0..n : q[k] = p + Len(h[k])
      OBVIOUS
    <2>2. \A k \in 0..n : Len(h[k]) \in Nat
      BY <1>1
    <2> HIDE DEF q, n
    <2>3. p \in Nat \ {0} /\ Len(t) \in Nat
      BY DEF Holds, Text
    <2>4. ASSUME NEW k \in 0..n PROVE q[k] \in Offsets(t)
      <3>1. p + Len(h[k]) <= Len(t) + 1
        BY <1>6 DEF Holds
      <3> QED
        BY <2>1, <2>2, <2>3, <3>1 DEF Offsets
    <2>5. q[0] = p
      <3>1. Len(<<>>) = 0 /\ 0 \in 0..n
        BY <1>2
      <3>2. q[0] = p + 0
        BY <1>7, <2>1, <3>1, Zenon
      <3> QED
        BY <2>3, <3>2
    <2>6. q[n] = p + Len(FlattenSeq(v))
      BY <1>1, <1>2, <2>1 DEF n
    <2> QED
      BY <2>1, <2>4, <2>5, <2>6
  <1> HIDE DEF q, S
  <1>9. ASSUME NEW k \in 1..n PROVE Holds(t, q[k - 1], v[k]) /\ q[k] = q[k - 1] + Len(v[k])
    <2>1. k \in 0..n /\ k - 1 \in 0..n
      BY <1>2
    <2>2. Holds(t, p + Len(h[k - 1]), v[k]) /\ Len(h[k]) = Len(h[k - 1]) + Len(v[k])
      BY <1>4, <1>6, <2>1
    <2>3. q[k] = p + Len(h[k]) /\ q[k - 1] = p + Len(h[k - 1])
      BY <1>8, <2>1
    <2>4. p \in Nat /\ Len(h[k - 1]) \in Nat /\ Len(v[k]) \in Nat
      BY <1>1, <1>2, <2>1 DEF Holds
    <2>5. Holds(t, q[k - 1], v[k])
      BY <2>2, <2>3, Zenon
    <2>6. q[k] = p + (Len(h[k - 1]) + Len(v[k])) /\ q[k - 1] = p + Len(h[k - 1])
      BY <2>2, <2>3, Zenon
    <2>7. q[k] = q[k - 1] + Len(v[k])
      <3> DEFINE a == Len(h[k - 1])
                 b == Len(v[k])
                 x == q[k - 1]
      <3>1. p \in Nat /\ a \in Nat /\ b \in Nat /\ q[k] = p + (a + b) /\ x = p + a
        BY <2>4, <2>6
      <3> HIDE DEF a, b, x
      <3>2. q[k] = x + b
        BY ONLY <3>1
      <3> QED
        BY <3>2 DEF b, x
    <2> QED
      BY <2>5, <2>7
  <1>10. Places(q, t, v)
    BY <1>8, <1>9 DEF Places
  <1> QED
    BY <1>8, <1>10

LEMMA PlacedFlat ==
    ASSUME NEW Ch, NEW t, Text(t, Ch), NEW T, NEW v \in Seq(Seq(T)), NEW q, Places(q, t, v)
    PROVE  Holds(t, q[0], FlattenSeq(v)) /\ q[Len(v)] = q[0] + Len(FlattenSeq(v))
  <1>1. PICK h : /\ Flattens(h, v) /\ FlattenSeq(v) = h[Len(v)]
                 /\ \A n \in 0..Len(v) : h[n] \in Seq(T)
    BY FlatSteps
  <1> DEFINE n == Len(v)
             S == {k \in 0..n : Holds(t, q[0], h[k]) /\ q[k] = q[0] + Len(h[k])}
  <1>2. n \in Nat /\ \A k \in 1..n : v[k] \in Seq(T)
    OBVIOUS
  <1>3. 0 \in S
    <2>1. h[0] = <<>> /\ q[0] \in Offsets(t) /\ Len(t) \in Nat /\ 0 \in 0..n
      BY <1>1, <1>2 DEF Flattens, Places, Text
    <2> DEFINE e == h[0]
    <2>2. Len(e) = 0
      BY <2>1
    <2> HIDE DEF e
    <2>3. Holds(t, q[0], e) /\ q[0] = q[0] + Len(e)
      BY <2>1, <2>2 DEF Holds, Offsets
    <2> QED
      BY <2>1, <2>3 DEF e
  <1>4. ASSUME NEW k \in 1..n, k - 1 \in S PROVE k \in S
    <2>1. h[k] = h[k - 1] \o v[k] /\ h[k - 1] \in Seq(T) /\ v[k] \in Seq(T) /\ k \in 0..n
      <3>1. h[k] = h[k - 1] \o v[k]
        BY <1>1, Zenon DEF Flattens
      <3>2. k \in 0..n /\ k - 1 \in 0..n
        BY <1>2
      <3> QED
        BY <1>1, <1>2, <3>1, <3>2
    <2>2. /\ Holds(t, q[0], h[k - 1]) /\ q[k - 1] = q[0] + Len(h[k - 1])
          /\ Holds(t, q[k - 1], v[k]) /\ q[k] = q[k - 1] + Len(v[k])
      BY <1>4 DEF Places
    <2> DEFINE a == h[k - 1]
               b == v[k]
    <2>3. a \in Seq(T) /\ b \in Seq(T) /\ Holds(t, q[0], a) /\ Holds(t, q[0] + Len(a), b)
      BY <2>1, <2>2
    <2> HIDE DEF a, b
    <2>4. Holds(t, q[0], a \o b) /\ Len(a \o b) = Len(a) + Len(b)
      BY <2>3, HoldsParts
    <2>5. q[0] \in Nat /\ Len(a) \in Nat /\ Len(b) \in Nat
      BY <2>3 DEF Holds
    <2>6. q[k] = q[0] + Len(a \o b)
      <3>1. q[k] = (q[0] + Len(a)) + Len(b)
        BY <2>2, Zenon DEF a, b
      <3> QED
        BY ONLY <2>4, <2>5, <3>1
    <2> QED
      BY <2>1, <2>4, <2>6 DEF a, b
  <1>5. 0..n \subseteq S
    <2> HIDE DEF S, n
    <2> QED
      BY <1>2, <1>3, <1>4, StepByStep
  <1> QED
    BY <1>1, <1>2, <1>5

-----------------------------------------------------------------------------
(* Numbers.                                                                *)

\* A function that is defined from each argument to the next.
Recurs(f, n, a, g) == f[0] = a /\ \A k \in 1..n : f[k] = g[<<k, f[k - 1]>>]

LEMMA Recursion ==
    ASSUME NEW n \in Nat, NEW X, NEW a \in X, NEW g,
           \A k \in 1..n : \A x \in X : g[<<k, x>>] \in X
    PROVE  \E f \in [0..n -> X] : Recurs(f, n, a, g)
  <1> DEFINE Runs(f, m) == f[0] = a /\ \A k \in 1..m : f[k] = g[<<k, f[k - 1]>>]
             S == {m \in 0..n : \E f \in [0..m -> X] : Runs(f, m)}
  <1>1. 0 \in S
    <2> DEFINE f == [k \in 0..0 |-> a]
    <2>1. f \in [0..0 -> X] /\ Runs(f, 0) /\ 0 \in 0..n
      OBVIOUS
    <2> QED
      BY <2>1
  <1>2. ASSUME NEW m \in 1..n, m - 1 \in S PROVE m \in S
    <2>1. PICK f \in [0..(m - 1) -> X] : Runs(f, m - 1)
      BY <1>2
    <2> DEFINE x == g[<<m, f[m - 1]>>]
               h == [k \in 0..m |-> IF k = m THEN x ELSE f[k]]
    <2>2. f[m - 1] \in X /\ \A k \in 0..(m - 1) : f[k] \in X
      OBVIOUS
    <2>3. x \in X
      BY <2>2
    <2> HIDE DEF x
    <2>4. h \in [0..m -> X] /\ h[m] = x /\ \A k \in 0..(m - 1) : h[k] = f[k]
      BY <2>2, <2>3
    <2> HIDE DEF h
    <2>5. ASSUME NEW k \in 1..m PROVE h[k] = g[<<k, h[k - 1]>>]
      <3>1. k - 1 \in 0..(m - 1) /\ h[k - 1] = f[k - 1]
        BY <2>4
      <3>2. CASE k = m
        BY <2>4, <3>1, <3>2 DEF x
      <3>3. CASE k # m
        <4>1. k \in 1..(m - 1) /\ k \in 0..(m - 1)
          BY <3>3
        <4>2. f[k] = g[<<k, f[k - 1]>>]
          BY <2>1, <4>1
        <4> QED
          BY <2>4, <3>1, <4>1, <4>2
      <3> QED
        BY <3>2, <3>3
    <2>6. h[0] = a
      BY <2>1, <2>4
    <2>7. m \in 0..n
      OBVIOUS
    <2> QED
      BY <2>4, <2>5, <2>6, <2>7
  <1>3. n \in S
    <2>1. 0..n \subseteq S
      <3> HIDE DEF S
      <3> QED
        BY <1>1, <1>2, StepByStep
    <2> QED
      BY <2>1
  <1> QED
    BY <1>3 DEF Recurs

LEMMA ParseIntNat ==
    ASSUME NEW d \in Seq(isDigit)
    PROVE  ParseInt(d) \in Nat
  <1> DEFINE n == Len(d)
             fig(k) == Code[d[k]] - 52
             value == CHOOSE f : f = [k \in 0..n |-> IF k = 0 THEN 0
                                                      ELSE 10 * f[k - 1] + Code[d[k]] - 52]
             g == [p \in (1..n) \X Nat |-> 10 * p[2] + fig(p[1])]
  <1>9. \A c \in isDigit : Code[c] \in Int /\ Code[c] - 52 \in 0..9
    <2>1. ASSUME NEW c \in isDigit PROVE Code[c] \in Int
      <3>1. c \in ToSet(Base64Alphabet)
        BY AlphabetClasses
      <3>2. Code[c] \in 0..63
        BY <3>1, Codes
      <3> DEFINE x == Code[c]
      <3>3. x \in 0..63
        BY <3>2
      <3> HIDE DEF x
      <3>4. x \in Int
        BY <3>3
      <3> QED
        BY <3>4 DEF x
    <2> QED
      BY <2>1, Codes
  <1>10. n \in Nat /\ \A k \in 1..n : d[k] \in isDigit
    OBVIOUS
  <1>11. \A k \in 1..n : Code[d[k]] \in Int /\ Code[d[k]] - 52 \in 0..9
    BY ONLY <1>9, <1>10, Zenon
  <1>1. n \in Nat /\ \A k \in 1..n : fig(k) \in 0..9
    BY <1>10, <1>11
  <1>2. ParseInt(d) = value[n]
    BY DEF ParseInt
  <1> HIDE DEF fig
  <1>3. \A k \in 1..n : \A x \in Nat : g[<<k, x>>] = 10 * x + fig(k) /\ g[<<k, x>>] \in Nat
    <2> HIDE DEF n
    <2>1. ASSUME NEW k \in 1..n, NEW x \in Nat
          PROVE  g[<<k, x>>] = 10 * x + fig(k) /\ g[<<k, x>>] \in Nat
      <3>1. fig(k) \in 0..9
        BY <1>1
      <3>2. g[<<k, x>>] = 10 * x + fig(k)
        OBVIOUS
      <3> QED
        BY <3>1, <3>2
    <2> QED
      BY <2>1
  <1>4. \E f : f = [k \in 0..n |-> IF k = 0 THEN 0 ELSE 10 * f[k - 1] + Code[d[k]] - 52]
    <2>1. PICK f \in [0..n -> Nat] : f[0] = 0 /\ \A k \in 1..n : f[k] = g[<<k, f[k - 1]>>]
      <3> DEFINE z == 0
                 X == Nat
      <3>1. z \in X /\ n \in Nat
        OBVIOUS
      <3>2. \A k \in 1..n : \A x \in X : g[<<k, x>>] \in X
        BY <1>3
      <3> HIDE DEF g, n, z, X
      <3>3. \E f \in [0..n -> X] : Recurs(f, n, z, g)
        BY ONLY <3>1, <3>2, Recursion
      <3> QED
        BY <3>3 DEF z, X, Recurs
    <2>2. ASSUME NEW k \in 0..n
          PROVE  f[k] = IF k = 0 THEN 0 ELSE 10 * f[k - 1] + Code[d[k]] - 52
      <3>1. CASE k = 0
        BY <2>1, <3>1
      <3>2. CASE k # 0
        <4>1. k \in 1..n /\ k - 1 \in 0..n
          BY <1>1, <3>2
        <4>2. f[k - 1] \in Nat /\ fig(k) \in 0..9
          BY <1>1, <4>1
        <4>3. g[<<k, f[k - 1]>>] = 10 * f[k - 1] + fig(k)
          BY <1>3, <4>1, <4>2
        <4>4. f[k] = 10 * f[k - 1] + fig(k) /\ k \in 1..n
          BY <2>1, <4>1, <4>3
        <4>5. Code[d[k]] \in Int
          BY <4>1, <1>11
        <4>6. fig(k) = Code[d[k]] - 52
          BY DEF fig
        <4>7. 10 * f[k - 1] + fig(k) = 10 * f[k - 1] + Code[d[k]] - 52
          BY <4>2, <4>5, <4>6
        <4> QED
          BY <3>2, <4>4, <4>7
      <3> QED
        BY <3>1, <3>2
    <2> HIDE DEF n
    <2>3. f = [k \in 0..n |-> IF k = 0 THEN 0 ELSE 10 * f[k - 1] + Code[d[k]] - 52]
      BY <2>2
    <2> QED
      BY <2>3
  <1>5. value = [k \in 0..n |-> IF k = 0 THEN 0 ELSE 10 * value[k - 1] + Code[d[k]] - 52]
    BY <1>4
  <1> DEFINE S == {k \in 0..n : value[k] \in Nat}
  <1> HIDE DEF value, n
  <1>6. 0 \in S
    BY <1>1, <1>5
  <1>7. ASSUME NEW k \in 1..n, k - 1 \in S PROVE k \in S
    <2>1. k \in 0..n /\ value[k] = 10 * value[k - 1] + Code[d[k]] - 52
      BY <1>1, <1>5
    <2>2. value[k - 1] \in Nat
      BY <1>7
    <2> DEFINE x == Code[d[k]]
               y == value[k - 1]
    <2>3. x \in Int /\ x - 52 \in 0..9 /\ y \in Nat /\ value[k] = 10 * y + x - 52
      BY <1>11, <2>1, <2>2
    <2> HIDE DEF x, y
    <2>4. value[k] \in Nat
      BY <2>3
    <2> QED
      BY <2>1, <2>4
  <1>8. n \in S
    <2>1. 0..n \subseteq S
      <3> HIDE DEF S
      <3> QED
        BY <1>1, <1>6, <1>7, StepByStep
    <2> QED
      BY <1>1, <2>1
  <1> QED
    BY <1>2, <1>8

LEMMA NumeralsAreDigits ==
    /\ \A d \in Numerals : d \in Seq(isDigit) /\ Len(d) \in 1..MaxDigits
    /\ \A d \in Seq(isDigit) : Len(d) \in 1..MaxDigits => d \in Numerals
  <1>1. ASSUME NEW d \in Numerals PROVE d \in Seq(isDigit) /\ Len(d) \in 1..MaxDigits
    <2>1. PICK k \in 1..MaxDigits : d \in [1..k -> isDigit]
      BY DEF Numerals
    <2>2. k \in Nat
      OBVIOUS
    <2> QED
      BY <2>1, <2>2
  <1>2. ASSUME NEW d \in Seq(isDigit), Len(d) \in 1..MaxDigits PROVE d \in Numerals
    <2>1. d \in [1..Len(d) -> isDigit]
      OBVIOUS
    <2> QED
      BY <1>2, <2>1 DEF Numerals
  <1> QED
    BY <1>1, <1>2

\* A number that has a numeral has a shortest one.
LEMMA FormatNatIs ==
    ASSUME NEW d \in Numerals
    PROVE  FormatNat(ParseInt(d)) \in Numerals /\ ParseInt(FormatNat(ParseInt(d))) = ParseInt(d)
  <1> DEFINE x == ParseInt(d)
             S == {k \in 1..MaxDigits : \E e \in Numerals : ParseInt(e) = x /\ Len(e) = k}
  <1>1. S \subseteq 1..MaxDigits /\ MaxDigits \in Nat
    BY FieldsAssumption
  <1>2. Len(d) \in S
    BY NumeralsAreDigits
  <1>3. PICK k \in S : \A m \in S : k <= m
    <2> HIDE DEF S
    <2> QED
      BY <1>1, <1>2, FirstPosition
  <1>4. PICK e \in Numerals : ParseInt(e) = x /\ Len(e) = k
    BY <1>3
  <1>5. \A u \in Numerals : ParseInt(u) = x => Len(u) \in S
    BY NumeralsAreDigits
  <1> HIDE DEF x, S
  <1>6. \E u \in Numerals : ParseInt(u) = x /\ \A y \in Numerals : ParseInt(y) = x => Len(u) <= Len(y)
    BY <1>3, <1>4, <1>5
  <1> QED
    BY <1>6 DEF FormatNat, x

-----------------------------------------------------------------------------
(* Bare items: the grammar, and what the parser makes of it.               *)


BoolSpelt(w, v) == \E b \in BOOLEAN : v = [bool |-> b] /\ w = <<"?", IF b THEN "1" ELSE "0">>

IntSpelt(w, v) ==
    \E d \in Numerals : \/ w = d /\ v = [int |-> ParseInt(d)]
                        \/ w = <<"-">> \o d /\ v = [int |-> -ParseInt(d)]

StrSpelt(w, v, Ch) == \E x \in Seq(Ch \ Unprintables) : v = [str |-> x] /\ w = writeString(x)

TokSpelt(w, v) == IsToken(w) /\ v = [tok |-> w]

BinSpelt(w, v) ==
    \E b \in Seq(isBase64Char) : /\ ValidBase64(b) /\ v = [bin |-> DecodeBase64(b)]
                                 /\ w = <<":">> \o b \o <<":">>

Spelt(w, v, Ch) == \/ BoolSpelt(w, v) \/ IntSpelt(w, v) \/ StrSpelt(w, v, Ch)
                   \/ TokSpelt(w, v) \/ BinSpelt(w, v)

\* What may come after a bare item.
MayFollow(v, c) == /\ "tok" \in DOMAIN v => c \notin isTokenChar
                   /\ "int" \in DOMAIN v => c \notin isDigit

\* The fields of a bare item.
LEMMA Kinds ==
    /\ \A x : DOMAIN [bool |-> x] = {"bool"} /\ DOMAIN [int |-> x] = {"int"}
              /\ DOMAIN [str |-> x] = {"str"} /\ DOMAIN [tok |-> x] = {"tok"}
              /\ DOMAIN [bin |-> x] = {"bin"}
    /\ "bool" # "int" /\ "bool" # "str" /\ "bool" # "tok" /\ "bool" # "bin"
    /\ "int" # "str" /\ "int" # "tok" /\ "int" # "bin"
    /\ "str" # "tok" /\ "str" # "bin" /\ "tok" # "bin"
  OBVIOUS

LEMMA KindsWithin ==
    /\ \A x : BareWithin([bool |-> x]) /\ BareWithin([int |-> x])
    /\ \A x : BareWithin([tok |-> x]) <=> ~Exceeds(Len(x), Limits.MaxTokenLength)
    /\ \A x : BareWithin([str |-> x]) <=> ~Exceeds(Len(writeString(x)) - 2, Limits.MaxStringLength)
    /\ \A x : BareWithin([bin |-> x]) <=> ~Exceeds(Len(x), Limits.MaxByteSequenceLength)
  BY DEF BareWithin

LEMMA KindsFollowed ==
    /\ \A x, c : MayFollow([bool |-> x], c) /\ MayFollow([str |-> x], c) /\ MayFollow([bin |-> x], c)
    /\ \A x, c : MayFollow([tok |-> x], c) <=> c \notin isTokenChar
    /\ \A x, c : MayFollow([int |-> x], c) <=> c \notin isDigit
    /\ \A v, c : Stop(c) => MayFollow(v, c)
  <1>1. \A v, c : Stop(c) => MayFollow(v, c)
    BY TokenClasses DEF Stop, MayFollow
  <1> QED
    BY <1>1 DEF MayFollow

LEMMA Dispatch ==
    ASSUME NEW s, NEW i
    PROVE  /\ peek(s, i) = "?" => parseBareItem(s, i) = parseBoolean(s, i)
           /\ peek(s, i) = "-" \/ peek(s, i) \in isDigit => parseBareItem(s, i) = parseInteger(s, i)
           /\ peek(s, i) = Quote => parseBareItem(s, i) = parseString(s, i)
           /\ peek(s, i) = ":" => parseBareItem(s, i) = parseByteSequence(s, i)
           /\ peek(s, i) \in isAlpha \cup {"*"} => parseBareItem(s, i) = parseToken(s, i)
           /\ peek(s, i) \notin Starters => parseBareItem(s, i) = Fail
  <1> DEFINE c == peek(s, i)
  <1>1. /\ "?" # "-" /\ "?" # Quote /\ "?" # ":" /\ "?" # "*" /\ "-" # Quote /\ "-" # ":" /\ "-" # "*"
        /\ Quote # ":" /\ Quote # "*" /\ ":" # "*"
    BY DelimitersDiffer, Zenon
  <1>2. /\ "?" \notin isDigit \cup isAlpha /\ "-" \notin isDigit \cup isAlpha
        /\ Quote \notin isDigit \cup isAlpha /\ ":" \notin isDigit \cup isAlpha
        /\ "*" \notin isDigit \cup isAlpha
    BY StarterClasses, Zenon
  <1>3. isDigit \cap isAlpha = {}
    BY TokenClasses
  <1>4. parseBareItem(s, i) =
          CASE c = "?"                  -> parseBoolean(s, i)
            [] c = "-" \/ c \in isDigit -> parseInteger(s, i)
            [] c = Quote                -> parseString(s, i)
            [] c = ":"                  -> parseByteSequence(s, i)
            [] c = "*" \/ c \in isAlpha -> parseToken(s, i)
            [] OTHER                    -> Fail
    BY DEF parseBareItem
  <1> HIDE DEF c
  <1>5. CASE c = "?"
    BY <1>1, <1>2, <1>4, <1>5 DEF c, Starters
  <1>6. CASE c = "-" \/ c \in isDigit
    BY <1>1, <1>2, <1>3, <1>4, <1>6 DEF c, Starters
  <1>7. CASE c = Quote
    BY <1>1, <1>2, <1>4, <1>7 DEF c, Starters
  <1>8. CASE c = ":"
    BY <1>1, <1>2, <1>4, <1>8 DEF c, Starters
  <1>9. CASE c = "*" \/ c \in isAlpha
    BY <1>1, <1>2, <1>3, <1>4, <1>9 DEF c, Starters
  <1>10. CASE c \notin Starters
    BY <1>4, <1>10 DEF c, Starters
  <1> QED
    BY <1>5, <1>6, <1>7, <1>8, <1>9, <1>10 DEF c, Starters

\* A bare item v between two offsets of a text.
IsBare(s, i, v, j, Ch) ==
    /\ j \in (i + 1)..(Len(s) + 1)
    /\ Spelt(SubSeq(s, i, j - 1), v, Ch)
    /\ BareWithin(v)
    /\ MayFollow(v, peek(s, j))

\* The two halves of what is to be said of each kind: what the parser returns is
\* one, and one is returned where the text has it.
Returns(s, i, Ch) ==
    parseBareItem(s, i) = Fail \/ \E v, j : parseBareItem(s, i) = Got(v, j) /\ IsBare(s, i, v, j, Ch)

IsReturned(t, p, w, v) ==
    parseBareItem(t, p) = IF BareWithin(v) THEN Got(v, p + Len(w)) ELSE Fail

LEMMA PeekIs ==
    ASSUME NEW Ch, NEW s, Text(s, Ch), NEW i \in Nat \ {0}, peek(s, i) # "EOF"
    PROVE  /\ i \in 1..Len(s) /\ s[i] = peek(s, i) /\ i \in Offsets(s) /\ i + 1 \in Offsets(s)
           /\ Len(s) \in Nat /\ s[i] \in Ch
  <1>1. i <= Len(s) /\ Len(s) \in Nat
    BY PeekAt
  <1> QED
    BY <1>1, PeekAt DEF Offsets

LEMMA HeldAt ==
    ASSUME NEW Ch, NEW t, Text(t, Ch), NEW w, NEW p, Holds(t, p, w), NEW m \in 1..Len(w),
           Len(w) \in Nat
    PROVE  /\ (p - 1) + m \in 1..Len(t) /\ t[(p - 1) + m] = w[m] /\ peek(t, (p - 1) + m) = w[m]
           /\ p \in Offsets(t) /\ p + Len(w) \in Offsets(t) /\ Len(t) \in Nat
  <1>1. Len(t) \in Nat
    BY DEF Text
  <1>2. p \in Nat \ {0} /\ p + Len(w) <= Len(t) + 1 /\ t[(p - 1) + m] = w[m]
    BY DEF Holds
  <1>3. (p - 1) + m \in 1..Len(t)
    BY <1>1, <1>2
  <1>4. peek(t, (p - 1) + m) = t[(p - 1) + m]
    BY <1>1, <1>3 DEF peek
  <1>5. p \in Offsets(t) /\ p + Len(w) \in Offsets(t)
    BY <1>1, <1>2 DEF Offsets
  <1> QED
    BY <1>1, <1>2, <1>3, <1>4, <1>5

LEMMA BoolReturns ==
    ASSUME NEW Ch, NEW s, Text(s, Ch), NEW i \in Offsets(s), peek(s, i) = "?"
    PROVE  Returns(s, i, Ch)
  <1>1. parseBareItem(s, i) = parseBoolean(s, i)
    BY Dispatch
  <1> SUFFICES ASSUME peek(s, i + 1) \in {"0", "1"} PROVE Returns(s, i, Ch)
    BY <1>1 DEF parseBoolean, Returns
  <1> DEFINE b == peek(s, i + 1) = "1"
             v == [bool |-> b]
             w == SubSeq(s, i, i + 1)
  <1>2. i \in Nat \ {0} /\ "?" # "EOF" /\ "0" # "EOF" /\ "1" # "EOF"
    BY DEF Offsets, Text
  <1>3. i \in 1..Len(s) /\ s[i] = "?" /\ Len(s) \in Nat
    BY <1>2, PeekIs
  <1>4. i + 1 \in 1..Len(s) /\ s[i + 1] = peek(s, i + 1)
    BY <1>2, PeekIs
  <1>5. i + 2 \in (i + 1)..(Len(s) + 1) /\ (i + 2) - 1 = i + 1
    BY <1>3, <1>4
  <1>6. w = <<"?", IF b THEN "1" ELSE "0">>
    <2>1. w \in Seq(Ch) /\ Len(w) = 2 /\ w[1] = s[i] /\ w[2] = s[i + 1]
      BY <1>3, <1>4 DEF Text
    <2> HIDE DEF w
    <2>2. w = <<w[1], w[2]>>
      BY <2>1
    <2>3. w[2] = IF b THEN "1" ELSE "0"
      BY <1>4, <2>1
    <2> QED
      BY <1>3, <2>1, <2>2, <2>3
  <1>7. b \in BOOLEAN
    OBVIOUS
  <1>8. parseBareItem(s, i) = Got(v, i + 2)
    BY <1>1 DEF parseBoolean
  <1> HIDE DEF b
  <1>9. BoolSpelt(w, v)
    BY <1>6, <1>7 DEF BoolSpelt
  <1>10. BareWithin(v) /\ MayFollow(v, peek(s, i + 2))
    BY KindsWithin, KindsFollowed
  <1> HIDE DEF v
  <1>11. IsBare(s, i, v, i + 2, Ch)
    BY <1>5, <1>9, <1>10 DEF IsBare, Spelt
  <1> QED
    BY <1>8, <1>11 DEF Returns

LEMMA BoolIsReturned ==
    ASSUME NEW Ch, NEW t, Text(t, Ch), NEW w, NEW v, BoolSpelt(w, v), NEW p, Holds(t, p, w)
    PROVE  IsReturned(t, p, w, v)
  <1>1. PICK b \in BOOLEAN : v = [bool |-> b] /\ w = <<"?", IF b THEN "1" ELSE "0">>
    BY DEF BoolSpelt
  <1> DEFINE c == IF b THEN "1" ELSE "0"
  <1>2. w = <<"?", c>>
    BY <1>1
  <1>3. c \in {"0", "1"} /\ (c = "1") = b
    BY DelimitersDiffer
  <1> HIDE DEF c
  <1>4. Len(w) = 2 /\ w[1] = "?" /\ w[2] = c
    BY <1>2
  <1>5. peek(t, (p - 1) + 1) = "?" /\ peek(t, (p - 1) + 2) = c /\ p \in Offsets(t)
    <2>1. 1 \in 1..Len(w) /\ 2 \in 1..Len(w) /\ Len(w) \in Nat
      BY <1>4
    <2> QED
      BY <1>4, <2>1, HeldAt
  <1>6. p \in Nat /\ (p - 1) + 1 = p /\ (p - 1) + 2 = p + 1
    BY <1>5 DEF Offsets, Text
  <1>7. parseBareItem(t, p) = parseBoolean(t, p)
    BY <1>5, <1>6, Dispatch
  <1>8. parseBoolean(t, p) = Got([bool |-> b], p + 2)
    BY <1>3, <1>5, <1>6 DEF parseBoolean
  <1>9. BareWithin(v)
    BY <1>1, KindsWithin
  <1> QED
    BY <1>1, <1>4, <1>7, <1>8, <1>9 DEF IsReturned

LEMMA TokenReads ==
    ASSUME NEW Ch, NEW s, Text(s, Ch), NEW i \in Offsets(s)
    PROVE  \/ parseToken(s, i) = Fail
           \/ \E w, j : /\ parseToken(s, i) = Got([tok |-> w], j) /\ w = SubSeq(s, i, j - 1)
                        /\ j \in (i + 1)..(Len(s) + 1) /\ IsToken(w)
                        /\ ~Exceeds(Len(w), Limits.MaxTokenLength)
                        /\ peek(s, j) \notin isTokenChar
  <1> DEFINE j == Span(s, i + 1, isTokenChar)
             w == SubSeq(s, i, j - 1)
  <1> SUFFICES ASSUME peek(s, i) \in isAlpha \cup {"*"}, ~Exceeds(j - i, Limits.MaxTokenLength)
               PROVE  /\ parseToken(s, i) = Got([tok |-> w], j)
                      /\ j \in (i + 1)..(Len(s) + 1) /\ IsToken(w)
                      /\ ~Exceeds(Len(w), Limits.MaxTokenLength)
                      /\ peek(s, j) \notin isTokenChar
    BY DEF parseToken
  <1>1. parseToken(s, i) = Got([tok |-> w], j)
    BY DEF parseToken
  <1>2. isAlpha \cup {"*"} \subseteq isTokenChar /\ "EOF" \notin isTokenChar
    BY TokenClasses, Zenon DEF isTokenChar, Ends
  <1>3. i \in 1..Len(s) /\ s[i] = peek(s, i) /\ i + 1 \in Offsets(s) /\ Len(s) \in Nat
    BY <1>2, PeekIs DEF Offsets, Text
  <1>4. /\ j \in (i + 1)..(Len(s) + 1) /\ peek(s, j) \notin isTokenChar
        /\ \A m \in (i + 1)..(j - 1) : s[m] \in isTokenChar
    BY <1>2, <1>3, SpanPeeks
  <1> HIDE DEF j
  <1>5. w \in Seq(Ch) /\ Len(w) = j - i /\ \A m \in 1..(j - i) : w[m] = s[(i - 1) + m]
    BY <1>3, <1>4, Between
  <1> HIDE DEF w
  <1>6. ASSUME NEW m \in 1..Len(w) PROVE w[m] \in isTokenChar
    <2>1. CASE m = 1
      <3>1. (i - 1) + 1 = i /\ 1 \in 1..(j - i)
        BY <1>3, <1>4
      <3> QED
        BY <1>2, <1>3, <1>5, <2>1, <3>1
    <2>2. CASE m # 1
      <3>1. (i - 1) + m \in (i + 1)..(j - 1) /\ m \in 1..(j - i)
        BY <1>3, <1>4, <1>5, <2>2
      <3> QED
        BY <1>4, <1>5, <3>1
    <2> QED
      BY <2>1, <2>2
  <1>7. w \in Seq(isTokenChar)
    <2>1. w = [m \in 1..Len(w) |-> w[m]] /\ Len(w) \in Nat
      BY <1>5
    <2> QED
      BY ONLY <1>6, <2>1
  <1>8. w # <<>> /\ w[1] \in isAlpha \cup {"*"}
    <2>1. (i - 1) + 1 = i /\ 1 \in 1..(j - i)
      BY <1>3, <1>4
    <2>2. w[1] = s[i]
      BY <1>5, <2>1
    <2>3. Len(w) # 0
      BY <1>5, <2>1
    <2> QED
      BY <1>3, <2>2, <2>3
  <1> QED
    BY <1>1, <1>4, <1>5, <1>7, <1>8 DEF IsToken

LEMMA TokenIsRead ==
    ASSUME NEW Ch, NEW t, Text(t, Ch), NEW w, IsToken(w), NEW p, Holds(t, p, w),
           peek(t, p + Len(w)) \notin isTokenChar
    PROVE  /\ parseToken(t, p) = IF ~Exceeds(Len(w), Limits.MaxTokenLength)
                                 THEN Got([tok |-> w], p + Len(w)) ELSE Fail
           /\ peek(t, p) \in isAlpha \cup {"*"}
  <1> DEFINE j == p + Len(w)
  <1>1. w \in Seq(isTokenChar) /\ Len(w) \in Nat \ {0} /\ \A m \in 1..Len(w) : w[m] \in isTokenChar
    BY DEF IsToken
  <1>2. \A m \in 1..Len(w) : t[(p - 1) + m] = w[m] /\ peek(t, (p - 1) + m) = w[m]
    BY <1>1, HeldAt
  <1>3. p \in Offsets(t) /\ j \in Offsets(t) /\ Len(t) \in Nat /\ p \in Nat \ {0} /\ 1 \in 1..Len(w)
    <2>1. 1 \in 1..Len(w)
      BY <1>1
    <2> QED
      BY <1>1, <2>1, HeldAt DEF Holds
  <1>4. j \in (p + 1)..(Len(t) + 1) /\ p + 1 \in Offsets(t) /\ j - p = Len(w)
    BY <1>1, <1>3 DEF Offsets
  <1>5. ASSUME NEW m \in (p + 1)..(j - 1) PROVE t[m] \in isTokenChar
    <2>1. m - p + 1 \in 1..Len(w) /\ (p - 1) + (m - p + 1) = m
      BY <1>1, <1>3, <1>4
    <2> QED
      BY <1>1, <1>2, <2>1
  <1>6. "EOF" \notin isTokenChar
    BY TokenClasses, Zenon DEF Ends
  <1> HIDE DEF j
  <1>7. Span(t, p + 1, isTokenChar) = j
    <2>1. peek(t, j) \notin isTokenChar
      BY DEF j
    <2> QED
      BY <1>4, <1>5, <1>6, <2>1, SpanPeeks
  <1>8. SubSeq(t, p, j - 1) = w
    BY <1>1, <1>3, HeldText DEF j
  <1>9. peek(t, p) = w[1]
    <2>1. (p - 1) + 1 = p
      BY <1>3
    <2> QED
      BY <1>2, <1>3, <2>1
  <1>10. peek(t, p) \in isAlpha \cup {"*"}
    BY <1>9 DEF IsToken
  <1> QED
    BY <1>4, <1>7, <1>8, <1>10 DEF parseToken, j

LEMMA TokReturns ==
    ASSUME NEW Ch, NEW s, Text(s, Ch), NEW i \in Offsets(s), peek(s, i) \in isAlpha \cup {"*"}
    PROVE  Returns(s, i, Ch)
  <1>1. parseBareItem(s, i) = parseToken(s, i)
    BY Dispatch
  <1> SUFFICES ASSUME parseToken(s, i) # Fail PROVE Returns(s, i, Ch)
    BY <1>1 DEF Returns
  <1>2. PICK w, j : /\ parseToken(s, i) = Got([tok |-> w], j) /\ w = SubSeq(s, i, j - 1)
                    /\ j \in (i + 1)..(Len(s) + 1) /\ IsToken(w)
                    /\ ~Exceeds(Len(w), Limits.MaxTokenLength)
                    /\ peek(s, j) \notin isTokenChar
    BY TokenReads
  <1> DEFINE v == [tok |-> w]
  <1>3. TokSpelt(w, v) /\ BareWithin(v) /\ MayFollow(v, peek(s, j))
    BY <1>2, KindsWithin, KindsFollowed DEF TokSpelt
  <1>4. parseBareItem(s, i) = Got(v, j)
    BY <1>1, <1>2
  <1> HIDE DEF v
  <1>5. IsBare(s, i, v, j, Ch)
    BY <1>2, <1>3 DEF IsBare, Spelt
  <1> QED
    BY <1>4, <1>5 DEF Returns

LEMMA TokIsReturned ==
    ASSUME NEW Ch, NEW t, Text(t, Ch), NEW w, NEW v, TokSpelt(w, v), NEW p, Holds(t, p, w),
           MayFollow(v, peek(t, p + Len(w)))
    PROVE  IsReturned(t, p, w, v)
  <1>1. IsToken(w) /\ v = [tok |-> w]
    BY DEF TokSpelt
  <1>2. peek(t, p + Len(w)) \notin isTokenChar
    BY <1>1, KindsFollowed
  <1>3. /\ parseToken(t, p) = IF ~Exceeds(Len(w), Limits.MaxTokenLength)
                              THEN Got([tok |-> w], p + Len(w)) ELSE Fail
        /\ peek(t, p) \in isAlpha \cup {"*"}
    BY <1>1, <1>2, TokenIsRead
  <1>4. parseBareItem(t, p) = parseToken(t, p)
    BY <1>3, Dispatch
  <1>5. BareWithin(v) <=> ~Exceeds(Len(w), Limits.MaxTokenLength)
    BY <1>1, KindsWithin
  <1> QED
    BY <1>1, <1>3, <1>4, <1>5 DEF IsReturned

\* A text of characters of one class.
LEMMA InClass ==
    ASSUME NEW Ch, NEW s, Text(s, Ch), NEW i \in Offsets(s), NEW j \in i..(Len(s) + 1), NEW C,
           \A m \in i..(j - 1) : s[m] \in C
    PROVE  SubSeq(s, i, j - 1) \in Seq(C) /\ Len(SubSeq(s, i, j - 1)) = j - i
  <1> DEFINE w == SubSeq(s, i, j - 1)
  <1>1. w \in Seq(Ch) /\ Len(w) = j - i /\ \A m \in 1..(j - i) : w[m] = s[(i - 1) + m]
    BY Between
  <1>2. i \in Nat \ {0} /\ j - i \in Nat
    BY DEF Offsets, Text
  <1> HIDE DEF w
  <1>3. ASSUME NEW m \in 1..Len(w) PROVE w[m] \in C
    <2>1. (i - 1) + m \in i..(j - 1)
      BY <1>1, <1>2
    <2> QED
      BY <1>1, <2>1
  <1>4. w = [m \in 1..Len(w) |-> w[m]] /\ Len(w) \in Nat
    BY <1>1, <1>2
  <1>5. w \in Seq(C)
    BY ONLY <1>3, <1>4
  <1> QED
    BY <1>1, <1>5 DEF w

\* A text of characters of one class is what a span finds where something else
\* follows it.
LEMMA SpanOver ==
    ASSUME NEW Ch, NEW t, Text(t, Ch), NEW C, "EOF" \notin C, NEW w \in Seq(C), NEW p \in Offsets(t),
           Holds(t, p, w), peek(t, p + Len(w)) \notin C
    PROVE  Span(t, p, C) = p + Len(w) /\ SubSeq(t, p, (p + Len(w)) - 1) = w
  <1> DEFINE j == p + Len(w)
  <1>1. Len(w) \in Nat /\ (\A m \in 1..Len(w) : w[m] \in C) /\ Len(t) \in Nat /\ p \in Nat \ {0}
    BY DEF Offsets, Text
  <1>2. j \in p..(Len(t) + 1)
    BY <1>1 DEF Holds
  <1>3. ASSUME NEW m \in p..(j - 1) PROVE t[m] \in C
    <2>1. m - p + 1 \in 1..Len(w) /\ (p - 1) + (m - p + 1) = m
      BY <1>1
    <2>2. t[(p - 1) + (m - p + 1)] = w[m - p + 1]
      BY <2>1 DEF Holds
    <2> QED
      BY <1>1, <2>1, <2>2
  <1>4. peek(t, j) \notin C
    OBVIOUS
  <1> HIDE DEF j
  <1>5. Span(t, p, C) = j
    BY <1>2, <1>3, <1>4, SpanPeeks
  <1> QED
    BY <1>5, HeldText DEF j

LEMMA IntReturns ==
    ASSUME NEW Ch, NEW s, Text(s, Ch), NEW i \in Offsets(s), peek(s, i) \in {"-"} \cup isDigit
    PROVE  Returns(s, i, Ch)
  <1> DEFINE start == IF s[i] = "-" THEN i + 1 ELSE i
             end   == Span(s, start, isDigit)
             d     == SubSeq(s, start, end - 1)
             n     == ParseInt(d)
             v     == [int |-> IF s[i] = "-" THEN -n ELSE n]
             w     == SubSeq(s, i, end - 1)
  <1>1. parseBareItem(s, i) = parseInteger(s, i)
    BY Dispatch
  <1>2. parseInteger(s, i) = IF end = start \/ end - start > MaxDigits THEN Fail ELSE Got(v, end)
    BY DEF parseInteger
  <1> SUFFICES ASSUME ~(end = start \/ end - start > MaxDigits) PROVE IsBare(s, i, v, end, Ch)
    BY <1>1, <1>2 DEF Returns
  <1>3. "EOF" \notin isDigit /\ "-" \notin isDigit /\ "-" # "EOF"
    BY TokenClasses, StarterClasses, Zenon DEF Ends
  <1>4. i \in 1..Len(s) /\ s[i] = peek(s, i) /\ i + 1 \in Offsets(s) /\ Len(s) \in Nat
    BY <1>3, PeekIs DEF Offsets, Text
  <1>5. start \in {i, i + 1} /\ start \in Offsets(s)
    BY <1>4
  <1>6. /\ end \in start..(Len(s) + 1) /\ peek(s, end) \notin isDigit
        /\ \A m \in start..(end - 1) : s[m] \in isDigit
    <2> HIDE DEF start
    <2> QED
      BY <1>3, <1>5, SpanPeeks
  <1>7. d \in Seq(isDigit) /\ Len(d) = end - start
    <2> HIDE DEF end, start
    <2> QED
      BY <1>5, <1>6, InClass
  <1> HIDE DEF end
  <1>8. end \in (i + 1)..(Len(s) + 1) /\ end - start \in 1..MaxDigits
    <2>1. end - start \in Nat /\ end - start # 0
      BY <1>4, <1>5, <1>6
    <2> QED
      BY <1>4, <1>5, <1>6, <2>1, FieldsAssumption
  <1>9. d \in Numerals
    <2> HIDE DEF d, start
    <2> QED
      BY <1>7, <1>8, NumeralsAreDigits
  <1>10. CASE s[i] = "-"
    <2>1. start = i + 1 /\ v = [int |-> -n]
      BY <1>10
    <2>2. w = <<"-">> \o d
      <3> DEFINE u == <<"-">>
      <3>1. u \in Seq({"-"}) /\ Len(u) = 1
        OBVIOUS
      <3>2. Holds(s, i, u)
        BY <1>4, <1>10, HoldsOne DEF Offsets, Text
      <3>3. Holds(s, i + 1, d)
        <4> HIDE DEF start
        <4> QED
          BY <1>4, <1>6, <2>1, Between
      <3> HIDE DEF u, d, start
      <3>4. u \in Seq({"-"} \cup isDigit) /\ d \in Seq({"-"} \cup isDigit)
        BY <1>7, <3>1
      <3>5. Holds(s, i, u \o d)
        BY <3>1, <3>2, <3>3, <3>4, HoldsParts
      <3>6. Len(u \o d) = end - i /\ u \o d \in Seq({"-"} \cup isDigit)
        <4>1. Len(u \o d) = Len(u) + Len(d) /\ u \o d \in Seq({"-"} \cup isDigit)
          BY <3>4
        <4>2. Len(d) = end - (i + 1) /\ i \in Nat /\ end \in Nat
          BY <1>4, <1>7, <1>8, <2>1
        <4>3. Len(u) + Len(d) = end - i
          BY <3>1, <4>2
        <4> QED
          BY <4>1, <4>3
      <3>7. i + Len(u \o d) = end
        BY <1>4, <1>8, <3>6
      <3>8. SubSeq(s, i, (i + Len(u \o d)) - 1) = u \o d
        BY <3>5, <3>6, HeldText
      <3> QED
        BY <3>7, <3>8 DEF u
    <2> HIDE DEF d, w, v, n, start
    <2>3. IntSpelt(w, v)
      BY <1>9, <2>1, <2>2 DEF IntSpelt, n
    <2>4. BareWithin(v) /\ MayFollow(v, peek(s, end))
      BY <1>6, <2>1, KindsWithin, KindsFollowed
    <2> QED
      BY <1>8, <2>3, <2>4 DEF IsBare, Spelt, w
  <1>11. CASE s[i] # "-"
    <2>1. start = i /\ v = [int |-> n]
      BY <1>11
    <2>2. w = d
      BY <2>1
    <2> HIDE DEF d, w, v, n, start
    <2>3. IntSpelt(w, v)
      BY <1>9, <2>1, <2>2 DEF IntSpelt, n
    <2>4. BareWithin(v) /\ MayFollow(v, peek(s, end))
      BY <1>6, <2>1, KindsWithin, KindsFollowed
    <2> QED
      BY <1>8, <2>3, <2>4 DEF IsBare, Spelt, w
  <1> QED
    BY <1>10, <1>11

LEMMA IntIsReturned ==
    ASSUME NEW Ch, NEW t, Text(t, Ch), NEW w, NEW v, IntSpelt(w, v), NEW p, Holds(t, p, w),
           MayFollow(v, peek(t, p + Len(w)))
    PROVE  IsReturned(t, p, w, v)
  <1>1. PICK d \in Numerals : \/ w = d /\ v = [int |-> ParseInt(d)]
                              \/ w = <<"-">> \o d /\ v = [int |-> -ParseInt(d)]
    BY DEF IntSpelt
  <1>2. d \in Seq(isDigit) /\ Len(d) \in 1..MaxDigits /\ MaxDigits \in Nat
    BY NumeralsAreDigits, FieldsAssumption
  <1>3. "EOF" \notin isDigit /\ "-" \notin isDigit /\ "-" # "EOF"
    BY TokenClasses, StarterClasses, Zenon DEF Ends
  <1>4. peek(t, p + Len(w)) \notin isDigit /\ BareWithin(v)
    BY <1>1, KindsFollowed, KindsWithin
  <1>5. ASSUME NEW start \in Offsets(t), start \in {p, p + 1}, start = (IF t[p] = "-" THEN p + 1 ELSE p),
               Holds(t, start, d), start + Len(d) = p + Len(w),
               peek(t, p) \in {"-"} \cup isDigit,
               v = [int |-> IF t[p] = "-" THEN -ParseInt(d) ELSE ParseInt(d)]
        PROVE  IsReturned(t, p, w, v)
    <2> DEFINE end == start + Len(d)
    <2>1. Span(t, start, isDigit) = end /\ SubSeq(t, start, end - 1) = d
      BY <1>2, <1>3, <1>4, <1>5, SpanOver
    <2>2. end # start /\ ~(end - start > MaxDigits)
      <3>1. start \in Nat /\ Len(d) \in 1..MaxDigits
        BY <1>2 DEF Offsets, Text
      <3> QED
        BY <1>2, <3>1
    <2> HIDE DEF end
    <2>3. parseInteger(t, p) = Got(v, end)
      BY <1>5, <2>1, <2>2 DEF parseInteger
    <2>4. parseBareItem(t, p) = parseInteger(t, p)
      BY <1>5, Dispatch
    <2> QED
      BY <1>4, <1>5, <2>3, <2>4 DEF IsReturned, end
  <1>6. CASE w = d /\ v = [int |-> ParseInt(d)]
    <2>1. 1 \in 1..Len(w) /\ Len(w) \in Nat /\ w[1] \in isDigit
      BY <1>2, <1>6
    <2>2. p \in Offsets(t) /\ peek(t, (p - 1) + 1) = w[1] /\ t[(p - 1) + 1] = w[1]
      BY <2>1, HeldAt
    <2>3. (p - 1) + 1 = p
      BY <2>2 DEF Offsets, Text
    <2>4. t[p] # "-" /\ peek(t, p) \in isDigit
      BY <1>3, <2>1, <2>2, <2>3
    <2> QED
      BY <1>5, <1>6, <2>2, <2>4
  <1>7. CASE w = <<"-">> \o d /\ v = [int |-> -ParseInt(d)]
    <2> DEFINE u == <<"-">>
    <2>1. u \in Seq({"-"} \cup isDigit) /\ d \in Seq({"-"} \cup isDigit) /\ Len(u) = 1 /\ w = u \o d
      BY <1>2, <1>7
    <2>2. Holds(t, p, u) /\ Holds(t, p + 1, d) /\ Len(w) = 1 + Len(d)
      <3> HIDE DEF u
      <3>1. Holds(t, p, u) /\ Holds(t, p + Len(u), d)
        BY <2>1, HoldsParts
      <3> DEFINE T == {"-"} \cup isDigit
      <3>3. u \in Seq(T) /\ d \in Seq(T)
        BY <2>1
      <3> HIDE DEF T
      <3>2. Len(u \o d) = Len(u) + Len(d)
        BY ONLY <3>3
      <3> QED
        BY <2>1, <3>1, <3>2
    <2>3. t[p] = "-" /\ p \in 1..Len(t) /\ Len(t) \in Nat
      BY <2>2, HoldsOne DEF Text
    <2>4. peek(t, p) = "-" /\ p + 1 \in Offsets(t)
      BY <2>3 DEF peek, Offsets
    <2>5. (p + 1) + Len(d) = p + Len(w)
      BY <1>2, <2>2, <2>3
    <2> QED
      BY <1>5, <1>7, <2>2, <2>3, <2>4, <2>5
  <1> QED
    BY <1>1, <1>6, <1>7

-----------------------------------------------------------------------------
(* Strings.                                                                *)

Escaped(c) == IF c \in {Quote, Escape} THEN <<Escape, c>> ELSE <<c>>
Escapes(x) == [k \in 1..Len(x) |-> Escaped(x[k])]

LEMMA WriteStringIs ==
    \A x : writeString(x) = <<Quote>> \o FlattenSeq(Escapes(x)) \o <<Quote>>
  BY Zenon DEF writeString, Escapes, Escaped

LEMMA EscapesTyped ==
    ASSUME NEW S, NEW x \in Seq(S)
    PROVE  /\ Escapes(x) \in Seq(Seq(S \cup {Quote, Escape})) /\ Len(Escapes(x)) = Len(x)
           /\ \A k \in 1..Len(x) : /\ Escapes(x)[k] = Escaped(x[k])
                                   /\ Len(Escapes(x)[k]) = IF x[k] \in {Quote, Escape} THEN 2 ELSE 1
  <1> DEFINE T == S \cup {Quote, Escape}
             e == Escapes(x)
  <1>1. \A c \in S : Escaped(c) \in Seq(T) /\ Len(Escaped(c)) = IF c \in {Quote, Escape} THEN 2 ELSE 1
    <2>1. ASSUME NEW c \in S
          PROVE  Escaped(c) \in Seq(T) /\ Len(Escaped(c)) = IF c \in {Quote, Escape} THEN 2 ELSE 1
      <3>1. CASE c \in {Quote, Escape}
        <4>1. Escaped(c) = <<Escape, c>> /\ Escape \in T /\ c \in T
          BY <3>1 DEF Escaped
        <4> HIDE DEF T
        <4> QED
          BY <3>1, <4>1
      <3>2. CASE c \notin {Quote, Escape}
        <4>1. Escaped(c) = <<c>> /\ c \in T
          BY <3>2 DEF Escaped
        <4> HIDE DEF T
        <4> QED
          BY <3>2, <4>1
      <3> QED
        BY <3>1, <3>2
    <2> QED
      BY <2>1
  <1>2. Len(x) \in Nat /\ \A k \in 1..Len(x) : x[k] \in S
    OBVIOUS
  <1>3. e = [k \in 1..Len(x) |-> Escaped(x[k])]
    BY DEF Escapes
  <1> HIDE DEF T, e
  <1>4. e \in Seq(Seq(T)) /\ Len(e) = Len(x) /\ \A k \in 1..Len(x) : e[k] = Escaped(x[k])
    BY <1>1, <1>2, <1>3
  <1> QED
    BY <1>1, <1>2, <1>4 DEF e, T

\* The text of a string, part by part.
LEMMA HoldsString ==
    ASSUME NEW Ch, NEW t, Text(t, Ch), NEW S, NEW x \in Seq(S), NEW p
    PROVE  LET f == FlattenSeq(Escapes(x))
           IN  /\ Holds(t, p, writeString(x)) <=>
                    /\ Holds(t, p, <<Quote>>) /\ Holds(t, p + 1, f)
                    /\ Holds(t, (p + 1) + Len(f), <<Quote>>)
               /\ Len(writeString(x)) = Len(f) + 2 /\ Len(f) \in Nat
               /\ writeString(x) \in Seq(S \cup {Quote, Escape})
  <1> DEFINE T == S \cup {Quote, Escape}
             f == FlattenSeq(Escapes(x))
             q == <<Quote>>
             w == writeString(x)
  <1>1. f \in Seq(T)
    <2>1. Escapes(x) \in Seq(Seq(T))
      BY EscapesTyped
    <2> DEFINE v == Escapes(x)
    <2> HIDE DEF v
    <2>2. PICK h : FlattenSeq(v) = h[Len(v)] /\ \A n \in 0..Len(v) : h[n] \in Seq(T)
      BY <2>1, FlatSteps DEF v
    <2>3. Len(v) \in 0..Len(v)
      BY <2>1 DEF v
    <2> QED
      BY <2>2, <2>3 DEF v
  <1>2. q \in Seq(T) /\ Len(q) = 1
    OBVIOUS
  <1>3. w = (q \o f) \o q
    BY WriteStringIs
  <1> HIDE DEF f, q, T, w
  <1>4. /\ q \o f \in Seq(T) /\ Len(q \o f) = 1 + Len(f) /\ Len(f) \in Nat
        /\ w \in Seq(T) /\ Len(w) = Len(f) + 2
    <2>1. q \o f \in Seq(T) /\ Len(q \o f) = Len(q) + Len(f) /\ Len(f) \in Nat
      <3>1. q \in Seq(T) /\ f \in Seq(T)
        BY <1>1, <1>2
      <3>2. q \o f \in Seq(T) /\ Len(q \o f) = Len(q) + Len(f)
        BY ONLY <3>1, ConcatProperties
      <3>3. Len(f) \in Nat
        BY ONLY <3>1
      <3> QED
        BY <3>2, <3>3
    <2> DEFINE a == q \o f
    <2> HIDE DEF a
    <2>2. a \in Seq(T) /\ w = a \o q
      BY <1>3, <2>1 DEF a
    <2>3. w \in Seq(T) /\ Len(w) = Len(a) + Len(q)
      BY ONLY <1>2, <2>2, ConcatProperties
    <2> QED
      BY <1>2, <2>1, <2>3 DEF a
  <1>5. Holds(t, p, w) <=> Holds(t, p, q \o f) /\ Holds(t, p + Len(q \o f), q)
    BY <1>2, <1>3, <1>4, HoldsParts
  <1>6. Holds(t, p, q \o f) <=> Holds(t, p, q) /\ Holds(t, p + Len(q), f)
    BY <1>1, <1>2, HoldsParts
  <1>7. Holds(t, p, q) => p \in Nat
    BY DEF Holds
  <1>8. p \in Nat => p + Len(q \o f) = (p + 1) + Len(f) /\ p + Len(q) = p + 1
    BY <1>2, <1>4
  <1> QED
    BY <1>4, <1>5, <1>6, <1>7, <1>8 DEF f, q, w, T

LEMMA Printables ==
    /\ Quote \notin Unprintables /\ Escape \notin Unprintables
    /\ Quote # "EOF" /\ Escape # "EOF" /\ Quote # Escape
  BY DelimitersDiffer, Zenon DEF Unprintables

LEMMA CharacterReads ==
    ASSUME NEW Ch, NEW s, Text(s, Ch), NEW i \in Offsets(s)
    PROVE  LET x == parseCharacter(s, i).val
               j == parseCharacter(s, i).at
           IN  \/ parseCharacter(s, i) = Fail
               \/ /\ parseCharacter(s, i) = Got(x, j) /\ j \in (i + 1)..(Len(s) + 1)
                  /\ x \in Ch \ Unprintables
                  /\ peek(s, i) # Quote => Holds(s, i, Escaped(x)) /\ j = i + Len(Escaped(x))
  <1> DEFINE c == peek(s, i)
             d == peek(s, i + 1)
             r == parseCharacter(s, i)
  <1>1. r = IF c = "EOF" \/ c \in Unprintables \/ (c = Escape /\ d \notin {Quote, Escape}) THEN Fail
            ELSE IF c = Escape THEN Got(d, i + 2) ELSE Got(c, i + 1)
    BY DEF parseCharacter
  <1>2. i \in Nat \ {0} /\ Len(s) \in Nat
    BY DEF Offsets, Text
  <1>3. CASE c # "EOF" /\ c \notin Unprintables /\ c = Escape /\ d \in {Quote, Escape}
    <2>1. r = Got(d, i + 2) /\ r.val = d /\ r.at = i + 2
      BY <1>1, <1>3, Results
    <2>2. i \in 1..Len(s) /\ s[i] = Escape
      BY <1>2, <1>3, PeekIs
    <2>3. i + 1 \in 1..Len(s) /\ s[i + 1] = d /\ d \in Ch
      BY <1>2, <1>3, PeekIs, Printables
    <2>4. i + 2 \in (i + 1)..(Len(s) + 1) /\ d \in Ch \ Unprintables
      BY <1>2, <1>3, <2>3, Printables
    <2> HIDE DEF d
    <2>5. Escaped(d) = <<Escape, d>>
      BY <1>3 DEF Escaped
    <2>6. Holds(s, i, <<Escape, d>>) /\ Len(<<Escape, d>>) = 2
      <3> DEFINE w == <<Escape, d>>
      <3>1. Len(w) = 2 /\ w[1] = Escape /\ w[2] = d
        OBVIOUS
      <3> HIDE DEF w
      <3>2. i + Len(w) <= Len(s) + 1
        BY <1>2, <2>3, <3>1
      <3>3. ASSUME NEW m \in 1..Len(w) PROVE s[(i - 1) + m] = w[m]
        <4>1. m = 1 \/ m = 2
          BY <3>1
        <4>2. (i - 1) + 1 = i /\ (i - 1) + 2 = i + 1
          BY <1>2
        <4> QED
          BY <2>2, <2>3, <3>1, <4>1, <4>2
      <3> QED
        BY <1>2, <3>1, <3>2, <3>3 DEF Holds, w
    <2> HIDE DEF r, c
    <2> QED
      BY <2>1, <2>4, <2>5, <2>6 DEF r
  <1>4. CASE c # "EOF" /\ c \notin Unprintables /\ c # Escape
    <2>1. r = Got(c, i + 1) /\ r.val = c /\ r.at = i + 1
      BY <1>1, <1>4, Results
    <2>2. i \in 1..Len(s) /\ s[i] = c /\ c \in Ch
      BY <1>2, <1>4, PeekIs
    <2>3. i + 1 \in (i + 1)..(Len(s) + 1) /\ c \in Ch \ Unprintables
      BY <1>2, <1>4, <2>2
    <2>4. Holds(s, i, <<c>>) /\ Len(<<c>>) = 1
      BY <1>2, <2>2, HoldsOne
    <2>5. c # Quote => Escaped(c) = <<c>>
      BY <1>4 DEF Escaped
    <2> HIDE DEF r
    <2> QED
      BY <2>1, <2>3, <2>4, <2>5 DEF r
  <1>5. CASE c = "EOF" \/ c \in Unprintables \/ (c = Escape /\ d \notin {Quote, Escape})
    BY <1>1, <1>5
  <1> QED
    BY <1>3, <1>4, <1>5

LEMMA CharacterIsRead ==
    ASSUME NEW Ch, NEW t, Text(t, Ch), NEW p, NEW c, c \notin Unprintables, c # "EOF",
           Holds(t, p, Escaped(c))
    PROVE  /\ parseCharacter(t, p) = Got(c, p + Len(Escaped(c))) /\ peek(t, p) # Quote
           /\ p \in Offsets(t)
  <1>1. CASE c \in {Quote, Escape}
    <2> DEFINE w == <<Escape, c>>
    <2>1. Escaped(c) = w
      BY <1>1 DEF Escaped
    <2>2. Len(w) = 2 /\ w[1] = Escape /\ w[2] = c /\ 1 \in 1..Len(w) /\ 2 \in 1..Len(w)
      OBVIOUS
    <2> HIDE DEF w
    <2>3. Holds(t, p, w) /\ Len(w) \in Nat
      BY <2>1, <2>2
    <2>4. /\ peek(t, (p - 1) + 1) = Escape /\ peek(t, (p - 1) + 2) = c
          /\ p \in Offsets(t) /\ Len(t) \in Nat
      <3>1. ASSUME NEW m \in 1..Len(w)
            PROVE  peek(t, (p - 1) + m) = w[m] /\ p \in Offsets(t) /\ Len(t) \in Nat
        BY <2>3, HeldAt
      <3>2. \A m \in {1, 2} : peek(t, (p - 1) + m) = w[m] /\ p \in Offsets(t) /\ Len(t) \in Nat
        BY <2>2, <3>1
      <3> QED
        BY <2>2, <3>1, <3>2
    <2>5. (p - 1) + 1 = p /\ (p - 1) + 2 = p + 1
      BY <2>4 DEF Offsets
    <2>6. peek(t, p) = Escape /\ peek(t, p + 1) = c
      BY <2>4, <2>5
    <2> QED
      BY <1>1, <2>1, <2>2, <2>4, <2>6, Printables DEF parseCharacter
  <1>2. CASE c \notin {Quote, Escape}
    <2>1. Escaped(c) = <<c>> /\ Len(<<c>>) = 1
      BY <1>2 DEF Escaped
    <2>2. p \in Nat \ {0} /\ p <= Len(t) /\ t[p] = c /\ Len(t) \in Nat
      BY <2>1, HoldsOne DEF Text
    <2>3. peek(t, p) = c /\ p \in Offsets(t)
      BY <2>2 DEF peek, Offsets
    <2> QED
      BY <1>2, <2>1, <2>3 DEF parseCharacter
  <1> QED
    BY <1>1, <1>2

BeforeQuote(s) == {k \in Offsets(s) : peek(s, k) # Quote}
Characters(s)  == [k \in Offsets(s) |-> parseCharacter(s, k)]

LEMMA CharactersAdvance ==
    ASSUME NEW Ch, NEW s, Text(s, Ch)
    PROVE  Len(s) \in Nat /\ Advances(s, BeforeQuote(s), Characters(s))
  <1>1. ASSUME NEW k \in Offsets(s) PROVE IsRead(Characters(s)[k], k, s)
    <2>1. Characters(s)[k] = parseCharacter(s, k)
      BY DEF Characters
    <2> QED
      BY <2>1, CharacterReads DEF IsRead
  <1> QED
    BY <1>1 DEF Advances, Text

LEMMA ParseStringIs ==
    ASSUME NEW s, NEW i
    PROVE  parseString(s, i) =
             Then(Rounds(s, i + 1, BeforeQuote(s), Characters(s)), LAMBDA str, end :
               IF Exceeds(end - (i + 1), Limits.MaxStringLength) THEN Fail
               ELSE Got([str |-> str], end + 1))
  BY DEF parseString, BeforeQuote, Characters

LEMMA StrReturns ==
    ASSUME NEW Ch, NEW s, Text(s, Ch), NEW i \in Offsets(s), peek(s, i) = Quote
    PROVE  Returns(s, i, Ch)
  <1> DEFINE more  == BeforeQuote(s)
             round == Characters(s)
             r     == Rounds(s, i + 1, more, round)
  <1>1. parseBareItem(s, i) = parseString(s, i)
    BY Dispatch
  <1>2. parseString(s, i) = Then(r, LAMBDA str, end :
               IF Exceeds(end - (i + 1), Limits.MaxStringLength) THEN Fail
               ELSE Got([str |-> str], end + 1))
    BY ParseStringIs
  <1>3. Len(s) \in Nat /\ Advances(s, more, round)
    BY CharactersAdvance
  <1>4. i \in 1..Len(s) /\ i \in Nat \ {0} /\ s[i] = Quote /\ i + 1 \in Offsets(s)
    BY PeekIs, Printables DEF Offsets, Text
  <1> HIDE DEF more, round
  <1>5. CASE r = Fail
    BY <1>1, <1>2, <1>5, Results DEF Then, Returns
  <1>6. ASSUME NEW at, NEW xs, xs \in Seq(Readings(s, round)), at[0] = i + 1,
               Passes(s, more, round, at, xs),
               at[Len(xs)] \in (i + 1)..(Len(s) + 1), at[Len(xs)] \notin more,
               r = Got(xs, at[Len(xs)]), parseBareItem(s, i) # Fail
        PROVE  Returns(s, i, Ch)
    <2> DEFINE n == Len(xs)
               e == at[n]
               v == [str |-> xs]
               w == writeString(xs)
               f == FlattenSeq(Escapes(xs))
    <2>1. n \in Nat
      BY <1>6
    <2>2. ~Exceeds(e - (i + 1), Limits.MaxStringLength) /\ parseBareItem(s, i) = Got(v, e + 1)
      <3> HIDE DEF e, v
      <3>1. r = Got(xs, e)
        BY <1>6 DEF e
      <3> HIDE DEF r
      <3>2. parseString(s, i) = IF Exceeds(e - (i + 1), Limits.MaxStringLength) THEN Fail
                                ELSE Got([str |-> xs], e + 1)
        BY <1>2, <3>1, Results DEF Then
      <3> QED
        BY <1>1, <1>6, <3>2 DEF v
    <2>3. ASSUME NEW k \in 1..n
          PROVE  /\ at[k - 1] \in Offsets(s) /\ xs[k] \in Ch \ Unprintables
                 /\ Holds(s, at[k - 1], Escaped(xs[k])) /\ at[k] = at[k - 1] + Len(Escaped(xs[k]))
      <3>1. at[k - 1] \in Offsets(s) /\ at[k - 1] \in more /\ round[at[k - 1]] = Got(xs[k], at[k])
        BY <1>6 DEF Passes
      <3> DEFINE p == at[k - 1]
      <3>2. p \in Offsets(s) /\ peek(s, p) # Quote /\ parseCharacter(s, p) = Got(xs[k], at[k])
        BY <3>1 DEF more, round, BeforeQuote, Characters
      <3> HIDE DEF p
      <3>3. /\ parseCharacter(s, p) # Fail /\ parseCharacter(s, p).val = xs[k]
            /\ parseCharacter(s, p).at = at[k]
        BY <3>2, Results
      <3>4. xs[k] \in Ch \ Unprintables /\ Holds(s, p, Escaped(xs[k]))
            /\ at[k] = p + Len(Escaped(xs[k]))
        BY <3>2, <3>3, CharacterReads
      <3> QED
        BY <3>2, <3>4 DEF p
    <2>4. xs \in Seq(Ch \ Unprintables)
      <3>1. xs = [k \in 1..Len(xs) |-> xs[k]] /\ Len(xs) \in Nat
        BY <1>6
      <3>2. \A k \in 1..Len(xs) : xs[k] \in Ch \ Unprintables
        BY <2>3
      <3> QED
        BY ONLY <3>1, <3>2
    <2>5. /\ Escapes(xs) \in Seq(Seq((Ch \ Unprintables) \cup {Quote, Escape})) /\ Len(Escapes(xs)) = n
          /\ \A k \in 1..n : Escapes(xs)[k] = Escaped(xs[k])
      BY <2>4, EscapesTyped
    <2>6. e \in Offsets(s) /\ e \notin more
      BY <1>4, <1>6 DEF Offsets
    <2>7. \A k \in 0..n : at[k] \in Offsets(s)
      <3>1. ASSUME NEW k \in 0..n PROVE at[k] \in Offsets(s)
        <4>1. CASE k = n
          BY <2>6, <4>1
        <4>2. CASE k # n
          <5>1. k + 1 \in 1..n /\ (k + 1) - 1 = k
            BY <2>1, <4>2
          <5>2. at[(k + 1) - 1] \in Offsets(s)
            BY <2>3, <5>1
          <5> QED
            BY <5>1, <5>2
        <4> QED
          BY <4>1, <4>2
      <3> QED
        BY <3>1
    <2>8. Places(at, s, Escapes(xs))
      BY <2>3, <2>5, <2>7 DEF Places
    <2>9. Holds(s, i + 1, f) /\ e = (i + 1) + Len(f)
      <3> DEFINE es == Escapes(xs)
      <3>1. es \in Seq(Seq((Ch \ Unprintables) \cup {Quote, Escape})) /\ Places(at, s, es) /\ Len(es) = n
        BY <2>5, <2>8
      <3> HIDE DEF es, n
      <3>2. Holds(s, at[0], FlattenSeq(es)) /\ at[Len(es)] = at[0] + Len(FlattenSeq(es))
        BY <3>1, PlacedFlat
      <3> QED
        BY <1>6, <3>1, <3>2 DEF es, n
    <2>10. Holds(s, e, <<Quote>>) /\ e \in 1..Len(s)
      <3> HIDE DEF e
      <3>1. peek(s, e) = Quote /\ e \in Nat \ {0}
        BY <2>6 DEF more, BeforeQuote, Offsets, Text
      <3>2. e \in 1..Len(s) /\ s[e] = Quote
        BY <3>1, PeekIs, Printables
      <3> QED
        BY <3>1, <3>2, HoldsOne
    <2>11. Holds(s, i, <<Quote>>)
      BY <1>4, HoldsOne
    <2> HIDE DEF e, n
    <2>12. /\ Holds(s, i, w) /\ Len(w) = Len(f) + 2 /\ Len(f) \in Nat
           /\ w \in Seq((Ch \ Unprintables) \cup {Quote, Escape})
      BY <2>4, <2>9, <2>10, <2>11, HoldsString
    <2> HIDE DEF f, w
    <2>13. e + 1 = i + Len(w) /\ e - (i + 1) = Len(w) - 2 /\ e + 1 \in (i + 1)..(Len(s) + 1)
           /\ (e + 1) - 1 = (i + Len(w)) - 1
      BY <1>3, <1>4, <2>9, <2>10, <2>12
    <2>14. SubSeq(s, i, (e + 1) - 1) = w
      BY <2>12, <2>13, HeldText
    <2>15. StrSpelt(w, v, Ch)
      BY <2>4 DEF StrSpelt, w
    <2>16. BareWithin(v) /\ MayFollow(v, peek(s, e + 1))
      BY <2>2, <2>13, KindsWithin, KindsFollowed DEF w
    <2> HIDE DEF v
    <2>17. IsBare(s, i, v, e + 1, Ch)
      BY <2>13, <2>14, <2>15, <2>16 DEF IsBare, Spelt
    <2> QED
      BY <2>2, <2>17 DEF Returns
  <1>7. \/ r = Fail
        \/ \E at, xs : /\ xs \in Seq(Readings(s, round)) /\ at[0] = i + 1
                       /\ Passes(s, more, round, at, xs)
                       /\ at[Len(xs)] \in (i + 1)..(Len(s) + 1) /\ at[Len(xs)] \notin more
                       /\ r = Got(xs, at[Len(xs)])
    BY <1>3, <1>4, RoundsRead
  <1> HIDE DEF r
  <1> QED
    BY <1>5, <1>6, <1>7 DEF Returns

LEMMA StrIsReturned ==
    ASSUME NEW Ch, NEW t, Text(t, Ch), NEW S, "EOF" \notin S, NEW w, NEW v, StrSpelt(w, v, S),
           NEW p, Holds(t, p, w)
    PROVE  IsReturned(t, p, w, v)
  <1>1. PICK x \in Seq(S \ Unprintables) : v = [str |-> x] /\ w = writeString(x)
    BY DEF StrSpelt
  <1> DEFINE f     == FlattenSeq(Escapes(x))
             n     == Len(x)
             more  == BeforeQuote(t)
             round == Characters(t)
             r     == Rounds(t, p + 1, more, round)
             e     == (p + 1) + Len(f)
             es    == Escapes(x)
  <1>2. /\ Holds(t, p, <<Quote>>) /\ Holds(t, p + 1, f) /\ Holds(t, e, <<Quote>>)
        /\ Len(w) = Len(f) + 2 /\ Len(f) \in Nat
    BY <1>1, HoldsString
  <1>3. /\ es \in Seq(Seq((S \ Unprintables) \cup {Quote, Escape})) /\ Len(es) = n
        /\ \A k \in 1..n : es[k] = Escaped(x[k])
    BY EscapesTyped
  <1>4. PICK q : Places(q, t, es) /\ q[0] = p + 1 /\ q[n] = e
    <2> HIDE DEF es
    <2>1. Holds(t, p + 1, FlattenSeq(es))
      BY <1>2 DEF es
    <2>2. \E q : Places(q, t, es) /\ q[0] = p + 1 /\ q[Len(es)] = (p + 1) + Len(FlattenSeq(es))
      BY <1>3, <2>1, FlatPlaces
    <2> QED
      BY <1>3, <2>2 DEF es
  <1> HIDE DEF e, f
  <1>5. ASSUME NEW k \in 1..n
        PROVE  q[k - 1] \in Offsets(t) /\ q[k - 1] \in more /\ round[q[k - 1]] = Got(x[k], q[k])
    <2>1. Holds(t, q[k - 1], Escaped(x[k])) /\ q[k] = q[k - 1] + Len(Escaped(x[k]))
      BY <1>3, <1>4 DEF Places
    <2>2. x[k] \in S \ Unprintables
      OBVIOUS
    <2>3. x[k] \notin Unprintables /\ x[k] # "EOF"
      BY <2>2
    <2>4. /\ parseCharacter(t, q[k - 1]) = Got(x[k], q[k]) /\ peek(t, q[k - 1]) # Quote
          /\ q[k - 1] \in Offsets(t)
      BY <2>1, <2>3, CharacterIsRead
    <2> QED
      BY <2>4 DEF BeforeQuote, Characters
  <1>6. Len(t) \in Nat /\ Advances(t, more, round)
    BY CharactersAdvance
  <1>7. e \in Offsets(t) /\ e \notin more /\ p \in Nat \ {0}
    <2>1. e \in Nat \ {0} /\ e <= Len(t) /\ t[e] = Quote
      BY <1>2, HoldsOne
    <2>2. peek(t, e) = Quote
      BY <1>6, <2>1 DEF peek
    <2> QED
      BY <1>2, <1>6, <2>1, <2>2 DEF BeforeQuote, Offsets, Holds
  <1> HIDE DEF more, round, es
  <1>8. r = Got(x, e)
    <2>1. Passes(t, more, round, q, x)
      BY <1>5 DEF Passes
    <2>2. Rounds(t, q[0], more, round) = Got(x, q[Len(x)])
      <3>1. q[Len(x)] \in Offsets(t) /\ q[Len(x)] \notin more
        BY <1>4, <1>7
      <3> HIDE DEF n
      <3> QED
        BY <1>6, <2>1, <3>1, RoundsAlong
    <2> QED
      BY <1>4, <2>2
  <1>9. parseBareItem(t, p) = parseString(t, p)
    <2>1. p \in Nat \ {0} /\ p <= Len(t) /\ t[p] = Quote
      BY <1>2, HoldsOne
    <2>2. peek(t, p) = Quote
      BY <1>6, <2>1 DEF peek
    <2> QED
      BY <2>2, Dispatch
  <1>10. parseString(t, p) = IF Exceeds(e - (p + 1), Limits.MaxStringLength) THEN Fail
                             ELSE Got([str |-> x], e + 1)
    <2>1. parseString(t, p) = Then(r, LAMBDA str, end :
               IF Exceeds(end - (p + 1), Limits.MaxStringLength) THEN Fail
               ELSE Got([str |-> str], end + 1))
      BY ParseStringIs DEF more, round
    <2> HIDE DEF r
    <2> QED
      BY <1>8, <2>1, Results DEF Then
  <1>11. e - (p + 1) = Len(w) - 2 /\ e + 1 = p + Len(w)
    BY <1>2, <1>7 DEF e
  <1>12. BareWithin(v) <=> ~Exceeds(Len(w) - 2, Limits.MaxStringLength)
    BY <1>1, KindsWithin
  <1> QED
    BY <1>1, <1>9, <1>10, <1>11, <1>12 DEF IsReturned

-----------------------------------------------------------------------------
(* Byte sequences, and bare items of every kind.                           *)

\* The text of a byte sequence, part by part.
LEMMA HoldsBytes ==
    ASSUME NEW Ch, NEW t, Text(t, Ch), NEW S, NEW b \in Seq(S), NEW p
    PROVE  LET w == <<":">> \o b \o <<":">>
           IN  /\ Holds(t, p, w) <=> /\ Holds(t, p, <<":">>) /\ Holds(t, p + 1, b)
                                     /\ Holds(t, (p + 1) + Len(b), <<":">>)
               /\ Len(w) = Len(b) + 2 /\ Len(b) \in Nat /\ w \in Seq(S \cup {":"})
  <1> DEFINE T == S \cup {":"}
             q == <<":">>
             w == (q \o b) \o q
  <1>1. b \in Seq(T)
    OBVIOUS
  <1>2. q \in Seq(T) /\ Len(q) = 1
    OBVIOUS
  <1>3. w = (q \o b) \o q
    OBVIOUS
  <1> HIDE DEF q, T, w
  <1>4. /\ q \o b \in Seq(T) /\ Len(q \o b) = 1 + Len(b) /\ Len(b) \in Nat
        /\ w \in Seq(T) /\ Len(w) = Len(b) + 2
    <2>1. q \o b \in Seq(T) /\ Len(q \o b) = Len(q) + Len(b) /\ Len(b) \in Nat
      <3>1. q \in Seq(T) /\ b \in Seq(T)
        BY <1>1, <1>2
      <3>2. q \o b \in Seq(T) /\ Len(q \o b) = Len(q) + Len(b)
        BY ONLY <3>1, ConcatProperties
      <3>3. Len(b) \in Nat
        BY ONLY <3>1
      <3> QED
        BY <3>2, <3>3
    <2> DEFINE a == q \o b
    <2> HIDE DEF a
    <2>2. a \in Seq(T) /\ w = a \o q
      BY <1>3, <2>1 DEF a
    <2>3. w \in Seq(T) /\ Len(w) = Len(a) + Len(q)
      BY ONLY <1>2, <2>2, ConcatProperties
    <2> QED
      BY <1>2, <2>1, <2>3 DEF a
  <1>5. Holds(t, p, w) <=> Holds(t, p, q \o b) /\ Holds(t, p + Len(q \o b), q)
    BY <1>2, <1>3, <1>4, HoldsParts
  <1>6. Holds(t, p, q \o b) <=> Holds(t, p, q) /\ Holds(t, p + Len(q), b)
    BY <1>1, <1>2, HoldsParts
  <1>7. Holds(t, p, q) => p \in Nat
    BY DEF Holds
  <1>8. p \in Nat => p + Len(q \o b) = (p + 1) + Len(b) /\ p + Len(q) = p + 1
    BY <1>2, <1>4
  <1>9. /\ Holds(t, p, w) <=> Holds(t, p, q) /\ Holds(t, p + 1, b) /\ Holds(t, (p + 1) + Len(b), q)
        /\ Len(w) = Len(b) + 2 /\ Len(b) \in Nat /\ w \in Seq(T)
    BY <1>4, <1>5, <1>6, <1>7, <1>8
  <1> QED
    BY <1>9 DEF q, T, w

LEMMA BinReturns ==
    ASSUME NEW Ch, NEW s, Text(s, Ch), NEW i \in Offsets(s), peek(s, i) = ":"
    PROVE  Returns(s, i, Ch)
  <1> DEFINE e == Span(s, i + 1, isBase64Char)
             b == SubSeq(s, i + 1, e - 1)
             v == [bin |-> DecodeBase64(b)]
             w == <<":">> \o b \o <<":">>
  <1>1. parseBareItem(s, i) = parseByteSequence(s, i)
    BY Dispatch
  <1>2. parseByteSequence(s, i) =
          IF \/ peek(s, e) # ":" \/ ~ValidBase64(b)
             \/ Exceeds(Len(DecodeBase64(b)), Limits.MaxByteSequenceLength)
          THEN Fail ELSE Got(v, e + 1)
    BY DEF parseByteSequence
  <1> HIDE DEF e
  <1> SUFFICES ASSUME peek(s, e) = ":", ValidBase64(b),
                      ~Exceeds(Len(DecodeBase64(b)), Limits.MaxByteSequenceLength)
               PROVE  IsBare(s, i, v, e + 1, Ch)
    BY <1>1, <1>2 DEF Returns
  <1>3. "EOF" # ":" /\ "EOF" \notin isBase64Char
    BY Base64Classes, DelimitersDiffer
  <1>4. i \in 1..Len(s) /\ s[i] = ":" /\ i + 1 \in Offsets(s) /\ Len(s) \in Nat
    BY <1>3, PeekIs DEF Offsets, Text
  <1>5. /\ e \in (i + 1)..(Len(s) + 1)
        /\ \A m \in (i + 1)..(e - 1) : s[m] \in isBase64Char
    BY <1>3, <1>4, SpanPeeks DEF e
  <1>6. e \in 1..Len(s) /\ s[e] = ":"
    BY <1>3, <1>4, <1>5, PeekIs
  <1>7. b \in Seq(isBase64Char) /\ Len(b) = e - (i + 1)
    BY <1>4, <1>5, InClass
  <1>8. Holds(s, i, <<":">>) /\ Holds(s, e, <<":">>)
    BY <1>4, <1>6, HoldsOne
  <1>9. Holds(s, i + 1, b)
    BY <1>4, <1>5, Between
  <1> HIDE DEF b
  <1>10. (i + 1) + Len(b) = e
    BY <1>4, <1>6, <1>7
  <1>11. Holds(s, i, w) /\ Len(w) = Len(b) + 2 /\ w \in Seq(isBase64Char \cup {":"})
    BY <1>7, <1>8, <1>9, <1>10, HoldsBytes
  <1> HIDE DEF w
  <1>12. (e + 1) - 1 = (i + Len(w)) - 1 /\ e + 1 \in (i + 1)..(Len(s) + 1)
    BY <1>4, <1>6, <1>5, <1>10, <1>11, <1>7
  <1>13. SubSeq(s, i, (e + 1) - 1) = w
    BY <1>11, <1>12, HeldText
  <1>14. BinSpelt(w, v)
    BY <1>7 DEF BinSpelt, w
  <1>15. BareWithin(v) /\ MayFollow(v, peek(s, e + 1))
    BY KindsWithin, KindsFollowed
  <1> HIDE DEF v
  <1> QED
    BY <1>12, <1>13, <1>14, <1>15 DEF IsBare, Spelt

LEMMA BinIsReturned ==
    ASSUME NEW Ch, NEW t, Text(t, Ch), NEW w, NEW v, BinSpelt(w, v), NEW p, Holds(t, p, w)
    PROVE  IsReturned(t, p, w, v)
  <1>1. PICK b \in Seq(isBase64Char) : /\ ValidBase64(b) /\ v = [bin |-> DecodeBase64(b)]
                                       /\ w = <<":">> \o b \o <<":">>
    BY DEF BinSpelt
  <1> DEFINE e == (p + 1) + Len(b)
  <1>2. /\ Holds(t, p, <<":">>) /\ Holds(t, p + 1, b) /\ Holds(t, e, <<":">>)
        /\ Len(w) = Len(b) + 2 /\ Len(b) \in Nat
    BY <1>1, HoldsBytes
  <1>3. /\ p \in Nat \ {0} /\ p <= Len(t) /\ t[p] = ":" /\ Len(t) \in Nat
        /\ e \in Nat \ {0} /\ e <= Len(t) /\ t[e] = ":"
    BY <1>2, HoldsOne DEF Text
  <1>4. peek(t, p) = ":" /\ peek(t, e) = ":"
    BY <1>3 DEF peek
  <1>5. parseBareItem(t, p) = parseByteSequence(t, p)
    BY <1>4, Dispatch
  <1>6. p + 1 \in Offsets(t)
    BY <1>3 DEF Offsets
  <1>7. Span(t, p + 1, isBase64Char) = e /\ SubSeq(t, p + 1, e - 1) = b
    BY <1>1, <1>2, <1>4, <1>6, SpanOver, Base64Classes
  <1>8. e + 1 = p + Len(w)
    BY <1>2, <1>3
  <1>9. BareWithin(v) <=> ~Exceeds(Len(DecodeBase64(b)), Limits.MaxByteSequenceLength)
    BY <1>1, KindsWithin
  <1> HIDE DEF e
  <1>10. parseByteSequence(t, p) =
          IF \/ peek(t, e) # ":" \/ ~ValidBase64(b)
             \/ Exceeds(Len(DecodeBase64(b)), Limits.MaxByteSequenceLength)
          THEN Fail ELSE Got([bin |-> DecodeBase64(b)], e + 1)
    BY <1>7 DEF parseByteSequence
  <1> QED
    BY <1>1, <1>4, <1>5, <1>8, <1>9, <1>10 DEF IsReturned

-----------------------------------------------------------------------------
(* What lies where in a text.  For each production of the grammar, XAt      *)
(* says that the value x has the text from p to q - 1, and what follows may *)
(* follow it.  The parser is shown to find exactly that, within the limits. *)

BareAt(t, p, v, q, Ch) ==
    /\ p \in Offsets(t) /\ q \in (p + 1)..(Len(t) + 1)
    /\ Spelt(SubSeq(t, p, q - 1), v, Ch) /\ MayFollow(v, peek(t, q))

\* What a reading function returns for the value v up to q.
Read(ok, v, q) == IF ok THEN Got(v, q) ELSE Fail

LEMMA BareReturns ==
    ASSUME NEW Ch, NEW s, Text(s, Ch), NEW i \in Offsets(s)
    PROVE  \/ parseBareItem(s, i) = Fail
           \/ \E v, j : parseBareItem(s, i) = Got(v, j) /\ BareAt(s, i, v, j, Ch) /\ BareWithin(v)
  <1> DEFINE c == peek(s, i)
  <1>1. c \in Starters => \/ c = "?" \/ c \in {"-"} \cup isDigit \/ c = Quote \/ c = ":"
                          \/ c \in isAlpha \cup {"*"}
    BY Zenon DEF Starters
  <1>2. c \notin Starters => Returns(s, i, Ch)
    BY Dispatch DEF Returns
  <1>3. Returns(s, i, Ch)
    BY <1>1, <1>2, BoolReturns, IntReturns, StrReturns, BinReturns, TokReturns
  <1> QED
    BY <1>3 DEF Returns, IsBare, BareAt

LEMMA BareIsRead ==
    ASSUME NEW Ch, NEW t, Text(t, Ch), NEW p, NEW v, NEW q, BareAt(t, p, v, q, Ch)
    PROVE  parseBareItem(t, p) = Read(BareWithin(v), v, q)
  <1> DEFINE w == SubSeq(t, p, q - 1)
  <1>1. /\ p \in Offsets(t) /\ q \in (p + 1)..(Len(t) + 1) /\ q \in p..(Len(t) + 1)
        /\ Spelt(w, v, Ch) /\ MayFollow(v, peek(t, q))
    BY DEF BareAt, Offsets, Text
  <1>2. Holds(t, p, w) /\ Len(w) = q - p
    BY <1>1, Between
  <1> HIDE DEF w
  <1>3. p + Len(w) = q
    BY <1>1, <1>2 DEF Offsets, Text
  <1>4. "EOF" \notin Ch
    BY DEF Text
  <1>5. IsReturned(t, p, w, v)
    BY <1>1, <1>2, <1>3, <1>4, BoolIsReturned, IntIsReturned, StrIsReturned, BinIsReturned,
       TokIsReturned DEF Spelt
  <1> QED
    BY <1>3, <1>5 DEF IsReturned, Read

\* A sequence of whatever values.
Tuple(xs) == Len(xs) \in Nat /\ xs = [k \in 1..Len(xs) |-> xs[k]]

LEMMA Tuples ==
    /\ \A xs : Tuple(xs) => xs \in Seq({xs[k] : k \in 1..Len(xs)})
    /\ \A S : \A xs \in Seq(S) : Tuple(xs)
  <1>1. ASSUME NEW xs, Tuple(xs) PROVE xs \in Seq({xs[k] : k \in 1..Len(xs)})
    <2> DEFINE S == {xs[k] : k \in 1..Len(xs)}
    <2>1. \A k \in 1..Len(xs) : xs[k] \in S
      OBVIOUS
    <2>2. Len(xs) \in Nat /\ xs = [k \in 1..Len(xs) |-> xs[k]]
      BY <1>1 DEF Tuple
    <2> HIDE DEF S
    <2> QED
      BY ONLY <2>1, <2>2
  <1>2. ASSUME NEW S, NEW xs \in Seq(S) PROVE Tuple(xs)
    BY DEF Tuple
  <1> QED
    BY <1>1, <1>2

LEMMA ReadResults ==
    ASSUME NEW ok \in BOOLEAN, NEW v, NEW q
    PROVE  /\ ok => Read(ok, v, q) = Got(v, q)
           /\ ~ok => Read(ok, v, q) = Fail
  BY DEF Read

LEMMA GotIsRead ==
    ASSUME NEW r, NEW x, NEW j, NEW k, NEW s, r = Got(x, j), j \in (k + 1)..(Len(s) + 1)
    PROVE  IsRead(r, k, s) /\ r.val = x /\ r.at = j /\ r # Fail
  <1>1. r.val = x /\ r.at = j /\ r # Fail
    BY Results
  <1> QED
    BY <1>1 DEF IsRead

\* A loop along values, some of which it refuses: the ones that are not good.
TriedAlong(s, more, round, at, xs, good) ==
    \A k \in 1..Len(xs) : /\ at[k - 1] \in Offsets(s) /\ at[k - 1] \in more
                          /\ xs[k] \in good => round[at[k - 1]] = Got(xs[k], at[k])
                          /\ xs[k] \notin good => round[at[k - 1]] = Fail

AllOf(xs, good) == \A k \in 1..Len(xs) : xs[k] \in good

LEMMA LoopReads ==
    ASSUME NEW s, Len(s) \in Nat, NEW more, NEW round, Advances(s, more, round),
           NEW xs, Tuple(xs), NEW at, NEW good, TriedAlong(s, more, round, at, xs, good),
           at[Len(xs)] \in Offsets(s), at[Len(xs)] \notin more
    PROVE  /\ AllOf(xs, good) => Rounds(s, at[0], more, round) = Got(xs, at[Len(xs)])
           /\ ~AllOf(xs, good) => Rounds(s, at[0], more, round) = Fail
  <1> DEFINE n   == Len(xs)
             S   == {xs[k] : k \in 1..Len(xs)}
             bad == {k \in 1..n : xs[k] \notin good}
  <1>1. xs \in Seq(S) /\ n \in Nat
    BY Tuples DEF Tuple
  <1> HIDE DEF S
  <1>2. CASE AllOf(xs, good)
    <2>1. Passes(s, more, round, at, xs)
      BY <1>2 DEF Passes, TriedAlong, AllOf
    <2>2. Rounds(s, at[0], more, round) = Got(xs, at[n])
      BY <1>1, <2>1, RoundsAlong
    <2> QED
      BY <1>2, <2>2
  <1>3. CASE ~AllOf(xs, good)
    <2>1. bad \subseteq 1..n /\ bad # {}
      BY <1>3 DEF AllOf
    <2>2. \A k \in 1..n : k \in bad <=> xs[k] \notin good
      OBVIOUS
    <2> HIDE DEF bad
    <2>3. PICK k \in bad : \A m \in bad : k <= m
      BY <1>1, <2>1, FirstPosition
    <2> DEFINE ys == SubSeq(xs, 1, k - 1)
    <2>4. k \in 1..n /\ ys \in Seq(S) /\ Len(ys) = k - 1 /\ \A m \in 1..(k - 1) : ys[m] = xs[m]
      <3>1. k \in 1..Len(xs)
        BY <2>1, <2>3
      <3> QED
        BY <1>1, <3>1
    <2> HIDE DEF ys
    <2>5. \A m \in 1..(k - 1) : m \in 1..n /\ xs[m] \in good
      <3>1. ASSUME NEW m \in 1..(k - 1) PROVE m \in 1..n /\ m \notin bad
        BY <1>1, <2>3, <2>4
      <3> QED
        BY <2>2, <3>1
    <2>6. Passes(s, more, round, at, ys)
      BY <2>4, <2>5 DEF Passes, TriedAlong
    <2>7. at[Len(ys)] \in Offsets(s) /\ at[Len(ys)] \in more /\ round[at[Len(ys)]] = Fail
      BY <2>2, <2>3, <2>4 DEF TriedAlong
    <2>8. Rounds(s, at[0], more, round) = Fail
      BY <2>4, <2>6, <2>7, RoundsAlong
    <2> QED
      BY <1>3, <2>8
  <1> QED
    BY <1>2, <1>3

-----------------------------------------------------------------------------
(* Keys and parameters.                                                    *)

KeyAt(t, p, key, q) ==
    /\ p \in Offsets(t) /\ q \in (p + 1)..(Len(t) + 1)
    /\ key = SubSeq(t, p, q - 1) /\ IsToken(key) /\ peek(t, q) \notin isTokenChar

KeyWithin(key) == ~Exceeds(Len(key), Limits.MaxTokenLength)

LEMMA KeyReturns ==
    ASSUME NEW Ch, NEW s, Text(s, Ch), NEW i \in Offsets(s)
    PROVE  \/ parseToken(s, i) = Fail
           \/ \E key, j : parseToken(s, i) = Got([tok |-> key], j) /\ KeyAt(s, i, key, j) /\ KeyWithin(key)
  BY TokenReads DEF KeyAt, KeyWithin

LEMMA KeyIsRead ==
    ASSUME NEW Ch, NEW t, Text(t, Ch), NEW p, NEW key, NEW q, KeyAt(t, p, key, q)
    PROVE  /\ parseToken(t, p) = Read(KeyWithin(key), [tok |-> key], q)
           /\ peek(t, p) \in isAlpha \cup {"*"}
  <1>1. p \in Offsets(t) /\ q \in p..(Len(t) + 1) /\ key = SubSeq(t, p, q - 1) /\ IsToken(key)
    BY DEF KeyAt, Offsets, Text
  <1>2. Holds(t, p, key) /\ Len(key) = q - p
    BY <1>1, Between
  <1>3. p + Len(key) = q
    BY <1>1, <1>2 DEF Offsets, Text
  <1>4. peek(t, p + Len(key)) \notin isTokenChar
    BY <1>3 DEF KeyAt
  <1> QED
    BY <1>1, <1>2, <1>3, <1>4, TokenIsRead DEF Read, KeyWithin

ParamWithin(x) == KeyWithin(x.key) /\ BareWithin(x.val)

ParamAt(t, p, x, q, Ch) ==
    /\ p \in Offsets(t) /\ peek(t, p) = Semicolon
    /\ x = [key |-> x.key, val |-> x.val]
    /\ \E m : /\ KeyAt(t, p + 1, x.key, m)
              /\ \/ peek(t, m) = "=" /\ BareAt(t, m + 1, x.val, q, Ch)
                 \/ peek(t, m) # "=" /\ x.val = BareTrue /\ q = m

LEMMA AfterMark ==
    ASSUME NEW Ch, NEW t, Text(t, Ch), NEW p \in Offsets(t), peek(t, p) # "EOF"
    PROVE  p + 1 \in Offsets(t) /\ p \in 1..Len(t) /\ Len(t) \in Nat /\ t[p] = peek(t, p)
  <1>1. p \in Nat \ {0}
    BY DEF Offsets, Text
  <1> QED
    BY <1>1, PeekIs

LEMMA ParamReturns ==
    ASSUME NEW Ch, NEW s, Text(s, Ch), NEW i \in Offsets(s), peek(s, i) = Semicolon
    PROVE  \/ parseParameter(s, i) = Fail
           \/ \E x, j : /\ parseParameter(s, i) = Got(x, j) /\ j \in (i + 1)..(Len(s) + 1)
                        /\ ParamAt(s, i, x, j, Ch) /\ ParamWithin(x)
  <1> DEFINE V(j) == IF peek(s, j) = "=" THEN parseBareItem(s, j + 1) ELSE Got(BareTrue, j)
  <1>1. parseParameter(s, i) =
          Then(parseToken(s, i + 1), LAMBDA key, j :
            Then(V(j), LAMBDA v, k : Got([key |-> key.tok, val |-> v], k)))
    BY DEF parseParameter
  <1>2. i + 1 \in Offsets(s) /\ Len(s) \in Nat
    BY AfterMark, DelimitersDiffer
  <1> HIDE DEF V
  <1>3. CASE parseToken(s, i + 1) = Fail
    BY <1>1, <1>3, Results DEF Then
  <1>4. ASSUME NEW key, NEW m, parseToken(s, i + 1) = Got([tok |-> key], m),
               KeyAt(s, i + 1, key, m), KeyWithin(key), parseParameter(s, i) # Fail
        PROVE  \E x, j : /\ parseParameter(s, i) = Got(x, j) /\ j \in (i + 1)..(Len(s) + 1)
                         /\ ParamAt(s, i, x, j, Ch) /\ ParamWithin(x)
    <2>1. parseParameter(s, i) = Then(V(m), LAMBDA v, k : Got([key |-> key, val |-> v], k))
      BY <1>1, <1>4, Results DEF Then
    <2>2. m \in (i + 2)..(Len(s) + 1) /\ m \in Offsets(s)
      BY <1>2, <1>4 DEF KeyAt, Offsets
    <2>3. ASSUME NEW v, NEW j, V(m) = Got(v, j), BareWithin(v), j \in m..(Len(s) + 1),
                 \/ peek(s, m) = "=" /\ BareAt(s, m + 1, v, j, Ch)
                 \/ peek(s, m) # "=" /\ v = BareTrue /\ j = m
          PROVE  \E x, k : /\ parseParameter(s, i) = Got(x, k) /\ k \in (i + 1)..(Len(s) + 1)
                           /\ ParamAt(s, i, x, k, Ch) /\ ParamWithin(x)
      <3> DEFINE x == [key |-> key, val |-> v]
      <3>1. parseParameter(s, i) = Got(x, j)
        BY <2>1, <2>3, Results DEF Then
      <3>2. x.key = key /\ x.val = v /\ x = [key |-> x.key, val |-> x.val]
        OBVIOUS
      <3> HIDE DEF x
      <3>3. ParamAt(s, i, x, j, Ch)
        BY <1>4, <2>3, <3>2 DEF ParamAt
      <3>4. ParamWithin(x) /\ j \in (i + 1)..(Len(s) + 1)
        BY <1>2, <1>4, <2>2, <2>3, <3>2 DEF ParamWithin, Offsets
      <3> QED
        BY <3>1, <3>3, <3>4
    <2>4. CASE peek(s, m) # "="
      <3>1. V(m) = Got(BareTrue, m) /\ BareWithin(BareTrue)
        BY <2>4, KindsWithin DEF V, BareTrue
      <3> QED
        BY <2>2, <2>3, <2>4, <3>1
    <2>5. CASE peek(s, m) = "="
      <3>1. V(m) = parseBareItem(s, m + 1)
        BY <2>5 DEF V
      <3>2. m + 1 \in Offsets(s)
        BY <2>2, <2>5, AfterMark, DelimitersDiffer
      <3>3. parseBareItem(s, m + 1) # Fail
        BY <1>4, <2>1, <3>1, Results DEF Then
      <3>4. PICK v, j : parseBareItem(s, m + 1) = Got(v, j) /\ BareAt(s, m + 1, v, j, Ch) /\ BareWithin(v)
        BY <3>2, <3>3, BareReturns
      <3>5. j \in m..(Len(s) + 1)
        BY <2>2, <3>2, <3>4 DEF BareAt
      <3> QED
        BY <2>3, <2>5, <3>1, <3>4, <3>5
    <2> QED
      BY <2>4, <2>5
  <1> QED
    BY <1>2, <1>3, <1>4, KeyReturns

LEMMA ParamIsRead ==
    ASSUME NEW Ch, NEW t, Text(t, Ch), NEW p, NEW x, NEW q, ParamAt(t, p, x, q, Ch)
    PROVE  /\ parseParameter(t, p) = Read(ParamWithin(x), x, q)
           /\ p \in Offsets(t) /\ q \in (p + 1)..(Len(t) + 1) /\ peek(t, p) = Semicolon
  <1> DEFINE V(j) == IF peek(t, j) = "=" THEN parseBareItem(t, j + 1) ELSE Got(BareTrue, j)
  <1>1. PICK m : /\ KeyAt(t, p + 1, x.key, m)
                 /\ \/ peek(t, m) = "=" /\ BareAt(t, m + 1, x.val, q, Ch)
                    \/ peek(t, m) # "=" /\ x.val = BareTrue /\ q = m
    BY DEF ParamAt
  <1>2. /\ p \in Offsets(t) /\ peek(t, p) = Semicolon /\ p + 1 \in Offsets(t) /\ Len(t) \in Nat
        /\ x = [key |-> x.key, val |-> x.val]
    BY AfterMark, DelimitersDiffer DEF ParamAt
  <1>3. m \in (p + 2)..(Len(t) + 1)
    BY <1>1, <1>2 DEF KeyAt, Offsets
  <1>4. q \in (p + 1)..(Len(t) + 1)
    BY <1>1, <1>2, <1>3 DEF BareAt, Offsets
  <1>5. parseParameter(t, p) =
          Then(parseToken(t, p + 1), LAMBDA key, j :
            Then(V(j), LAMBDA v, k : Got([key |-> key.tok, val |-> v], k)))
    BY DEF parseParameter
  <1>6. parseToken(t, p + 1) = Read(KeyWithin(x.key), [tok |-> x.key], m)
    BY <1>1, KeyIsRead
  <1>7. V(m) = Read(BareWithin(x.val), x.val, q)
    <2>1. CASE peek(t, m) = "="
      BY <1>1, <2>1, BareIsRead
    <2>2. CASE peek(t, m) # "="
      <3>1. BareWithin(BareTrue)
        BY KindsWithin DEF BareTrue
      <3> QED
        BY <1>1, <2>2, <3>1 DEF Read
    <2> QED
      BY <2>1, <2>2
  <1> HIDE DEF V
  <1>8. CASE ~KeyWithin(x.key)
    BY <1>2, <1>4, <1>5, <1>6, <1>8, Results DEF Read, Then, ParamWithin
  <1>9. CASE KeyWithin(x.key)
    <2>1. parseParameter(t, p) = Then(V(m), LAMBDA v, k : Got([key |-> x.key, val |-> v], k))
      BY <1>5, <1>6, <1>9, Results DEF Read, Then
    <2>2. CASE BareWithin(x.val)
      BY <1>2, <1>4, <1>7, <1>9, <2>1, <2>2, Results DEF Read, Then, ParamWithin
    <2>3. CASE ~BareWithin(x.val)
      BY <1>2, <1>4, <1>7, <2>1, <2>3, Results DEF Read, Then, ParamWithin
    <2> QED
      BY <2>2, <2>3
  <1> QED
    BY <1>2, <1>4, <1>8, <1>9

LEMMA WithinResults ==
    ASSUME NEW limit
    PROVE  /\ Within(Fail, limit) = Fail
           /\ \A vs, q : Within(Got(vs, q), limit) = Read(~Exceeds(Len(vs), limit), vs, q)
  <1>1. Within(Fail, limit) = Fail
    BY Results DEF Within, Then
  <1>2. ASSUME NEW vs, NEW q PROVE Within(Got(vs, q), limit) = Read(~Exceeds(Len(vs), limit), vs, q)
    BY Results DEF Within, Then, Read
  <1> QED
    BY <1>1, <1>2

Semicolons(s) == {k \in Offsets(s) : peek(s, k) = Semicolon}
Parameters(s) == [k \in Offsets(s) |-> parseParameter(s, k)]

ParamsAt(t, p, ps, q, Ch) ==
    /\ p \in Offsets(t) /\ q \in p..(Len(t) + 1) /\ Tuple(ps) /\ peek(t, q) # Semicolon
    /\ \E at : /\ at[0] = p /\ at[Len(ps)] = q
               /\ \A k \in 1..Len(ps) : ParamAt(t, at[k - 1], ps[k], at[k], Ch)

LEMMA ParametersAdvance ==
    ASSUME NEW Ch, NEW s, Text(s, Ch)
    PROVE  Len(s) \in Nat /\ Advances(s, Semicolons(s), Parameters(s))
  <1>1. Len(s) \in Nat
    BY DEF Text
  <1>2. ASSUME NEW k \in Offsets(s), k \in Semicolons(s) PROVE IsRead(Parameters(s)[k], k, s)
    <2>1. Parameters(s)[k] = parseParameter(s, k) /\ peek(s, k) = Semicolon
      BY <1>2 DEF Parameters, Semicolons
    <2>2. CASE parseParameter(s, k) = Fail
      BY <2>1, <2>2 DEF IsRead
    <2>3. CASE parseParameter(s, k) # Fail
      <3>1. PICK x, j : parseParameter(s, k) = Got(x, j) /\ j \in (k + 1)..(Len(s) + 1)
        BY <2>1, <2>3, ParamReturns
      <3> QED
        BY <2>1, <3>1, GotIsRead
    <2> QED
      BY <2>2, <2>3
  <1> QED
    BY <1>1, <1>2 DEF Advances

LEMMA ParametersIs ==
    ASSUME NEW s, NEW i
    PROVE  parseParameters(s, i) =
             Within(Rounds(s, i, Semicolons(s), Parameters(s)), Limits.MaxParameters)
  BY DEF parseParameters, Semicolons, Parameters

LEMMA ParamsReturns ==
    ASSUME NEW Ch, NEW s, Text(s, Ch), NEW i \in Offsets(s)
    PROVE  \/ parseParameters(s, i) = Fail
           \/ \E ps, j : /\ parseParameters(s, i) = Got(ps, j) /\ j \in i..(Len(s) + 1)
                         /\ ParamsAt(s, i, ps, j, Ch) /\ ParamsWithin(ps)
  <1> DEFINE more  == Semicolons(s)
             round == Parameters(s)
             r     == Rounds(s, i, more, round)
  <1>1. Len(s) \in Nat /\ Advances(s, more, round)
    BY ParametersAdvance
  <1>2. parseParameters(s, i) = Within(r, Limits.MaxParameters)
    BY ParametersIs
  <1>3. \/ r = Fail
        \/ \E at, xs : /\ xs \in Seq(Readings(s, round)) /\ at[0] = i
                       /\ Passes(s, more, round, at, xs)
                       /\ at[Len(xs)] \in i..(Len(s) + 1) /\ at[Len(xs)] \notin more
                       /\ r = Got(xs, at[Len(xs)])
    <2> HIDE DEF more, round
    <2> QED
      BY <1>1, RoundsRead
  <1>4. CASE r = Fail
    <2> HIDE DEF r
    <2> QED
      BY <1>2, <1>4, WithinResults
  <1>5. ASSUME NEW at, NEW xs, xs \in Seq(Readings(s, round)), at[0] = i,
               Passes(s, more, round, at, xs),
               at[Len(xs)] \in i..(Len(s) + 1), at[Len(xs)] \notin more,
               r = Got(xs, at[Len(xs)]), parseParameters(s, i) # Fail
        PROVE  \E ps, j : /\ parseParameters(s, i) = Got(ps, j) /\ j \in i..(Len(s) + 1)
                          /\ ParamsAt(s, i, ps, j, Ch) /\ ParamsWithin(ps)
    <2> DEFINE j == at[Len(xs)]
    <2>1. Tuple(xs)
      BY <1>5, Tuples
    <2>2. ASSUME NEW k \in 1..Len(xs)
          PROVE  ParamAt(s, at[k - 1], xs[k], at[k], Ch) /\ ParamWithin(xs[k])
      <3> DEFINE m == at[k - 1]
      <3>1. m \in Offsets(s) /\ m \in more /\ round[m] = Got(xs[k], at[k])
        BY <1>5 DEF Passes
      <3>2. peek(s, m) = Semicolon /\ parseParameter(s, m) = Got(xs[k], at[k])
        BY <3>1 DEF Semicolons, Parameters
      <3> HIDE DEF m
      <3>3. PICK x, e : /\ parseParameter(s, m) = Got(x, e)
                        /\ ParamAt(s, m, x, e, Ch) /\ ParamWithin(x)
        BY <3>1, <3>2, ParamReturns, Results
      <3> DEFINE y == xs[k]
                 f == at[k]
      <3>5. Got(x, e) = Got(y, f)
        BY <3>2, <3>3
      <3> HIDE DEF y, f
      <3>6. x = y /\ e = f
        BY <3>5, Results
      <3>4. x = xs[k] /\ e = at[k]
        BY <3>6 DEF y, f
      <3> QED
        BY <3>3, <3>4 DEF m
    <2>3. peek(s, j) # Semicolon /\ j \in i..(Len(s) + 1)
      <3>1. j \in Offsets(s) /\ j \notin more
        BY <1>1, <1>5 DEF Offsets
      <3> QED
        BY <1>5, <3>1 DEF Semicolons
    <2>4. parseParameters(s, i) = Read(~Exceeds(Len(xs), Limits.MaxParameters), xs, j)
      <3> HIDE DEF j, r
      <3> QED
        BY <1>2, <1>5, WithinResults DEF j
    <2> HIDE DEF more, round, r
    <2>5. parseParameters(s, i) = Got(xs, j) /\ ~Exceeds(Len(xs), Limits.MaxParameters)
      BY <1>5, <2>4 DEF Read
    <2>6. ParamsAt(s, i, xs, j, Ch)
      BY <1>5, <2>1, <2>2, <2>3 DEF ParamsAt
    <2>7. ParamsWithin(xs)
      BY <2>2, <2>5 DEF ParamsWithin, ParamWithin, KeyWithin
    <2> QED
      BY <2>3, <2>5, <2>6, <2>7
  <1> HIDE DEF more, round, r
  <1> QED
    BY <1>3, <1>4, <1>5

LEMMA ParamsIsRead ==
    ASSUME NEW Ch, NEW t, Text(t, Ch), NEW p, NEW ps, NEW q, ParamsAt(t, p, ps, q, Ch)
    PROVE  parseParameters(t, p) = Read(ParamsWithin(ps), ps, q)
  <1> DEFINE more  == Semicolons(t)
             round == Parameters(t)
             good  == {ps[k] : k \in {m \in 1..Len(ps) : ParamWithin(ps[m])}}
             all   == \A k \in 1..Len(ps) : ps[k] \in good
  <1>1. Len(t) \in Nat /\ Advances(t, more, round)
    BY ParametersAdvance
  <1>2. /\ p \in Offsets(t) /\ q \in p..(Len(t) + 1) /\ q \in Offsets(t)
        /\ Tuple(ps) /\ peek(t, q) # Semicolon
    BY DEF ParamsAt, Offsets, Text
  <1>3. PICK at : /\ at[0] = p /\ at[Len(ps)] = q
                  /\ \A k \in 1..Len(ps) : ParamAt(t, at[k - 1], ps[k], at[k], Ch)
    BY DEF ParamsAt
  <1>4. ASSUME NEW k \in 1..Len(ps)
        PROVE  /\ at[k - 1] \in Offsets(t) /\ at[k - 1] \in more
               /\ ps[k] \in good => round[at[k - 1]] = Got(ps[k], at[k])
               /\ ps[k] \notin good => round[at[k - 1]] = Fail
    <2> DEFINE m == at[k - 1]
    <2>1. ParamAt(t, m, ps[k], at[k], Ch)
      BY <1>3
    <2>2. ps[k] \in good <=> ParamWithin(ps[k])
      OBVIOUS
    <2> HIDE DEF m, good
    <2>3. /\ parseParameter(t, m) = Read(ParamWithin(ps[k]), ps[k], at[k])
          /\ m \in Offsets(t) /\ peek(t, m) = Semicolon
      BY <2>1, ParamIsRead
    <2>4. m \in more /\ round[m] = parseParameter(t, m)
      BY <2>3 DEF Semicolons, Parameters
    <2> QED
      BY <2>2, <2>3, <2>4 DEF m, Read
  <1>5. q \notin more
    BY <1>2 DEF Semicolons
  <1>6. all <=> \A k \in 1..Len(ps) : ParamWithin(ps[k])
    OBVIOUS
  <1> HIDE DEF more, round, good
  <1>7. Rounds(t, p, more, round) = Read(all, ps, q)
    <2>1. /\ AllOf(ps, good) => Rounds(t, at[0], more, round) = Got(ps, at[Len(ps)])
          /\ ~AllOf(ps, good) => Rounds(t, at[0], more, round) = Fail
      <3>1. at[Len(ps)] \in Offsets(t) /\ at[Len(ps)] \notin more
        BY <1>2, <1>3, <1>5
      <3>2. TriedAlong(t, more, round, at, ps, good)
        BY <1>4 DEF TriedAlong
      <3> QED
        BY <1>1, <1>2, <3>1, <3>2, LoopReads
    <2> QED
      BY <1>3, <2>1 DEF Read, AllOf
  <1> HIDE DEF all
  <1>8. parseParameters(t, p) = Within(Read(all, ps, q), Limits.MaxParameters)
    BY <1>7, ParametersIs DEF more, round
  <1>9. ParamsWithin(ps) <=> all /\ ~Exceeds(Len(ps), Limits.MaxParameters)
    BY <1>6 DEF ParamsWithin, ParamWithin, KeyWithin
  <1>10. CASE all
    <2>1. parseParameters(t, p) = Read(~Exceeds(Len(ps), Limits.MaxParameters), ps, q)
      BY <1>8, <1>10, WithinResults DEF Read
    <2> QED
      BY <1>9, <1>10, <2>1 DEF Read
  <1>11. CASE ~all
    BY <1>8, <1>9, <1>11, WithinResults DEF Read
  <1> QED
    BY <1>10, <1>11

-----------------------------------------------------------------------------
(* Items.                                                                  *)

ItemAt(t, p, x, q, Ch) ==
    /\ x = [val |-> x.val, params |-> x.params]
    /\ \E m : BareAt(t, p, x.val, m, Ch) /\ ParamsAt(t, m, x.params, q, Ch)

LEMMA ItemReturns ==
    ASSUME NEW Ch, NEW s, Text(s, Ch), NEW i \in Offsets(s)
    PROVE  \/ ParseItem(s, i) = Fail
           \/ \E x, j : /\ ParseItem(s, i) = Got(x, j) /\ j \in (i + 1)..(Len(s) + 1)
                        /\ ItemAt(s, i, x, j, Ch) /\ ItemWithin(x)
  <1>1. ParseItem(s, i) =
          Then(parseBareItem(s, i), LAMBDA v, j :
            Then(parseParameters(s, j), LAMBDA ps, k : Got([val |-> v, params |-> ps], k)))
    BY DEF ParseItem
  <1> SUFFICES ASSUME ParseItem(s, i) # Fail
               PROVE  \E x, j : /\ ParseItem(s, i) = Got(x, j) /\ j \in (i + 1)..(Len(s) + 1)
                                /\ ItemAt(s, i, x, j, Ch) /\ ItemWithin(x)
    OBVIOUS
  <1>2. parseBareItem(s, i) # Fail
    BY <1>1, Results DEF Then
  <1>3. PICK v, m : parseBareItem(s, i) = Got(v, m) /\ BareAt(s, i, v, m, Ch) /\ BareWithin(v)
    BY <1>2, BareReturns
  <1>4. m \in (i + 1)..(Len(s) + 1) /\ m \in Offsets(s) /\ i \in Nat /\ Len(s) \in Nat
    BY <1>3 DEF BareAt, Offsets, Text
  <1>5. ParseItem(s, i) = Then(parseParameters(s, m), LAMBDA ps, k : Got([val |-> v, params |-> ps], k))
    BY <1>1, <1>3, Results DEF Then
  <1>6. parseParameters(s, m) # Fail
    BY <1>5, Results DEF Then
  <1>7. PICK ps, j : /\ parseParameters(s, m) = Got(ps, j) /\ j \in m..(Len(s) + 1)
                     /\ ParamsAt(s, m, ps, j, Ch) /\ ParamsWithin(ps)
    BY <1>4, <1>6, ParamsReturns
  <1> DEFINE x == [val |-> v, params |-> ps]
  <1>8. ParseItem(s, i) = Got(x, j)
    BY <1>5, <1>7, Results DEF Then
  <1>9. x.val = v /\ x.params = ps /\ x = [val |-> x.val, params |-> x.params]
    OBVIOUS
  <1> HIDE DEF x
  <1>10. ItemAt(s, i, x, j, Ch) /\ ItemWithin(x)
    BY <1>3, <1>7, <1>9 DEF ItemAt, ItemWithin
  <1>11. j \in (i + 1)..(Len(s) + 1)
    BY <1>4, <1>7
  <1> QED
    BY <1>8, <1>10, <1>11

LEMMA ItemIsRead ==
    ASSUME NEW Ch, NEW t, Text(t, Ch), NEW p, NEW x, NEW q, ItemAt(t, p, x, q, Ch)
    PROVE  /\ ParseItem(t, p) = Read(ItemWithin(x), x, q)
           /\ p \in Offsets(t) /\ q \in (p + 1)..(Len(t) + 1)
  <1>1. PICK m : BareAt(t, p, x.val, m, Ch) /\ ParamsAt(t, m, x.params, q, Ch)
    BY DEF ItemAt
  <1>2. x = [val |-> x.val, params |-> x.params]
    BY DEF ItemAt
  <1>3. p \in Offsets(t) /\ q \in (p + 1)..(Len(t) + 1)
    BY <1>1 DEF BareAt, ParamsAt, Offsets, Text
  <1>4. parseBareItem(t, p) = Read(BareWithin(x.val), x.val, m)
    BY <1>1, BareIsRead
  <1>5. parseParameters(t, m) = Read(ParamsWithin(x.params), x.params, q)
    BY <1>1, ParamsIsRead
  <1>6. ParseItem(t, p) =
          Then(parseBareItem(t, p), LAMBDA v, j :
            Then(parseParameters(t, j), LAMBDA ps, k : Got([val |-> v, params |-> ps], k)))
    BY DEF ParseItem
  <1>7. CASE ~BareWithin(x.val)
    BY <1>3, <1>4, <1>6, <1>7, Results DEF Read, Then, ItemWithin
  <1>8. CASE BareWithin(x.val)
    <2>1. ParseItem(t, p) = Then(parseParameters(t, m), LAMBDA ps, k : Got([val |-> x.val, params |-> ps], k))
      BY <1>4, <1>6, <1>8, Results DEF Read, Then
    <2>2. CASE ParamsWithin(x.params)
      BY <1>2, <1>3, <1>5, <1>8, <2>1, <2>2, Results DEF Read, Then, ItemWithin
    <2>3. CASE ~ParamsWithin(x.params)
      BY <1>3, <1>5, <2>1, <2>3, Results DEF Read, Then, ItemWithin
    <2> QED
      BY <2>2, <2>3
  <1> QED
    BY <1>7, <1>8

\* An item begins with a character of its own.
LEMMA BareStarts ==
    ASSUME NEW Ch, NEW t, Text(t, Ch), NEW p, NEW v, NEW q, BareAt(t, p, v, q, Ch)
    PROVE  peek(t, p) \in Starters
  <1> DEFINE w == SubSeq(t, p, q - 1)
  <1>1. p \in Offsets(t) /\ q \in (p + 1)..(Len(t) + 1) /\ q \in p..(Len(t) + 1) /\ Spelt(w, v, Ch)
    BY DEF BareAt, Offsets, Text
  <1>2. Holds(t, p, w) /\ Len(w) = q - p
    BY <1>1, Between
  <1>3. Len(w) \in Nat /\ 1 \in 1..Len(w) /\ (p - 1) + 1 = p
    BY <1>1, <1>2 DEF Offsets, Text
  <1> HIDE DEF w
  <1>4. peek(t, (p - 1) + 1) = w[1]
    BY <1>2, <1>3, HeldAt
  <1>5. peek(t, p) = w[1]
    BY <1>3, <1>4
  <1>6. ASSUME NEW c, Holds(t, p, <<c>>) PROVE peek(t, p) = c
    <2>1. p \in Nat \ {0} /\ p <= Len(t) /\ t[p] = c
      BY <1>6, HoldsOne
    <2> QED
      BY <2>1 DEF peek
  <1>7. /\ "?" \in Starters /\ "-" \in Starters /\ Quote \in Starters /\ ":" \in Starters
        /\ isDigit \subseteq Starters /\ isAlpha \cup {"*"} \subseteq Starters
    BY Zenon DEF Starters
  <1>8. CASE BoolSpelt(w, v)
    <2>1. w[1] = "?"
      BY <1>8 DEF BoolSpelt
    <2> QED
      BY <1>5, <1>7, <2>1
  <1>9. CASE IntSpelt(w, v)
    <2>1. PICK d \in Numerals : w = d \/ w = <<"-">> \o d
      BY <1>9 DEF IntSpelt
    <2>2. d \in Seq(isDigit) /\ Len(d) \in 1..MaxDigits /\ MaxDigits \in Nat
      BY NumeralsAreDigits, FieldsAssumption
    <2>3. CASE w = d
      <3>1. w[1] \in isDigit
        BY <1>3, <2>2, <2>3
      <3> QED
        BY <1>5, <1>7, <3>1
    <2>4. CASE w = <<"-">> \o d
      <3> DEFINE u == <<"-">>
                 T == {"-"} \cup isDigit
      <3>1. u \in Seq(T) /\ d \in Seq(T)
        BY <2>2
      <3>2. w = u \o d
        BY <2>4
      <3> HIDE DEF u, T
      <3>3. Holds(t, p, u)
        BY <1>2, <3>1, <3>2, HoldsParts
      <3> QED
        BY <1>6, <1>7, <3>3 DEF u
    <2> QED
      BY <2>1, <2>3, <2>4
  <1>10. CASE StrSpelt(w, v, Ch)
    <2>1. PICK x \in Seq(Ch \ Unprintables) : w = writeString(x)
      BY <1>10 DEF StrSpelt
    <2>2. Holds(t, p, <<Quote>>)
      BY <1>2, <2>1, HoldsString
    <2> QED
      BY <1>6, <1>7, <2>2
  <1>11. CASE TokSpelt(w, v)
    BY <1>5, <1>7, <1>11 DEF TokSpelt, IsToken
  <1>12. CASE BinSpelt(w, v)
    <2>1. PICK b \in Seq(isBase64Char) : w = <<":">> \o b \o <<":">>
      BY <1>12 DEF BinSpelt
    <2>2. Holds(t, p, <<":">>)
      BY <1>2, <2>1, HoldsBytes
    <2> QED
      BY <1>6, <1>7, <2>2
  <1> QED
    BY <1>1, <1>8, <1>9, <1>10, <1>11, <1>12 DEF Spelt

-----------------------------------------------------------------------------
(* Inner lists.                                                            *)

BeforeClosing(s) == {k \in Offsets(s) : peek(s, skipSP(s, k)) # ")"}
Items(s)         == [k \in Offsets(s) |-> ParseItem(s, skipSP(s, k))]

ItemsAt(t, p, xs, q, Ch) ==
    /\ p \in Offsets(t) /\ q \in p..(Len(t) + 1) /\ Tuple(xs) /\ peek(t, skipSP(t, q)) = ")"
    /\ \E at : /\ at[0] = p /\ at[Len(xs)] = q
               /\ \A k \in 1..Len(xs) : /\ at[k - 1] \in Offsets(t)
                                        /\ ItemAt(t, skipSP(t, at[k - 1]), xs[k], at[k], Ch)

ItemsWithin(xs) == /\ ~Exceeds(Len(xs), Limits.MaxInnerListMembers)
                   /\ \A k \in 1..Len(xs) : ItemWithin(xs[k])

LEMMA SkipSpaces ==
    ASSUME NEW Ch, NEW s, Text(s, Ch), NEW k \in Offsets(s)
    PROVE  /\ skipSP(s, k) \in Offsets(s) /\ skipSP(s, k) \in k..(Len(s) + 1)
           /\ peek(s, skipSP(s, k)) # SP
           /\ peek(s, k) # SP => skipSP(s, k) = k
  <1>1. "EOF" \notin {SP}
    BY DelimitersDiffer
  <1>2. k \in Nat /\ Len(s) \in Nat
    BY DEF Offsets, Text
  <1>3. /\ Span(s, k, {SP}) \in k..(Len(s) + 1) /\ peek(s, Span(s, k, {SP})) \notin {SP}
        /\ \A e \in k..(Len(s) + 1) :
             (\A m \in k..(e - 1) : s[m] \in {SP}) /\ peek(s, e) \notin {SP} => Span(s, k, {SP}) = e
    BY <1>1, SpanPeeks
  <1>4. ASSUME peek(s, k) # SP PROVE Span(s, k, {SP}) = k
    <2>1. k \in k..(Len(s) + 1) /\ \A m \in k..(k - 1) : s[m] \in {SP}
      BY <1>2 DEF Offsets
    <2> QED
      BY <1>3, <1>4, <2>1
  <1> QED
    BY <1>2, <1>3, <1>4 DEF skipSP, Offsets

LEMMA ItemsAdvance ==
    ASSUME NEW Ch, NEW s, Text(s, Ch)
    PROVE  Len(s) \in Nat /\ Advances(s, BeforeClosing(s), Items(s))
  <1>1. Len(s) \in Nat
    BY DEF Text
  <1>2. ASSUME NEW k \in Offsets(s) PROVE IsRead(Items(s)[k], k, s)
    <2> DEFINE b == skipSP(s, k)
    <2>1. Items(s)[k] = ParseItem(s, b)
      BY DEF Items
    <2>2. b \in Offsets(s) /\ b \in k..(Len(s) + 1)
      BY SkipSpaces
    <2> HIDE DEF b
    <2>3. CASE ParseItem(s, b) = Fail
      BY <2>1, <2>3 DEF IsRead
    <2>4. CASE ParseItem(s, b) # Fail
      <3>1. PICK x, j : ParseItem(s, b) = Got(x, j) /\ j \in (b + 1)..(Len(s) + 1)
        BY <2>2, <2>4, ItemReturns
      <3>2. j \in (k + 1)..(Len(s) + 1)
        BY <1>1, <2>2, <3>1 DEF Offsets
      <3> QED
        BY <2>1, <3>1, <3>2, GotIsRead
    <2> QED
      BY <2>3, <2>4
  <1> QED
    BY <1>1, <1>2 DEF Advances

LEMMA InnerListItemsIs ==
    ASSUME NEW s, NEW i
    PROVE  innerListItems(s, i) =
             Within(Rounds(s, i, BeforeClosing(s), Items(s)), Limits.MaxInnerListMembers)
  BY DEF innerListItems, BeforeClosing, Items

LEMMA ItemsReturns ==
    ASSUME NEW Ch, NEW s, Text(s, Ch), NEW i \in Offsets(s)
    PROVE  \/ innerListItems(s, i) = Fail
           \/ \E xs, j : /\ innerListItems(s, i) = Got(xs, j) /\ j \in i..(Len(s) + 1)
                         /\ ItemsAt(s, i, xs, j, Ch) /\ ItemsWithin(xs)
  <1> DEFINE more  == BeforeClosing(s)
             round == Items(s)
             r     == Rounds(s, i, more, round)
  <1>1. Len(s) \in Nat /\ Advances(s, more, round)
    BY ItemsAdvance
  <1>2. innerListItems(s, i) = Within(r, Limits.MaxInnerListMembers)
    BY InnerListItemsIs
  <1>3. \/ r = Fail
        \/ \E at, xs : /\ xs \in Seq(Readings(s, round)) /\ at[0] = i
                       /\ Passes(s, more, round, at, xs)
                       /\ at[Len(xs)] \in i..(Len(s) + 1) /\ at[Len(xs)] \notin more
                       /\ r = Got(xs, at[Len(xs)])
    <2> HIDE DEF more, round
    <2> QED
      BY <1>1, RoundsRead
  <1>4. CASE r = Fail
    <2> HIDE DEF r
    <2> QED
      BY <1>2, <1>4, WithinResults
  <1>5. ASSUME NEW at, NEW xs, xs \in Seq(Readings(s, round)), at[0] = i,
               Passes(s, more, round, at, xs),
               at[Len(xs)] \in i..(Len(s) + 1), at[Len(xs)] \notin more,
               r = Got(xs, at[Len(xs)]), innerListItems(s, i) # Fail
        PROVE  \E ys, j : /\ innerListItems(s, i) = Got(ys, j) /\ j \in i..(Len(s) + 1)
                          /\ ItemsAt(s, i, ys, j, Ch) /\ ItemsWithin(ys)
    <2> DEFINE j == at[Len(xs)]
    <2>1. Tuple(xs)
      BY <1>5, Tuples
    <2>2. ASSUME NEW k \in 1..Len(xs)
          PROVE  /\ at[k - 1] \in Offsets(s) /\ ItemAt(s, skipSP(s, at[k - 1]), xs[k], at[k], Ch)
                 /\ ItemWithin(xs[k])
      <3> DEFINE m == at[k - 1]
                 b == skipSP(s, m)
                 y == xs[k]
                 f == at[k]
      <3>1. m \in Offsets(s) /\ round[m] = Got(y, f)
        BY <1>5 DEF Passes
      <3>2. ParseItem(s, b) = Got(y, f)
        BY <3>1 DEF Items
      <3> HIDE DEF m, y, f
      <3>3. b \in Offsets(s)
        BY <3>1, SkipSpaces
      <3> HIDE DEF b
      <3>4. PICK x, e : ParseItem(s, b) = Got(x, e) /\ ItemAt(s, b, x, e, Ch) /\ ItemWithin(x)
        BY <3>2, <3>3, ItemReturns, Results
      <3>6. Got(x, e) = Got(y, f)
        BY <3>2, <3>4
      <3>5. x = y /\ e = f
        BY <3>6, Results
      <3> QED
        BY <3>1, <3>4, <3>5 DEF m, b, y, f
    <2>3. peek(s, skipSP(s, j)) = ")" /\ j \in i..(Len(s) + 1)
      <3>1. j \in Offsets(s) /\ j \notin more
        BY <1>1, <1>5 DEF Offsets
      <3> QED
        BY <1>5, <3>1 DEF BeforeClosing
    <2>4. innerListItems(s, i) = Read(~Exceeds(Len(xs), Limits.MaxInnerListMembers), xs, j)
      <3> HIDE DEF j, r
      <3> QED
        BY <1>2, <1>5, WithinResults DEF j
    <2> HIDE DEF more, round, r
    <2>5. innerListItems(s, i) = Got(xs, j) /\ ~Exceeds(Len(xs), Limits.MaxInnerListMembers)
      BY <1>5, <2>4 DEF Read
    <2>6. ItemsAt(s, i, xs, j, Ch)
      BY <1>5, <2>1, <2>2, <2>3 DEF ItemsAt
    <2>7. ItemsWithin(xs)
      BY <2>2, <2>5 DEF ItemsWithin
    <2> QED
      BY <2>3, <2>5, <2>6, <2>7
  <1> HIDE DEF more, round, r
  <1> QED
    BY <1>3, <1>4, <1>5

LEMMA ItemsIsRead ==
    ASSUME NEW Ch, NEW t, Text(t, Ch), NEW p, NEW xs, NEW q, ItemsAt(t, p, xs, q, Ch)
    PROVE  innerListItems(t, p) = Read(ItemsWithin(xs), xs, q)
  <1> DEFINE more  == BeforeClosing(t)
             round == Items(t)
             good  == {xs[k] : k \in {m \in 1..Len(xs) : ItemWithin(xs[m])}}
             all   == \A k \in 1..Len(xs) : xs[k] \in good
  <1>1. Len(t) \in Nat /\ Advances(t, more, round)
    BY ItemsAdvance
  <1>2. /\ p \in Offsets(t) /\ q \in p..(Len(t) + 1) /\ q \in Offsets(t)
        /\ Tuple(xs) /\ peek(t, skipSP(t, q)) = ")"
    BY DEF ItemsAt, Offsets, Text
  <1>3. PICK at : /\ at[0] = p /\ at[Len(xs)] = q
                  /\ \A k \in 1..Len(xs) : /\ at[k - 1] \in Offsets(t)
                                           /\ ItemAt(t, skipSP(t, at[k - 1]), xs[k], at[k], Ch)
    BY DEF ItemsAt
  <1>4. ASSUME NEW k \in 1..Len(xs)
        PROVE  /\ at[k - 1] \in Offsets(t) /\ at[k - 1] \in more
               /\ xs[k] \in good => round[at[k - 1]] = Got(xs[k], at[k])
               /\ xs[k] \notin good => round[at[k - 1]] = Fail
    <2> DEFINE m == at[k - 1]
               b == skipSP(t, m)
    <2>1. m \in Offsets(t) /\ ItemAt(t, b, xs[k], at[k], Ch)
      BY <1>3
    <2>2. xs[k] \in good <=> ItemWithin(xs[k])
      OBVIOUS
    <2> HIDE DEF m, good
    <2> HIDE DEF b
    <2>3. ParseItem(t, b) = Read(ItemWithin(xs[k]), xs[k], at[k])
      BY <2>1, ItemIsRead
    <2>4. peek(t, b) \in Starters
      <3>1. PICK e : BareAt(t, b, xs[k].val, e, Ch)
        BY <2>1 DEF ItemAt
      <3> QED
        BY <3>1, BareStarts
    <2>5. peek(t, b) # ")"
      BY <2>4, StarterClasses
    <2>6. m \in more /\ round[m] = ParseItem(t, b)
      BY <2>1, <2>5 DEF BeforeClosing, Items, b
    <2> QED
      BY <2>1, <2>2, <2>3, <2>6 DEF m, Read
  <1>5. q \notin more
    BY <1>2 DEF BeforeClosing
  <1>6. all <=> \A k \in 1..Len(xs) : ItemWithin(xs[k])
    OBVIOUS
  <1> HIDE DEF more, round, good
  <1>7. Rounds(t, p, more, round) = Read(all, xs, q)
    <2>1. /\ AllOf(xs, good) => Rounds(t, at[0], more, round) = Got(xs, at[Len(xs)])
          /\ ~AllOf(xs, good) => Rounds(t, at[0], more, round) = Fail
      <3>1. at[Len(xs)] \in Offsets(t) /\ at[Len(xs)] \notin more
        BY <1>2, <1>3, <1>5
      <3>2. TriedAlong(t, more, round, at, xs, good)
        BY <1>4 DEF TriedAlong
      <3>3. Tuple(xs)
        BY <1>2
      <3> QED
        BY ONLY <1>1, <3>1, <3>2, <3>3, LoopReads
    <2> QED
      BY <1>3, <2>1 DEF Read, AllOf
  <1> HIDE DEF all
  <1>8. innerListItems(t, p) = Within(Read(all, xs, q), Limits.MaxInnerListMembers)
    BY <1>7, InnerListItemsIs DEF more, round
  <1>9. ItemsWithin(xs) <=> all /\ ~Exceeds(Len(xs), Limits.MaxInnerListMembers)
    BY <1>6 DEF ItemsWithin
  <1>10. CASE all
    <2>1. innerListItems(t, p) = Read(~Exceeds(Len(xs), Limits.MaxInnerListMembers), xs, q)
      BY <1>8, <1>10, WithinResults DEF Read
    <2> QED
      BY <1>9, <1>10, <2>1 DEF Read
  <1>11. CASE ~all
    BY <1>8, <1>9, <1>11, WithinResults DEF Read
  <1> QED
    BY <1>10, <1>11

ListAt(t, p, x, q, Ch) ==
    /\ p \in Offsets(t) /\ peek(t, p) = "("
    /\ x = [items |-> x.items, params |-> x.params]
    /\ \E e : ItemsAt(t, p + 1, x.items, e, Ch) /\ ParamsAt(t, skipSP(t, e) + 1, x.params, q, Ch)

ListWithin(x) == ItemsWithin(x.items) /\ ParamsWithin(x.params)

LEMMA ListReturns ==
    ASSUME NEW Ch, NEW s, Text(s, Ch), NEW i \in Offsets(s), peek(s, i) = "("
    PROVE  \/ parseInnerList(s, i) = Fail
           \/ \E x, j : /\ parseInnerList(s, i) = Got(x, j) /\ j \in (i + 1)..(Len(s) + 1)
                        /\ ListAt(s, i, x, j, Ch) /\ ListWithin(x)
  <1>1. parseInnerList(s, i) =
          Then(innerListItems(s, i + 1), LAMBDA items, j :
            Then(parseParameters(s, skipSP(s, j) + 1), LAMBDA ps, k :
              Got([items |-> items, params |-> ps], k)))
    BY DEF parseInnerList
  <1> SUFFICES ASSUME parseInnerList(s, i) # Fail
               PROVE  \E x, j : /\ parseInnerList(s, i) = Got(x, j) /\ j \in (i + 1)..(Len(s) + 1)
                                /\ ListAt(s, i, x, j, Ch) /\ ListWithin(x)
    OBVIOUS
  <1>2. i + 1 \in Offsets(s) /\ Len(s) \in Nat /\ i \in Nat
    BY AfterMark, DelimitersDiffer DEF Offsets
  <1>3. innerListItems(s, i + 1) # Fail
    BY <1>1, Results DEF Then
  <1>4. PICK xs, e : /\ innerListItems(s, i + 1) = Got(xs, e) /\ e \in (i + 1)..(Len(s) + 1)
                     /\ ItemsAt(s, i + 1, xs, e, Ch) /\ ItemsWithin(xs)
    BY <1>2, <1>3, ItemsReturns
  <1> DEFINE b == skipSP(s, e)
  <1>5. e \in Offsets(s) /\ b \in Offsets(s) /\ b \in e..(Len(s) + 1) /\ peek(s, b) = ")"
    BY <1>2, <1>4, SkipSpaces DEF ItemsAt, Offsets
  <1>6. parseInnerList(s, i) = Then(parseParameters(s, b + 1), LAMBDA ps, k :
              Got([items |-> xs, params |-> ps], k))
    BY <1>1, <1>4, Results DEF Then
  <1>7. parseParameters(s, b + 1) # Fail
    BY <1>6, Results DEF Then
  <1> HIDE DEF b
  <1>8. b + 1 \in Offsets(s)
    BY <1>5, AfterMark, DelimitersDiffer
  <1>9. PICK ps, j : /\ parseParameters(s, b + 1) = Got(ps, j) /\ j \in (b + 1)..(Len(s) + 1)
                     /\ ParamsAt(s, b + 1, ps, j, Ch) /\ ParamsWithin(ps)
    BY <1>7, <1>8, ParamsReturns
  <1> DEFINE x == [items |-> xs, params |-> ps]
  <1>10. parseInnerList(s, i) = Got(x, j)
    BY <1>6, <1>9, Results DEF Then
  <1>11. x.items = xs /\ x.params = ps /\ x = [items |-> x.items, params |-> x.params]
    OBVIOUS
  <1> HIDE DEF x
  <1>12. ListAt(s, i, x, j, Ch) /\ ListWithin(x)
    BY <1>4, <1>9, <1>11 DEF ListAt, ListWithin, b
  <1>13. j \in (i + 1)..(Len(s) + 1)
    BY <1>2, <1>4, <1>5, <1>9
  <1> QED
    BY <1>10, <1>12, <1>13

LEMMA ListIsRead ==
    ASSUME NEW Ch, NEW t, Text(t, Ch), NEW p, NEW x, NEW q, ListAt(t, p, x, q, Ch)
    PROVE  /\ parseInnerList(t, p) = Read(ListWithin(x), x, q)
           /\ p \in Offsets(t) /\ q \in (p + 1)..(Len(t) + 1) /\ peek(t, p) = "("
  <1>1. PICK e : ItemsAt(t, p + 1, x.items, e, Ch) /\ ParamsAt(t, skipSP(t, e) + 1, x.params, q, Ch)
    BY DEF ListAt
  <1>2. /\ x = [items |-> x.items, params |-> x.params] /\ p \in Offsets(t) /\ peek(t, p) = "("
        /\ p + 1 \in Offsets(t) /\ Len(t) \in Nat /\ p \in Nat
    BY AfterMark, DelimitersDiffer DEF ListAt, Offsets
  <1>3. q \in (p + 1)..(Len(t) + 1)
    <2>1. e \in Offsets(t) /\ e \in (p + 1)..(Len(t) + 1)
      BY <1>1, <1>2 DEF ItemsAt, Offsets
    <2>2. skipSP(t, e) \in e..(Len(t) + 1)
      BY <2>1, SkipSpaces
    <2>3. q \in (skipSP(t, e) + 1)..(Len(t) + 1)
      BY <1>1 DEF ParamsAt
    <2> QED
      BY <1>2, <2>1, <2>2, <2>3
  <1>4. innerListItems(t, p + 1) = Read(ItemsWithin(x.items), x.items, e)
    BY <1>1, ItemsIsRead
  <1>5. parseParameters(t, skipSP(t, e) + 1) = Read(ParamsWithin(x.params), x.params, q)
    BY <1>1, ParamsIsRead
  <1>6. parseInnerList(t, p) =
          Then(innerListItems(t, p + 1), LAMBDA items, j :
            Then(parseParameters(t, skipSP(t, j) + 1), LAMBDA ps, k :
              Got([items |-> items, params |-> ps], k)))
    BY DEF parseInnerList
  <1>7. CASE ~ItemsWithin(x.items)
    BY <1>2, <1>3, <1>4, <1>6, <1>7, Results DEF Read, Then, ListWithin
  <1>8. CASE ItemsWithin(x.items)
    <2>1. parseInnerList(t, p) = Then(parseParameters(t, skipSP(t, e) + 1), LAMBDA ps, k :
              Got([items |-> x.items, params |-> ps], k))
      BY <1>4, <1>6, <1>8, Results DEF Read, Then
    <2>2. CASE ParamsWithin(x.params)
      BY <1>2, <1>3, <1>5, <1>8, <2>1, <2>2, Results DEF Read, Then, ListWithin
    <2>3. CASE ~ParamsWithin(x.params)
      BY <1>2, <1>3, <1>5, <2>1, <2>3, Results DEF Read, Then, ListWithin
    <2> QED
      BY <2>2, <2>3
  <1> QED
    BY <1>7, <1>8

-----------------------------------------------------------------------------
(* Members of lists and of dictionaries.                                   *)

MemberAt(t, p, x, q, Ch) == ItemAt(t, p, x, q, Ch) \/ ListAt(t, p, x, q, Ch)

\* The fields of an item and of an inner list.
LEMMA MemberKinds ==
    /\ \A v, ps : DOMAIN [val |-> v, params |-> ps] = {"val", "params"}
    /\ \A xs, ps : DOMAIN [items |-> xs, params |-> ps] = {"items", "params"}
    /\ "val" \notin {"items", "params"} /\ "items" \notin {"val", "params"}
  OBVIOUS

LEMMA MemberWithinIs ==
    ASSUME NEW Ch, NEW t, NEW p, NEW x, NEW q
    PROVE  /\ ItemAt(t, p, x, q, Ch) => /\ MemberWithin(x) <=> ItemWithin(x)
                                        /\ "val" \in DOMAIN x /\ "items" \notin DOMAIN x
           /\ ListAt(t, p, x, q, Ch) => /\ MemberWithin(x) <=> ListWithin(x)
                                        /\ "val" \notin DOMAIN x /\ "items" \in DOMAIN x
  <1>1. ASSUME ItemAt(t, p, x, q, Ch) PROVE "val" \in DOMAIN x /\ "items" \notin DOMAIN x
    <2>1. x = [val |-> x.val, params |-> x.params]
      BY <1>1 DEF ItemAt
    <2>2. DOMAIN x = {"val", "params"}
      BY <2>1, MemberKinds
    <2> QED
      BY <2>2, MemberKinds
  <1>2. ASSUME ListAt(t, p, x, q, Ch) PROVE "val" \notin DOMAIN x /\ "items" \in DOMAIN x
    <2>1. x = [items |-> x.items, params |-> x.params]
      BY <1>2 DEF ListAt
    <2>2. DOMAIN x = {"items", "params"}
      BY <2>1, MemberKinds
    <2> QED
      BY <2>2, MemberKinds
  <1> QED
    BY <1>1, <1>2 DEF MemberWithin, ListWithin, ItemsWithin

LEMMA MemberReturns ==
    ASSUME NEW Ch, NEW s, Text(s, Ch), NEW i \in Offsets(s)
    PROVE  \/ parseValue(s, i) = Fail
           \/ \E x, j : /\ parseValue(s, i) = Got(x, j) /\ j \in (i + 1)..(Len(s) + 1)
                        /\ MemberAt(s, i, x, j, Ch) /\ MemberWithin(x)
  <1>1. CASE peek(s, i) = "("
    <2>1. parseValue(s, i) = parseInnerList(s, i)
      BY <1>1 DEF parseValue
    <2> QED
      BY <1>1, <2>1, ListReturns, MemberWithinIs DEF MemberAt
  <1>2. CASE peek(s, i) # "("
    <2>1. parseValue(s, i) = ParseItem(s, i)
      BY <1>2 DEF parseValue
    <2> QED
      BY <2>1, ItemReturns, MemberWithinIs DEF MemberAt
  <1> QED
    BY <1>1, <1>2

LEMMA MemberIsRead ==
    ASSUME NEW Ch, NEW t, Text(t, Ch), NEW p, NEW x, NEW q, MemberAt(t, p, x, q, Ch)
    PROVE  /\ parseValue(t, p) = Read(MemberWithin(x), x, q)
           /\ p \in Offsets(t) /\ q \in (p + 1)..(Len(t) + 1)
  <1>1. CASE ItemAt(t, p, x, q, Ch)
    <2>1. PICK m : BareAt(t, p, x.val, m, Ch)
      BY <1>1 DEF ItemAt
    <2>2. peek(t, p) # "("
      BY <2>1, BareStarts, StarterClasses
    <2>3. parseValue(t, p) = ParseItem(t, p)
      BY <2>2 DEF parseValue
    <2>4. MemberWithin(x) <=> ItemWithin(x)
      BY <1>1, MemberWithinIs
    <2>5. /\ ParseItem(t, p) = Read(ItemWithin(x), x, q)
          /\ p \in Offsets(t) /\ q \in (p + 1)..(Len(t) + 1)
      BY <1>1, ItemIsRead
    <2> QED
      BY <2>3, <2>4, <2>5 DEF Read
  <1>2. CASE ListAt(t, p, x, q, Ch)
    <2>1. /\ parseInnerList(t, p) = Read(ListWithin(x), x, q)
          /\ p \in Offsets(t) /\ q \in (p + 1)..(Len(t) + 1) /\ peek(t, p) = "("
      BY <1>2, ListIsRead
    <2>2. parseValue(t, p) = parseInnerList(t, p)
      BY <2>1 DEF parseValue
    <2>3. MemberWithin(x) <=> ListWithin(x)
      BY <1>2, MemberWithinIs
    <2> QED
      BY <2>1, <2>2, <2>3 DEF Read
  <1> QED
    BY <1>1, <1>2 DEF MemberAt

Flag == [val |-> BareTrue, params |-> <<>>]

LEMMA FlagIs == Flag.val = BareTrue /\ Flag.params = <<>> /\ MemberWithin(Flag)
  <1>1. Flag.val = BareTrue /\ Flag.params = <<>> /\ "val" \in DOMAIN Flag
    BY DEF Flag
  <1>2. ParamsWithin(<<>>)
    BY FieldsAssumption DEF ParamsWithin, Exceeds
  <1>3. BareWithin(BareTrue)
    BY KindsWithin DEF BareTrue
  <1> QED
    BY <1>1, <1>2, <1>3 DEF MemberWithin, ItemWithin

EntryAt(t, p, x, q, Ch) ==
    /\ p \in Offsets(t)
    /\ x = [key |-> x.key, member |-> x.member]
    /\ \E m : /\ KeyAt(t, p, x.key, m)
              /\ \/ peek(t, m) = "=" /\ MemberAt(t, m + 1, x.member, q, Ch)
                 \/ peek(t, m) \notin Blank \cup {"="} /\ x.member = Flag /\ q = m

EntryWithin(x) == KeyWithin(x.key) /\ MemberWithin(x.member)

LEMMA Blanks ==
    /\ "=" \notin Blank /\ "EOF" \notin Blank /\ Comma \notin Blank
    /\ Blank = {SP, HT}
  BY DelimitersDiffer DEF Blank

\* What comes after a key.
AfterKey(s, j) ==
    CASE peek(s, j) \in Blank -> Fail
      [] peek(s, j) = "="     -> parseValue(s, j + 1)
      [] OTHER                -> Got(Flag, j)

LEMMA AfterKeyIs ==
    ASSUME NEW s, NEW j
    PROVE  /\ peek(s, j) \in Blank => AfterKey(s, j) = Fail
           /\ peek(s, j) = "=" => AfterKey(s, j) = parseValue(s, j + 1)
           /\ peek(s, j) \notin Blank \cup {"="} => AfterKey(s, j) = Got(Flag, j)
  BY Blanks DEF AfterKey

LEMMA DictionaryMemberIs ==
    ASSUME NEW s, NEW i
    PROVE  parseDictionaryMember(s, i) =
             Then(parseToken(s, i), LAMBDA key, j :
               Then(AfterKey(s, j), LAMBDA member, k : Got([key |-> key.tok, member |-> member], k)))
  BY DEF parseDictionaryMember, AfterKey, Flag

LEMMA EntryReturns ==
    ASSUME NEW Ch, NEW s, Text(s, Ch), NEW i \in Offsets(s)
    PROVE  \/ parseDictionaryMember(s, i) = Fail
           \/ \E x, j : /\ parseDictionaryMember(s, i) = Got(x, j) /\ j \in (i + 1)..(Len(s) + 1)
                        /\ EntryAt(s, i, x, j, Ch) /\ EntryWithin(x)
  <1> SUFFICES ASSUME parseDictionaryMember(s, i) # Fail
               PROVE  \E x, j : /\ parseDictionaryMember(s, i) = Got(x, j) /\ j \in (i + 1)..(Len(s) + 1)
                                /\ EntryAt(s, i, x, j, Ch) /\ EntryWithin(x)
    OBVIOUS
  <1>1. parseToken(s, i) # Fail
    BY DictionaryMemberIs, Results DEF Then
  <1>2. PICK key, m : parseToken(s, i) = Got([tok |-> key], m) /\ KeyAt(s, i, key, m) /\ KeyWithin(key)
    BY <1>1, KeyReturns
  <1>3. parseDictionaryMember(s, i) =
          Then(AfterKey(s, m), LAMBDA member, k : Got([key |-> key, member |-> member], k))
    BY <1>2, DictionaryMemberIs, Results DEF Then
  <1>4. m \in (i + 1)..(Len(s) + 1) /\ m \in Offsets(s) /\ Len(s) \in Nat /\ i \in Nat
    BY <1>2 DEF KeyAt, Offsets, Text
  <1>5. AfterKey(s, m) # Fail
    BY <1>3, Results DEF Then
  <1>6. ASSUME NEW v, NEW j, AfterKey(s, m) = Got(v, j), MemberWithin(v), j \in m..(Len(s) + 1),
               \/ peek(s, m) = "=" /\ MemberAt(s, m + 1, v, j, Ch)
               \/ peek(s, m) \notin Blank \cup {"="} /\ v = Flag /\ j = m
        PROVE  \E x, k : /\ parseDictionaryMember(s, i) = Got(x, k) /\ k \in (i + 1)..(Len(s) + 1)
                         /\ EntryAt(s, i, x, k, Ch) /\ EntryWithin(x)
    <2> DEFINE x == [key |-> key, member |-> v]
    <2>1. parseDictionaryMember(s, i) = Got(x, j)
      BY <1>3, <1>6, Results DEF Then
    <2>2. x.key = key /\ x.member = v /\ x = [key |-> x.key, member |-> x.member]
      OBVIOUS
    <2> HIDE DEF x
    <2>3. EntryAt(s, i, x, j, Ch)
      BY <1>2, <1>6, <2>2 DEF EntryAt
    <2>4. EntryWithin(x) /\ j \in (i + 1)..(Len(s) + 1)
      BY <1>2, <1>4, <1>6, <2>2 DEF EntryWithin
    <2> QED
      BY <2>1, <2>3, <2>4
  <1>7. CASE peek(s, m) \in Blank
    BY <1>5, <1>7, AfterKeyIs
  <1>8. CASE peek(s, m) \notin Blank \cup {"="}
    BY <1>4, <1>6, <1>8, AfterKeyIs, FlagIs
  <1>9. CASE peek(s, m) = "="
    <2>1. m + 1 \in Offsets(s)
      BY <1>4, <1>9, AfterMark, DelimitersDiffer
    <2>2. AfterKey(s, m) = parseValue(s, m + 1)
      BY <1>9, AfterKeyIs
    <2>3. PICK v, j : /\ parseValue(s, m + 1) = Got(v, j) /\ j \in ((m + 1) + 1)..(Len(s) + 1)
                      /\ MemberAt(s, m + 1, v, j, Ch) /\ MemberWithin(v)
      BY <1>5, <2>1, <2>2, MemberReturns
    <2>4. j \in m..(Len(s) + 1)
      BY <1>4, <2>3
    <2> QED
      BY <1>6, <1>9, <2>2, <2>3, <2>4
  <1> QED
    BY <1>7, <1>8, <1>9

LEMMA EntryIsRead ==
    ASSUME NEW Ch, NEW t, Text(t, Ch), NEW p, NEW x, NEW q, EntryAt(t, p, x, q, Ch)
    PROVE  /\ parseDictionaryMember(t, p) = Read(EntryWithin(x), x, q)
           /\ p \in Offsets(t) /\ q \in (p + 1)..(Len(t) + 1)
  <1>1. PICK m : /\ KeyAt(t, p, x.key, m)
                 /\ \/ peek(t, m) = "=" /\ MemberAt(t, m + 1, x.member, q, Ch)
                    \/ peek(t, m) \notin Blank \cup {"="} /\ x.member = Flag /\ q = m
    BY DEF EntryAt
  <1>2. x = [key |-> x.key, member |-> x.member] /\ p \in Offsets(t)
    BY DEF EntryAt
  <1>3. m \in (p + 1)..(Len(t) + 1) /\ Len(t) \in Nat /\ p \in Nat
    BY <1>1, <1>2 DEF KeyAt, Offsets, Text
  <1>4. parseToken(t, p) = Read(KeyWithin(x.key), [tok |-> x.key], m)
    BY <1>1, KeyIsRead
  <1>5. AfterKey(t, m) = Read(MemberWithin(x.member), x.member, q) /\ q \in m..(Len(t) + 1)
    <2>1. CASE peek(t, m) = "="
      <3>1. MemberAt(t, m + 1, x.member, q, Ch)
        BY <1>1, <2>1
      <3> QED
        BY <1>3, <2>1, <3>1, AfterKeyIs, MemberIsRead
    <2>2. CASE peek(t, m) # "="
      <3>1. x.member = Flag /\ q = m /\ AfterKey(t, m) = Got(Flag, m)
        BY <1>1, <2>2, AfterKeyIs
      <3> QED
        BY <1>3, <3>1, FlagIs DEF Read
    <2> QED
      BY <2>1, <2>2
  <1>6. q \in (p + 1)..(Len(t) + 1)
    BY <1>3, <1>5
  <1>7. CASE ~KeyWithin(x.key)
    BY <1>2, <1>4, <1>6, <1>7, DictionaryMemberIs, Results DEF Read, Then, EntryWithin
  <1>8. CASE KeyWithin(x.key)
    <2>1. parseDictionaryMember(t, p) =
            Then(AfterKey(t, m), LAMBDA member, k : Got([key |-> x.key, member |-> member], k))
      BY <1>4, <1>8, DictionaryMemberIs, Results DEF Read, Then
    <2>2. CASE MemberWithin(x.member)
      BY <1>2, <1>5, <1>6, <1>8, <2>1, <2>2, Results DEF Read, Then, EntryWithin
    <2>3. CASE ~MemberWithin(x.member)
      BY <1>2, <1>5, <1>6, <2>1, <2>3, Results DEF Read, Then, EntryWithin
    <2> QED
      BY <2>2, <2>3
  <1> QED
    BY <1>7, <1>8

-----------------------------------------------------------------------------
(* Members with commas between them; member[k] is what is read at k.       *)

AfterCommas(s)    == {k \in Offsets(s) : peek(s, skipOWS(s, k)) = Comma}
Others(s, member) == [k \in Offsets(s) |-> IF afterComma(s, k) > Len(s) THEN Fail
                                           ELSE member[afterComma(s, k)]]

LEMMA PastBlanks ==
    ASSUME NEW Ch, NEW s, Text(s, Ch), NEW k \in Offsets(s)
    PROVE  /\ skipOWS(s, k) \in Offsets(s) /\ skipOWS(s, k) \in k..(Len(s) + 1)
           /\ peek(s, skipOWS(s, k)) \notin Blank
           /\ \A m \in k..(skipOWS(s, k) - 1) : s[m] \in Blank
           /\ \A e \in k..(Len(s) + 1) :
                (\A m \in k..(e - 1) : s[m] \in Blank) /\ peek(s, e) \notin Blank => skipOWS(s, k) = e
           /\ peek(s, k) \notin Blank => skipOWS(s, k) = k
  <1>1. k \in Nat /\ Len(s) \in Nat
    BY DEF Offsets, Text
  <1>2. /\ Span(s, k, Blank) \in k..(Len(s) + 1) /\ peek(s, Span(s, k, Blank)) \notin Blank
        /\ \A m \in k..(Span(s, k, Blank) - 1) : s[m] \in Blank
        /\ \A e \in k..(Len(s) + 1) :
             (\A m \in k..(e - 1) : s[m] \in Blank) /\ peek(s, e) \notin Blank => Span(s, k, Blank) = e
    BY Blanks, SpanPeeks
  <1>3. ASSUME peek(s, k) \notin Blank PROVE Span(s, k, Blank) = k
    <2>1. k \in k..(Len(s) + 1) /\ \A m \in k..(k - 1) : s[m] \in Blank
      BY <1>1 DEF Offsets
    <2> QED
      BY <1>2, <1>3, <2>1
  <1> QED
    BY <1>1, <1>2, <1>3 DEF skipOWS, Offsets

\* A sequence with one more value before it.
LEMMA Prefixed ==
    ASSUME NEW S, NEW x \in S, NEW ys \in Seq(S)
    PROVE  /\ <<x>> \o ys \in Seq(S) /\ Len(<<x>> \o ys) = Len(ys) + 1 /\ (<<x>> \o ys)[1] = x
           /\ \A k \in 1..Len(ys) : (<<x>> \o ys)[k + 1] = ys[k]
  <1> DEFINE u == <<x>>
  <1>1. u \in Seq(S) /\ Len(u) = 1 /\ u[1] = x
    OBVIOUS
  <1> HIDE DEF u
  <1>2. Len(ys) \in Nat
    OBVIOUS
  <1>3. /\ u \o ys \in Seq(S) /\ Len(u \o ys) = Len(u) + Len(ys)
        /\ \A i \in 1..(Len(u) + Len(ys)) : (u \o ys)[i] = IF i <= Len(u) THEN u[i] ELSE ys[i - Len(u)]
    BY ONLY <1>1, ys \in Seq(S), ConcatProperties
  <1>4. ASSUME NEW k \in 1..Len(ys) PROVE (u \o ys)[k + 1] = ys[k]
    <2>1. k + 1 \in 1..(Len(u) + Len(ys)) /\ ~(k + 1 <= Len(u)) /\ (k + 1) - Len(u) = k
      BY <1>1, <1>2
    <2> QED
      BY <1>3, <2>1
  <1>5. (u \o ys)[1] = x
    <2>1. 1 \in 1..(Len(u) + Len(ys)) /\ 1 <= Len(u)
      BY <1>1, <1>2
    <2> QED
      BY <1>1, <1>3, <2>1
  <1>6. Len(u \o ys) = Len(ys) + 1
    BY <1>1, <1>2, <1>3
  <1> QED
    BY <1>3, <1>4, <1>5, <1>6 DEF u

LEMMA CommaFollows ==
    ASSUME NEW Ch, NEW s, Text(s, Ch), NEW k \in Offsets(s), peek(s, skipOWS(s, k)) = Comma
    PROVE  afterComma(s, k) \in (k + 1)..(Len(s) + 1) /\ afterComma(s, k) \in Offsets(s)
  <1> DEFINE b == skipOWS(s, k)
  <1>1. b \in Offsets(s) /\ b \in k..(Len(s) + 1) /\ peek(s, b) = Comma /\ k \in Nat /\ Len(s) \in Nat
    BY PastBlanks DEF Offsets, Text
  <1> HIDE DEF b
  <1>2. b + 1 \in Offsets(s)
    BY <1>1, AfterMark, DelimitersDiffer
  <1>3. skipOWS(s, b + 1) \in (b + 1)..(Len(s) + 1) /\ skipOWS(s, b + 1) \in Offsets(s)
    BY <1>2, PastBlanks
  <1>4. afterComma(s, k) = skipOWS(s, b + 1)
    BY DEF afterComma, b
  <1> QED
    BY <1>1, <1>3, <1>4 DEF Offsets

LEMMA OthersAdvance ==
    ASSUME NEW Ch, NEW s, Text(s, Ch), NEW member,
           \A k \in Offsets(s) : IsRead(member[k], k, s)
    PROVE  Len(s) \in Nat /\ Advances(s, AfterCommas(s), Others(s, member))
  <1>1. Len(s) \in Nat
    BY DEF Text
  <1>2. ASSUME NEW k \in Offsets(s), k \in AfterCommas(s) PROVE IsRead(Others(s, member)[k], k, s)
    <2> DEFINE a == afterComma(s, k)
    <2>1. a \in (k + 1)..(Len(s) + 1) /\ a \in Offsets(s)
      BY <1>2, CommaFollows DEF AfterCommas
    <2>2. Others(s, member)[k] = IF a > Len(s) THEN Fail ELSE member[a]
      BY DEF Others
    <2> HIDE DEF a
    <2>3. CASE a > Len(s)
      BY <2>2, <2>3 DEF IsRead
    <2>4. CASE ~(a > Len(s))
      <3> DEFINE r == member[a]
      <3>1. IsRead(r, a, s) /\ Others(s, member)[k] = r
        BY <2>1, <2>2, <2>4
      <3> HIDE DEF r
      <3>2. r.at \in (a + 1)..(Len(s) + 1) => r.at \in (k + 1)..(Len(s) + 1)
        BY <1>1, <2>1 DEF Offsets
      <3>3. IsRead(r, k, s)
        BY <3>1, <3>2 DEF IsRead
      <3> QED
        BY <3>1, <3>3
    <2> QED
      BY <2>3, <2>4
  <1> QED
    BY <1>1, <1>2 DEF Advances

\* Members xs that begin at st[1], st[2], ... and end at en[1], en[2], ...; nothing
\* but blanks is between the last one and q.
Row(s, xs, st, en, q) ==
    /\ Tuple(xs) /\ Len(xs) # 0 /\ st[1] = 1
    /\ \A k \in 1..Len(xs) : st[k] \in Offsets(s) /\ en[k] \in Offsets(s)
    /\ \A k \in 2..Len(xs) : /\ peek(s, skipOWS(s, en[k - 1])) = Comma
                             /\ st[k] = afterComma(s, en[k - 1]) /\ st[k] <= Len(s)
    /\ q = skipOWS(s, en[Len(xs)]) /\ peek(s, q) # Comma

LEMMA MembersIs ==
    ASSUME NEW s, NEW member
    PROVE  parseMembers(s, member) =
             Then(member[1], LAMBDA first, i :
               Then(Rounds(s, i, AfterCommas(s), Others(s, member)), LAMBDA others, j :
                 Got(<<first>> \o others, skipOWS(s, j))))
  BY DEF parseMembers, AfterCommas, Others

\* The first of a tuple and its others.
LEMMA FirstAndOthers ==
    ASSUME NEW xs, Tuple(xs), Len(xs) # 0
    PROVE  \E ys : /\ Tuple(ys) /\ Len(xs) = Len(ys) + 1 /\ xs = <<xs[1]>> \o ys
                   /\ \A k \in 1..Len(ys) : ys[k] = xs[k + 1]
  <1>1. PICK S : xs \in Seq(S)
    BY Tuples
  <1>2. Tail(xs) \in Seq(S) /\ Len(xs) = Len(Tail(xs)) + 1 /\ \A k \in 1..Len(Tail(xs)) : Tail(xs)[k] = xs[k + 1]
    BY <1>1
  <1>3. xs = <<xs[1]>> \o Tail(xs)
    <2> DEFINE x == xs[1]
               y == Tail(xs)
    <2>1. x \in S /\ y \in Seq(S) /\ Len(xs) = Len(y) + 1 /\ \A k \in 1..Len(y) : y[k] = xs[k + 1]
      BY <1>1, <1>2
    <2>2. xs[1] = x
      OBVIOUS
    <2> HIDE DEF x, y
    <2>3. /\ <<x>> \o y \in Seq(S) /\ Len(<<x>> \o y) = Len(xs) /\ (<<x>> \o y)[1] = x
          /\ \A k \in 1..Len(y) : (<<x>> \o y)[k + 1] = y[k]
      BY <2>1, Prefixed
    <2> DEFINE z == <<x>> \o y
    <2>4. z \in Seq(S) /\ Len(z) = Len(xs) /\ z[1] = x /\ \A k \in 1..Len(y) : z[k + 1] = y[k]
      BY <2>3
    <2> HIDE DEF z
    <2>5. ASSUME NEW m \in 1..Len(xs) PROVE z[m] = xs[m]
      <3>1. CASE m = 1
        BY <2>2, <2>4, <3>1
      <3>2. CASE m # 1
        <4>1. m - 1 \in 1..Len(y) /\ (m - 1) + 1 = m
          BY <2>1, <3>2
        <4> QED
          BY <2>1, <2>4, <4>1
      <3> QED
        BY <3>1, <3>2
    <2>6. z = xs
      BY <1>1, <2>4, <2>5, SameText
    <2> QED
      BY <2>6 DEF x, y, z
  <1> QED
    BY <1>2, <1>3, Tuples

LEMMA MembersRead ==
    ASSUME NEW Ch, NEW s, Text(s, Ch), NEW member,
           \A k \in Offsets(s) : IsRead(member[k], k, s),
           NEW xs, NEW st, NEW en, NEW q, Row(s, xs, st, en, q), NEW good,
           \A k \in 1..Len(xs) : /\ xs[k] \in good => member[st[k]] = Got(xs[k], en[k])
                                 /\ xs[k] \notin good => member[st[k]] = Fail
    PROVE  /\ (\A k \in 1..Len(xs) : xs[k] \in good) => parseMembers(s, member) = Got(xs, q)
           /\ ~(\A k \in 1..Len(xs) : xs[k] \in good) => parseMembers(s, member) = Fail
  <1> DEFINE more  == AfterCommas(s)
             round == Others(s, member)
             r     == Rounds(s, en[1], more, round)
  <1>1. Len(s) \in Nat /\ Advances(s, more, round)
    BY OthersAdvance
  <1>2. /\ Tuple(xs) /\ Len(xs) # 0 /\ st[1] = 1 /\ Len(xs) \in Nat
        /\ \A k \in 1..Len(xs) : st[k] \in Offsets(s) /\ en[k] \in Offsets(s)
        /\ \A k \in 2..Len(xs) : /\ peek(s, skipOWS(s, en[k - 1])) = Comma
                                 /\ st[k] = afterComma(s, en[k - 1]) /\ st[k] <= Len(s)
        /\ q = skipOWS(s, en[Len(xs)]) /\ peek(s, q) # Comma
    BY DEF Row, Tuple
  <1>3. PICK ys : /\ Tuple(ys) /\ Len(xs) = Len(ys) + 1 /\ xs = <<xs[1]>> \o ys
                  /\ \A k \in 1..Len(ys) : ys[k] = xs[k + 1]
    BY <1>2, FirstAndOthers
  <1>4. Len(ys) \in Nat
    BY <1>3 DEF Tuple
  <1> DEFINE at == [k \in 0..Len(ys) |-> en[k + 1]]
  <1>5. ASSUME NEW k \in 1..Len(ys)
        PROVE  /\ at[k - 1] \in Offsets(s) /\ at[k - 1] \in more
               /\ ys[k] \in good => round[at[k - 1]] = Got(ys[k], at[k])
               /\ ys[k] \notin good => round[at[k - 1]] = Fail
    <2> DEFINE m == k + 1
    <2>1. m \in 2..Len(xs) /\ m \in 1..Len(xs) /\ m - 1 = k /\ k \in 1..Len(xs) /\ ys[k] = xs[m]
      BY <1>3, <1>4
    <2>2. at[k - 1] = en[k] /\ at[k] = en[m]
      BY <1>4
    <2> HIDE DEF m, at, more, round
    <2>3. /\ peek(s, skipOWS(s, en[k])) = Comma /\ st[m] = afterComma(s, en[k]) /\ st[m] <= Len(s)
          /\ en[k] \in Offsets(s) /\ st[m] \in Offsets(s)
      BY <1>2, <2>1
    <2>4. en[k] \in more
      BY <2>3 DEF more, AfterCommas
    <2>5. round[en[k]] = IF st[m] > Len(s) THEN Fail ELSE member[st[m]]
      BY <2>3 DEF round, Others
    <2>6. ~(st[m] > Len(s))
      BY <1>1, <2>3 DEF Offsets
    <2> QED
      BY <2>1, <2>2, <2>3, <2>4, <2>5, <2>6
  <1>6. at[0] = en[1] /\ at[Len(ys)] = en[Len(xs)]
    BY <1>3, <1>4
  <1>7. en[Len(xs)] \in Offsets(s) /\ en[Len(xs)] \notin more
    <2>1. Len(xs) \in 1..Len(xs)
      BY <1>2
    <2> QED
      BY <1>2, <2>1 DEF AfterCommas
  <1> HIDE DEF at, more, round
  <1>8. /\ (\A k \in 1..Len(ys) : ys[k] \in good) => r = Got(ys, en[Len(xs)])
        /\ ~(\A k \in 1..Len(ys) : ys[k] \in good) => r = Fail
    <2>1. /\ AllOf(ys, good) => Rounds(s, at[0], more, round) = Got(ys, at[Len(ys)])
          /\ ~AllOf(ys, good) => Rounds(s, at[0], more, round) = Fail
      <3>1. at[Len(ys)] \in Offsets(s) /\ at[Len(ys)] \notin more
        BY <1>6, <1>7
      <3>2. TriedAlong(s, more, round, at, ys, good)
        BY <1>5 DEF TriedAlong
      <3>3. Tuple(ys)
        BY <1>3
      <3> QED
        BY ONLY <1>1, <3>1, <3>2, <3>3, LoopReads
    <2> QED
      BY <1>6, <2>1 DEF AllOf
  <1>9. parseMembers(s, member) =
          Then(member[1], LAMBDA first, i :
            Then(Rounds(s, i, more, round), LAMBDA others, j : Got(<<first>> \o others, skipOWS(s, j))))
    BY MembersIs DEF more, round
  <1>10. /\ xs[1] \in good => member[1] = Got(xs[1], en[1])
         /\ xs[1] \notin good => member[1] = Fail
    <2>1. 1 \in 1..Len(xs)
      BY <1>2
    <2> QED
      BY <1>2, <2>1
  <1>11. (\A k \in 1..Len(xs) : xs[k] \in good) <=> xs[1] \in good /\ \A k \in 1..Len(ys) : ys[k] \in good
    <2>1. \A k \in 1..Len(ys) : k + 1 \in 1..Len(xs) /\ ys[k] = xs[k + 1]
      BY <1>3, <1>4
    <2>2. \A k \in 1..Len(xs) : k = 1 \/ (k - 1 \in 1..Len(ys) /\ ys[k - 1] = xs[k])
      <3>1. ASSUME NEW k \in 1..Len(xs), k # 1 PROVE k - 1 \in 1..Len(ys) /\ (k - 1) + 1 = k
        BY <1>3, <1>4, <3>1
      <3> QED
        BY <1>3, <3>1
    <2>3. 1 \in 1..Len(xs)
      BY <1>2
    <2> QED
      BY <2>1, <2>2, <2>3
  <1>12. CASE xs[1] \notin good
    BY <1>9, <1>10, <1>11, <1>12, Results DEF Then
  <1>13. CASE xs[1] \in good
    <2> DEFINE e == en[1]
    <2>1. member[1] = Got(xs[1], e) /\ r = Rounds(s, e, more, round)
      BY <1>10, <1>13
    <2> HIDE DEF r, e
    <2>2. parseMembers(s, member) = Then(r, LAMBDA others, j : Got(<<xs[1]>> \o others, skipOWS(s, j)))
      BY <1>9, <2>1, Results DEF Then
    <2>3. CASE \A k \in 1..Len(ys) : ys[k] \in good
      <3> DEFINE f == en[Len(xs)]
      <3>1. r = Got(ys, f) /\ q = skipOWS(s, f)
        BY <1>2, <1>8, <2>3
      <3> HIDE DEF f
      <3>2. parseMembers(s, member) = Got(<<xs[1]>> \o ys, q)
        BY <2>2, <3>1, Results DEF Then
      <3> QED
        BY <1>3, <1>11, <1>13, <2>3, <3>2
    <2>4. CASE ~ \A k \in 1..Len(ys) : ys[k] \in good
      BY <1>8, <1>11, <2>2, <2>4, Results DEF Then
    <2> QED
      BY <2>3, <2>4
  <1> QED
    BY <1>12, <1>13

LEMMA MembersReturn ==
    ASSUME NEW Ch, NEW s, Text(s, Ch), NEW member,
           \A k \in Offsets(s) : IsRead(member[k], k, s)
    PROVE  \/ parseMembers(s, member) = Fail
           \/ \E xs, st, en, q : /\ parseMembers(s, member) = Got(xs, q) /\ Row(s, xs, st, en, q)
                                 /\ \A k \in 1..Len(xs) : member[st[k]] = Got(xs[k], en[k])
  <1> DEFINE more  == AfterCommas(s)
             round == Others(s, member)
  <1>1. Len(s) \in Nat /\ Advances(s, more, round)
    BY OthersAdvance
  <1>2. parseMembers(s, member) =
          Then(member[1], LAMBDA first, i :
            Then(Rounds(s, i, more, round), LAMBDA others, j : Got(<<first>> \o others, skipOWS(s, j))))
    BY MembersIs
  <1> HIDE DEF more, round
  <1> SUFFICES ASSUME parseMembers(s, member) # Fail
               PROVE  \E xs, st, en, q : /\ parseMembers(s, member) = Got(xs, q) /\ Row(s, xs, st, en, q)
                                         /\ \A k \in 1..Len(xs) : member[st[k]] = Got(xs[k], en[k])
    OBVIOUS
  <1>3. member[1] # Fail
    BY <1>2, Results DEF Then
  <1>4. 1 \in Offsets(s)
    BY <1>1 DEF Offsets
  <1>5. PICK x, e : member[1] = Got(x, e) /\ e \in (1 + 1)..(Len(s) + 1)
    BY <1>3, <1>4 DEF IsRead
  <1>6. e \in Offsets(s)
    BY <1>1, <1>5 DEF Offsets
  <1> DEFINE r == Rounds(s, e, more, round)
  <1>7. parseMembers(s, member) = Then(r, LAMBDA others, j : Got(<<x>> \o others, skipOWS(s, j)))
    BY <1>2, <1>5, Results DEF Then
  <1> HIDE DEF r
  <1>8. r # Fail
    BY <1>7, Results DEF Then
  <1>9. PICK at, ys : /\ ys \in Seq(Readings(s, round)) /\ at[0] = e
                      /\ Passes(s, more, round, at, ys)
                      /\ at[Len(ys)] \in e..(Len(s) + 1) /\ at[Len(ys)] \notin more
                      /\ r = Got(ys, at[Len(ys)])
    BY <1>1, <1>6, <1>8, RoundsRead DEF r
  <1> DEFINE xs == <<x>> \o ys
             n  == Len(ys)
             en == [k \in 1..(n + 1) |-> at[k - 1]]
             st == [k \in 1..(n + 1) |-> IF k = 1 THEN 1 ELSE afterComma(s, at[k - 2])]
             q  == skipOWS(s, at[n])
  <1>10. parseMembers(s, member) = Got(xs, q)
    <2> DEFINE f == at[Len(ys)]
    <2>1. r = Got(ys, f)
      BY <1>9
    <2>2. q = skipOWS(s, f)
      OBVIOUS
    <2> HIDE DEF f, q
    <2> QED
      BY <1>7, <2>1, <2>2, Results DEF Then
  <1>11. Tuple(ys) /\ n \in Nat
    BY <1>9, Tuples
  <1>12. Tuple(xs) /\ Len(xs) = n + 1 /\ xs[1] = x /\ \A k \in 1..n : xs[k + 1] = ys[k]
    <2> DEFINE S == Readings(s, round) \cup {x}
    <2>1. x \in S /\ ys \in Seq(S)
      BY <1>9
    <2> HIDE DEF S
    <2>2. /\ <<x>> \o ys \in Seq(S) /\ Len(<<x>> \o ys) = Len(ys) + 1 /\ (<<x>> \o ys)[1] = x
          /\ \A k \in 1..Len(ys) : (<<x>> \o ys)[k + 1] = ys[k]
      BY <2>1, Prefixed
    <2> QED
      BY <2>2, Tuples
  <1> HIDE DEF xs
  <1>13. /\ st[1] = 1 /\ \A k \in 2..(n + 1) : st[k] = afterComma(s, at[k - 2])
         /\ \A k \in 1..(n + 1) : en[k] = at[k - 1]
    BY <1>11
  <1>14. ASSUME NEW k \in 1..n
         PROVE  /\ at[k - 1] \in Offsets(s) /\ peek(s, skipOWS(s, at[k - 1])) = Comma
                /\ afterComma(s, at[k - 1]) \in Offsets(s) /\ afterComma(s, at[k - 1]) <= Len(s)
                /\ member[afterComma(s, at[k - 1])] = Got(ys[k], at[k])
    <2> DEFINE m == at[k - 1]
               y == ys[k]
               f == at[k]
    <2>1. m \in Offsets(s) /\ m \in more /\ round[m] = Got(y, f)
      BY <1>9 DEF Passes
    <2> HIDE DEF m, y, f
    <2>2. peek(s, skipOWS(s, m)) = Comma
      BY <2>1 DEF more, AfterCommas
    <2>3. afterComma(s, m) \in (m + 1)..(Len(s) + 1) /\ afterComma(s, m) \in Offsets(s)
      BY <2>1, <2>2, CommaFollows
    <2>4. round[m] = IF afterComma(s, m) > Len(s) THEN Fail ELSE member[afterComma(s, m)]
      BY <2>1 DEF round, Others
    <2>5. round[m] # Fail
      BY <2>1, Results
    <2>6. ~(afterComma(s, m) > Len(s)) /\ member[afterComma(s, m)] = Got(y, f)
      BY <2>1, <2>4, <2>5
    <2>7. afterComma(s, m) <= Len(s)
      BY <1>1, <2>3, <2>6 DEF Offsets
    <2> QED
      BY <2>1, <2>2, <2>3, <2>6, <2>7 DEF m, y, f
  <1>15. ASSUME NEW k \in 2..(n + 1)
         PROVE  /\ k - 1 \in 1..n /\ (k - 1) - 1 = k - 2 /\ (k - 1) + 1 = k /\ k - 1 \in 1..(n + 1)
    BY <1>11
  <1>16. /\ at[n] \in Offsets(s) /\ peek(s, q) # Comma
    <2>1. at[n] \in Offsets(s)
      BY <1>1, <1>6, <1>9 DEF Offsets
    <2> QED
      BY <1>9, <2>1 DEF more, AfterCommas
  <1>17. \A k \in 0..n : at[k] \in Offsets(s)
    <2>1. ASSUME NEW k \in 0..n, k # n PROVE at[k] \in Offsets(s)
      <3>1. k + 1 \in 1..n /\ (k + 1) - 1 = k
        BY <1>11, <2>1
      <3>2. at[(k + 1) - 1] \in Offsets(s)
        BY <1>14, <3>1
      <3> QED
        BY <3>1, <3>2
    <2> QED
      BY <1>16, <2>1
  <1>18. en[n + 1] = at[n]
    <2>1. n + 1 \in 1..(n + 1) /\ (n + 1) - 1 = n
      BY <1>11
    <2> QED
      BY <1>13, <2>1
  <1> HIDE DEF st, en, n
  <1>19. ASSUME NEW k \in 1..Len(xs)
         PROVE  /\ st[k] \in Offsets(s) /\ en[k] \in Offsets(s) /\ member[st[k]] = Got(xs[k], en[k])
                /\ k # 1 => /\ peek(s, skipOWS(s, en[k - 1])) = Comma
                            /\ st[k] = afterComma(s, en[k - 1]) /\ st[k] <= Len(s)
    <2>1. CASE k = 1
      <3>1. 1 \in 1..(n + 1) /\ 1 - 1 = 0 /\ 0 \in 0..n
        BY <1>11
      <3>2. en[1] = e
        BY <1>9, <1>13, <3>1
      <3> QED
        BY <1>4, <1>5, <1>6, <1>12, <1>13, <2>1, <3>2
    <2>2. CASE k # 1
      <3>1. k \in 2..(n + 1) /\ k \in 1..(n + 1)
        BY <1>11, <1>12, <2>2
      <3>2. k - 1 \in 1..n /\ (k - 1) - 1 = k - 2 /\ (k - 1) + 1 = k /\ k - 1 \in 1..(n + 1)
        BY <1>15, <3>1
      <3>3. st[k] = afterComma(s, at[k - 2]) /\ en[k] = at[k - 1] /\ en[k - 1] = at[k - 2]
        BY <1>13, <3>1, <3>2
      <3> DEFINE j == k - 1
      <3>4. /\ at[j - 1] \in Offsets(s) /\ peek(s, skipOWS(s, at[j - 1])) = Comma
            /\ afterComma(s, at[j - 1]) \in Offsets(s) /\ afterComma(s, at[j - 1]) <= Len(s)
            /\ member[afterComma(s, at[j - 1])] = Got(ys[j], at[j])
        BY <1>14, <3>2
      <3>5. xs[j + 1] = ys[j] /\ j + 1 = k /\ j - 1 = k - 2
        BY <1>12, <3>2
      <3>6. j \in 0..n
        BY <1>11, <3>2
      <3> QED
        BY <1>17, <3>3, <3>4, <3>5, <3>6
    <2> QED
      BY <2>1, <2>2
  <1> HIDE DEF q
  <1>20. Row(s, xs, st, en, q)
    <2>1. \A k \in 2..Len(xs) : k \in 1..Len(xs) /\ k # 1
      BY <1>11, <1>12
    <2>2. Len(xs) # 0 /\ q = skipOWS(s, en[Len(xs)])
      BY <1>11, <1>12, <1>18 DEF q, n
    <2> QED
      BY <1>12, <1>13, <1>16, <1>19, <2>1, <2>2 DEF Row
  <1> QED
    BY <1>10, <1>19, <1>20

-----------------------------------------------------------------------------
(* The dictionary that entries make.                                       *)

LEMMA PutKnown ==
    ASSUME NEW E, NEW d \in Seq(E), NEW x \in E, \E i \in 1..Len(d) : d[i].key = x.key
    PROVE  /\ put(d, x) \in Seq(E) /\ Len(put(d, x)) = Len(d)
           /\ \A i \in 1..Len(d) : put(d, x)[i] = IF d[i].key = x.key THEN x ELSE d[i]
  <1> DEFINE e == [i \in 1..Len(d) |-> IF d[i].key = x.key THEN x ELSE d[i]]
  <1>1. put(d, x) = e
    BY DEF put
  <1>2. Len(d) \in Nat /\ \A i \in 1..Len(d) : e[i] = IF d[i].key = x.key THEN x ELSE d[i]
    OBVIOUS
  <1>3. \A i \in 1..Len(d) : e[i] \in E
    BY <1>2
  <1>4. e = [i \in 1..Len(d) |-> e[i]]
    OBVIOUS
  <1> HIDE DEF e
  <1>5. e \in Seq(E) /\ Len(e) = Len(d)
    BY ONLY <1>2, <1>3, <1>4
  <1> QED
    BY <1>1, <1>2, <1>5

LEMMA PutNew ==
    ASSUME NEW E, NEW d \in Seq(E), NEW x \in E, \A i \in 1..Len(d) : d[i].key # x.key
    PROVE  /\ put(d, x) \in Seq(E) /\ Len(put(d, x)) = Len(d) + 1 /\ put(d, x)[Len(d) + 1] = x
           /\ \A i \in 1..Len(d) : put(d, x)[i] = d[i]
           /\ put(d, x) = Append(d, x)
  <1>1. put(d, x) = Append(d, x)
    BY DEF put
  <1>2. /\ Append(d, x) \in Seq(E) /\ Len(Append(d, x)) = Len(d) + 1 /\ Append(d, x)[Len(d) + 1] = x
        /\ \A i \in 1..Len(d) : Append(d, x)[i] = d[i]
    OBVIOUS
  <1> QED
    BY <1>1, <1>2

LEMMA PutIs ==
    ASSUME NEW E, NEW d \in Seq(E), NEW x \in E
    PROVE  put(d, x) \in Seq(E)
  BY PutKnown, PutNew

LEMMA DictionarySteps ==
    ASSUME NEW E, NEW xs \in Seq(E)
    PROVE  /\ Dictionaries(xs)[0] = <<>>
           /\ \A n \in 1..Len(xs) : /\ Dictionaries(xs)[n] = put(Dictionaries(xs)[n - 1], xs[n])
                                    /\ xs[n] \in E
           /\ \A n \in 0..Len(xs) : Dictionaries(xs)[n] \in Seq(E)
  <1> DEFINE N == Len(xs)
             F(f) == [n \in 0..N |-> IF n = 0 THEN <<>> ELSE put(f[n - 1], xs[n])]
             D == CHOOSE f : f = F(f)
             X == Seq(E)
             g == [p \in (1..N) \X X |-> put(p[2], xs[p[1]])]
             z == <<>>
  <1>1. Dictionaries(xs) = D
    BY DEF Dictionaries
  <1>2. N \in Nat /\ \A k \in 1..N : xs[k] \in E
    OBVIOUS
  <1>3. \A k \in 1..N : \A x \in X : g[<<k, x>>] = put(x, xs[k]) /\ g[<<k, x>>] \in X
    <2> HIDE DEF N
    <2>1. ASSUME NEW k \in 1..N, NEW x \in X PROVE g[<<k, x>>] = put(x, xs[k]) /\ put(x, xs[k]) \in X
      BY <1>2, PutIs
    <2> QED
      BY <2>1
  <1>4. \E f : f = F(f)
    <2>1. z \in X
      OBVIOUS
    <2>2. PICK f \in [0..N -> X] : f[0] = z /\ \A k \in 1..N : f[k] = g[<<k, f[k - 1]>>]
      <3>2. \A k \in 1..N : \A x \in X : g[<<k, x>>] \in X
        BY <1>3
      <3> HIDE DEF g, N, z, X
      <3>3. \E f \in [0..N -> X] : Recurs(f, N, z, g)
        BY ONLY <1>2, <2>1, <3>2, Recursion
      <3> QED
        BY <3>3 DEF Recurs
    <2>3. ASSUME NEW n \in 0..N PROVE f[n] = IF n = 0 THEN <<>> ELSE put(f[n - 1], xs[n])
      <3>1. CASE n = 0
        BY <2>2, <3>1
      <3>2. CASE n # 0
        <4> HIDE DEF N
        <4>1. n \in 1..N /\ n - 1 \in 0..N
          BY <1>2, <3>2
        <4>2. f[n - 1] \in X
          BY <4>1
        <4> HIDE DEF g, X, z
        <4> QED
          BY <1>3, <2>2, <3>2, <4>1, <4>2
      <3> QED
        BY <3>1, <3>2
    <2>4. f = F(f)
      <3> HIDE DEF N
      <3> QED
        BY <2>3
    <2> QED
      BY <2>4
  <1>5. D = F(D)
    <2> HIDE DEF F
    <2> QED
      BY <1>4
  <1> HIDE DEF D, N
  <1>6. D[0] = <<>> /\ \A n \in 1..N : D[n] = put(D[n - 1], xs[n])
    BY <1>2, <1>5
  <1> DEFINE S == {n \in 0..N : D[n] \in X}
  <1>7. 0..N \subseteq S
    <2>1. 0 \in S
      <3>1. 0 \in 0..N /\ <<>> \in X
        BY <1>2
      <3> HIDE DEF X
      <3> QED
        BY <1>6, <3>1
    <2>2. ASSUME NEW n \in 1..N, n - 1 \in S PROVE n \in S
      <3> DEFINE d == D[n - 1]
                 x == xs[n]
      <3>1. d \in Seq(E) /\ x \in E /\ D[n] = put(d, x)
        BY <1>2, <1>6, <2>2
      <3> HIDE DEF d, x
      <3>2. D[n] \in X
        BY ONLY <3>1, PutIs
      <3> QED
        BY <1>2, <3>2
    <2> HIDE DEF S
    <2> QED
      BY <1>2, <2>1, <2>2, StepByStep
  <1> QED
    BY <1>1, <1>2, <1>6, <1>7 DEF N

\* d is what the first n entries of xs make: every key once, with its last entry.
Merged(d, xs, n) ==
    /\ \A i, j \in 1..Len(d) : d[i].key = d[j].key => i = j
    /\ \A i \in 1..Len(d) : \E m \in 1..n : /\ d[i] = xs[m]
                                            /\ \A j \in (m + 1)..n : xs[j].key # xs[m].key
    /\ \A m \in 1..n : \E i \in 1..Len(d) : d[i].key = xs[m].key
    /\ Len(d) <= n

LEMMA PutMerges ==
    ASSUME NEW E, NEW xs \in Seq(E), NEW n \in 1..Len(xs), NEW d \in Seq(E), Merged(d, xs, n - 1)
    PROVE  Merged(put(d, xs[n]), xs, n)
  <1> DEFINE x == xs[n]
             e == put(d, x)
  <1>1. x \in E /\ n \in Nat /\ Len(d) \in Nat
    OBVIOUS
  <1>2. /\ e \in Seq(E)
        /\ (\E i \in 1..Len(d) : d[i].key = x.key) =>
             /\ Len(e) = Len(d)
             /\ \A i \in 1..Len(d) : e[i] = IF d[i].key = x.key THEN x ELSE d[i]
        /\ ~(\E i \in 1..Len(d) : d[i].key = x.key) =>
             /\ Len(e) = Len(d) + 1 /\ e[Len(d) + 1] = x
             /\ \A i \in 1..Len(d) : e[i] = d[i]
    <2> HIDE DEF x
    <2>1. d \in Seq(E) /\ x \in E
      BY <1>1
    <2>2. e \in Seq(E)
      BY ONLY <2>1, PutIs
    <2>3. ASSUME \E i \in 1..Len(d) : d[i].key = x.key
          PROVE  /\ Len(e) = Len(d)
                 /\ \A i \in 1..Len(d) : e[i] = IF d[i].key = x.key THEN x ELSE d[i]
      BY ONLY <2>1, <2>3, PutKnown
    <2>4. ASSUME ~ \E i \in 1..Len(d) : d[i].key = x.key
          PROVE  /\ Len(e) = Len(d) + 1 /\ e[Len(d) + 1] = x
                 /\ \A i \in 1..Len(d) : e[i] = d[i]
      <3>1. \A i \in 1..Len(d) : d[i].key # x.key
        BY <2>4
      <3>2. Len(e) = Len(d) + 1 /\ e[Len(d) + 1] = x
        BY ONLY <2>1, <3>1, PutNew
      <3>3. \A i \in 1..Len(d) : e[i] = d[i]
        BY ONLY <2>1, <3>1, PutNew
      <3> QED
        BY <3>2, <3>3
    <2> QED
      BY <2>2, <2>3, <2>4
  <1>3. /\ \A i, j \in 1..Len(d) : d[i].key = d[j].key => i = j
        /\ \A i \in 1..Len(d) : \E m \in 1..(n - 1) : /\ d[i] = xs[m]
                                                      /\ \A j \in (m + 1)..(n - 1) : xs[j].key # xs[m].key
        /\ \A m \in 1..(n - 1) : \E i \in 1..Len(d) : d[i].key = xs[m].key
        /\ Len(d) <= n - 1
    BY DEF Merged
  <1>4. \A k \in 1..n : k = n \/ k \in 1..(n - 1)
    BY <1>1
  <1>5. ASSUME NEW i \in 1..Len(d), d[i].key # x.key
        PROVE  \E m \in 1..n : d[i] = xs[m] /\ \A j \in (m + 1)..n : xs[j].key # xs[m].key
    <2>1. PICK m \in 1..(n - 1) : d[i] = xs[m] /\ \A j \in (m + 1)..(n - 1) : xs[j].key # xs[m].key
      BY <1>3
    <2>2. m \in 1..n /\ \A j \in (m + 1)..n : j = n \/ j \in (m + 1)..(n - 1)
      BY <1>1
    <2> QED
      BY <1>5, <2>1, <2>2
  <1>6. n \in 1..n /\ \A j \in (n + 1)..n : FALSE
    BY <1>1
  <1>7. x = xs[n]
    OBVIOUS
  <1> HIDE DEF x, e
  <1>8. CASE \E i \in 1..Len(d) : d[i].key = x.key
    <2>1. /\ Len(e) = Len(d) /\ \A i \in 1..Len(d) : e[i] = IF d[i].key = x.key THEN x ELSE d[i]
      BY <1>2, <1>8
    <2>2. \A i \in 1..Len(d) : e[i].key = d[i].key
      BY <2>1
    <2>3. \A i \in 1..Len(e) : \E m \in 1..n : e[i] = xs[m] /\ \A j \in (m + 1)..n : xs[j].key # xs[m].key
      BY <1>5, <1>6, <1>7, <2>1
    <2>4. \A m \in 1..n : \E i \in 1..Len(e) : e[i].key = xs[m].key
      <3>1. ASSUME NEW m \in 1..n PROVE \E i \in 1..Len(e) : e[i].key = xs[m].key
        <4>1. PICK i \in 1..Len(d) : d[i].key = xs[m].key
          BY <1>3, <1>4, <1>7, <1>8
        <4> QED
          BY <2>1, <2>2, <4>1
      <3> QED
        BY <3>1
    <2>5. \A i, j \in 1..Len(e) : e[i].key = e[j].key => i = j
      BY <1>3, <2>1, <2>2
    <2>6. Len(e) <= n
      BY <1>1, <1>3, <2>1
    <2>7. Merged(e, xs, n)
      BY <2>3, <2>4, <2>5, <2>6 DEF Merged
    <2> QED
      BY <2>7 DEF e, x
  <1>9. CASE ~ \E i \in 1..Len(d) : d[i].key = x.key
    <2>1. Len(e) = Len(d) + 1 /\ e[Len(d) + 1] = x /\ \A i \in 1..Len(d) : e[i] = d[i] /\ d[i].key # x.key
      BY <1>2, <1>9
    <2>2. \A i \in 1..Len(e) : i = Len(d) + 1 \/ i \in 1..Len(d)
      BY <1>1, <2>1
    <2>3. \A i \in 1..Len(d) : i \in 1..Len(e)
      BY <1>1, <2>1
    <2>4. Len(d) + 1 \in 1..Len(e) /\ Len(e) <= n
      BY <1>1, <1>3, <2>1
    <2>5. \A i \in 1..Len(e) : \E m \in 1..n : e[i] = xs[m] /\ \A j \in (m + 1)..n : xs[j].key # xs[m].key
      BY <1>5, <1>6, <1>7, <2>1, <2>2
    <2>6. \A m \in 1..n : \E i \in 1..Len(e) : e[i].key = xs[m].key
      <3>1. ASSUME NEW m \in 1..n PROVE \E i \in 1..Len(e) : e[i].key = xs[m].key
        <4>1. CASE m = n
          BY <1>7, <2>1, <2>4, <4>1
        <4>2. CASE m # n
          <5>1. PICK i \in 1..Len(d) : d[i].key = xs[m].key
            BY <1>3, <1>4, <4>2
          <5> QED
            BY <2>1, <2>3, <5>1
        <4> QED
          BY <4>1, <4>2
      <3> QED
        BY <3>1
    <2>7. \A i, j \in 1..Len(e) : e[i].key = e[j].key => i = j
      BY <1>3, <2>1, <2>2
    <2>8. Merged(e, xs, n)
      BY <2>4, <2>5, <2>6, <2>7 DEF Merged
    <2> QED
      BY <2>8 DEF e, x
  <1> QED
    BY <1>8, <1>9

LEMMA EntriesMerge ==
    ASSUME NEW E, NEW xs \in Seq(E)
    PROVE  \A n \in 0..Len(xs) : Merged(Dictionaries(xs)[n], xs, n)
  <1> DEFINE D == Dictionaries(xs)
             N == Len(xs)
             S == {n \in 0..N : Merged(D[n], xs, n)}
  <1>1. /\ D[0] = <<>> /\ \A n \in 1..N : D[n] = put(D[n - 1], xs[n])
        /\ \A n \in 0..N : D[n] \in Seq(E)
    BY DictionarySteps
  <1>2. N \in Nat
    OBVIOUS
  <1> HIDE DEF D
  <1>3. 0 \in S
    <2>1. Merged(<<>>, xs, 0)
      BY DEF Merged
    <2> QED
      BY <1>1, <1>2, <2>1
  <1>4. ASSUME NEW n \in 1..N, n - 1 \in S PROVE n \in S
    <2>1. Merged(D[n - 1], xs, n - 1) /\ D[n - 1] \in Seq(E) /\ n \in 1..Len(xs)
      BY <1>1, <1>4
    <2>2. Merged(put(D[n - 1], xs[n]), xs, n)
      BY <2>1, PutMerges
    <2> QED
      BY <1>1, <2>2
  <1>5. 0..N \subseteq S
    <2> HIDE DEF S, N
    <2> QED
      BY <1>2, <1>3, <1>4, StepByStep
  <1> QED
    BY <1>5 DEF D

\* Entries of different keys are the dictionary they make.
LEMMA DistinctEntries ==
    ASSUME NEW E, NEW xs \in Seq(E), \A i, j \in 1..Len(xs) : xs[i].key = xs[j].key => i = j
    PROVE  /\ \A n \in 0..Len(xs) : Len(Dictionaries(xs)[n]) = n
           /\ Dictionaries(xs)[Len(xs)] = xs
  <1> DEFINE D == Dictionaries(xs)
             N == Len(xs)
             S == {n \in 0..N : Len(D[n]) = n /\ \A i \in 1..n : D[n][i] = xs[i]}
  <1>1. /\ D[0] = <<>> /\ \A n \in 1..N : D[n] = put(D[n - 1], xs[n]) /\ xs[n] \in E
        /\ \A n \in 0..N : D[n] \in Seq(E)
    BY DictionarySteps
  <1>2. N \in Nat
    OBVIOUS
  <1> HIDE DEF D
  <1>3. 0 \in S
    BY <1>1, <1>2
  <1>4. ASSUME NEW n \in 1..N, n - 1 \in S PROVE n \in S
    <2> DEFINE d == D[n - 1]
               x == xs[n]
    <2>1. d \in Seq(E) /\ x \in E /\ Len(d) = n - 1 /\ (\A i \in 1..(n - 1) : d[i] = xs[i]) /\ D[n] = put(d, x)
      BY <1>1, <1>4
    <2>2. ASSUME NEW i \in 1..Len(d) PROVE d[i].key # x.key
      <3>1. i \in 1..(n - 1) /\ i \in 1..N /\ i # n
        BY <1>2, <2>1
      <3>2. xs[i].key # xs[n].key
        BY <3>1
      <3> QED
        BY <2>1, <3>1, <3>2
    <2> HIDE DEF d, x
    <2>3. Len(D[n]) = Len(d) + 1 /\ D[n][Len(d) + 1] = x /\ \A i \in 1..Len(d) : D[n][i] = d[i]
      <3>1. ~ \E i \in 1..Len(d) : d[i].key = x.key
        BY <2>2
      <3>2. Len(put(d, x)) = Len(d) + 1 /\ put(d, x)[Len(d) + 1] = x /\ \A i \in 1..Len(d) : put(d, x)[i] = d[i]
        BY ONLY <2>1, <2>2, PutNew
      <3> QED
        BY <2>1, <3>2
    <2>4. Len(D[n]) = n
      BY <1>2, <2>1, <2>3
    <2>5. ASSUME NEW i \in 1..n PROVE D[n][i] = xs[i]
      <3>1. CASE i = n
        <4>1. Len(d) + 1 = n
          BY <1>2, <2>1
        <4> QED
          BY <2>3, <3>1, <4>1 DEF x
      <3>2. CASE i # n
        <4>1. i \in 1..(n - 1) /\ i \in 1..Len(d)
          BY <1>2, <2>1, <3>2
        <4> QED
          BY <2>1, <2>3, <4>1
      <3> QED
        BY <3>1, <3>2
    <2> QED
      BY <2>4, <2>5
  <1>5. 0..N \subseteq S
    <2> HIDE DEF S, N
    <2> QED
      BY <1>2, <1>3, <1>4, StepByStep
  <1>6. D[N] = xs
    <2>1. N \in S /\ N \in 0..N
      <3> HIDE DEF S
      <3> QED
        BY <1>2, <1>5
    <2>2. Len(D[N]) = Len(xs) /\ \A i \in 1..Len(xs) : D[N][i] = xs[i]
      BY <2>1
    <2>3. D[N] \in Seq(E)
      BY <1>1, <2>1
    <2> HIDE DEF S, N
    <2> QED
      BY <2>2, <2>3, SameText
  <1> QED
    BY <1>5, <1>6 DEF D

-----------------------------------------------------------------------------
(* Dictionaries and lists.                                                 *)

EntriesIn(t, xs, q, Ch) ==
    \E st, en : /\ Row(t, xs, st, en, q)
                /\ \A k \in 1..Len(xs) : EntryAt(t, st[k], xs[k], en[k], Ch)

MembersIn(t, xs, q, Ch) ==
    \E st, en : /\ Row(t, xs, st, en, q)
                /\ \A k \in 1..Len(xs) : MemberAt(t, st[k], xs[k], en[k], Ch)

\* No entry comes when the dictionary has as many members as it may.
Room(xs) ==
    \A n \in 1..Len(xs) : ~Exceeds(Len(Dictionaries(xs)[n - 1]) + 1, Limits.MaxDictionaryMembers)

EntriesWithin(s, xs) ==
    checkInputLength(s) /\ (\A k \in 1..Len(xs) : EntryWithin(xs[k])) /\ Room(xs)

MembersWithin(s, xs) ==
    /\ checkInputLength(s) /\ \A k \in 1..Len(xs) : MemberWithin(xs[k])
    /\ ~Exceeds(Len(xs), Limits.MaxDictionaryMembers)

EntryReader(s)  == [k \in Offsets(s) |-> parseDictionaryMember(s, k)]
MemberReader(s) == [k \in Offsets(s) |-> parseValue(s, k)]

LEMMA ReadersAdvance ==
    ASSUME NEW Ch, NEW s, Text(s, Ch), NEW k \in Offsets(s)
    PROVE  IsRead(EntryReader(s)[k], k, s) /\ IsRead(MemberReader(s)[k], k, s)
  <1>1. IsRead(parseDictionaryMember(s, k), k, s)
    <2>1. CASE parseDictionaryMember(s, k) = Fail
      BY <2>1 DEF IsRead
    <2>2. CASE parseDictionaryMember(s, k) # Fail
      BY <2>2, EntryReturns, GotIsRead
    <2> QED
      BY <2>1, <2>2
  <1>2. IsRead(parseValue(s, k), k, s)
    <2>1. CASE parseValue(s, k) = Fail
      BY <2>1 DEF IsRead
    <2>2. CASE parseValue(s, k) # Fail
      BY <2>2, MemberReturns, GotIsRead
    <2> QED
      BY <2>1, <2>2
  <1> QED
    BY <1>1, <1>2 DEF EntryReader, MemberReader

\* What is made of the entries of a text.
Gathered(xs, q) == IF ~Room(xs) THEN Fail ELSE Got(Dictionaries(xs)[Len(xs)], q)

LEMMA ParseDictionaryIs ==
    ASSUME NEW s
    PROVE  /\ ~checkInputLength(s) => ParseDictionary(s) = Fail
           /\ checkInputLength(s) /\ s = <<>> => ParseDictionary(s) = Got(<<>>, 1)
           /\ checkInputLength(s) /\ s # <<>> =>
                ParseDictionary(s) = Then(parseMembers(s, EntryReader(s)), LAMBDA xs, q : Gathered(xs, q))
  <1> DEFINE r == parseMembers(s, EntryReader(s))
  <1>1. checkInputLength(s) /\ s # <<>> =>
          ParseDictionary(s) = Then(r, LAMBDA xs, q :
            IF \E n \in 1..Len(xs) : Exceeds(Len(Dictionaries(xs)[n - 1]) + 1, Limits.MaxDictionaryMembers)
            THEN Fail ELSE Got(Dictionaries(xs)[Len(xs)], q))
    BY DEF ParseDictionary, EntryReader
  <1>2. \A xs, q : (IF \E n \in 1..Len(xs) : Exceeds(Len(Dictionaries(xs)[n - 1]) + 1, Limits.MaxDictionaryMembers)
                   THEN Fail ELSE Got(Dictionaries(xs)[Len(xs)], q)) = Gathered(xs, q)
    BY DEF Gathered, Room
  <1>3. ~checkInputLength(s) => ParseDictionary(s) = Fail
    BY DEF ParseDictionary
  <1>4. checkInputLength(s) /\ s = <<>> => ParseDictionary(s) = Got(<<>>, 1)
    BY DEF ParseDictionary
  <1> HIDE DEF r
  <1>5. checkInputLength(s) /\ s # <<>> => ParseDictionary(s) = Then(r, LAMBDA xs, q : Gathered(xs, q))
    BY <1>1, <1>2 DEF Then
  <1> QED
    BY <1>3, <1>4, <1>5 DEF r

LEMMA ParseListIs ==
    ASSUME NEW s
    PROVE  /\ ~checkInputLength(s) => ParseList(s) = Fail
           /\ checkInputLength(s) /\ s = <<>> => ParseList(s) = Got(<<>>, 1)
           /\ checkInputLength(s) /\ s # <<>> =>
                ParseList(s) = Within(parseMembers(s, MemberReader(s)), Limits.MaxDictionaryMembers)
  BY DEF ParseList, MemberReader

LEMMA DictionaryReturns ==
    ASSUME NEW Ch, NEW s, Text(s, Ch)
    PROVE  \/ ParseDictionary(s) = Fail
           \/ s = <<>> /\ ParseDictionary(s) = Got(<<>>, 1)
           \/ \E xs, q : /\ ParseDictionary(s) = Got(Dictionaries(xs)[Len(xs)], q)
                         /\ EntriesIn(s, xs, q, Ch) /\ EntriesWithin(s, xs)
  <1> SUFFICES ASSUME ParseDictionary(s) # Fail, s # <<>>
               PROVE  \E xs, q : /\ ParseDictionary(s) = Got(Dictionaries(xs)[Len(xs)], q)
                                 /\ EntriesIn(s, xs, q, Ch) /\ EntriesWithin(s, xs)
    BY ParseDictionaryIs
  <1> DEFINE r == parseMembers(s, EntryReader(s))
  <1>1. checkInputLength(s) /\ ParseDictionary(s) = Then(r, LAMBDA xs, q : Gathered(xs, q))
    BY ParseDictionaryIs
  <1>2. r # Fail
    BY <1>1, Results DEF Then
  <1>3. PICK xs, st, en, q : /\ r = Got(xs, q) /\ Row(s, xs, st, en, q)
                             /\ \A k \in 1..Len(xs) : EntryReader(s)[st[k]] = Got(xs[k], en[k])
    BY <1>2, ReadersAdvance, MembersReturn
  <1> HIDE DEF r
  <1>4. ParseDictionary(s) = Gathered(xs, q)
    BY <1>1, <1>3, Results DEF Then
  <1>5. Room(xs) /\ ParseDictionary(s) = Got(Dictionaries(xs)[Len(xs)], q)
    BY <1>4 DEF Gathered
  <1>6. ASSUME NEW k \in 1..Len(xs) PROVE EntryAt(s, st[k], xs[k], en[k], Ch) /\ EntryWithin(xs[k])
    <2> DEFINE p == st[k]
               y == xs[k]
               f == en[k]
    <2>1. p \in Offsets(s)
      BY <1>3 DEF Row
    <2>2. parseDictionaryMember(s, p) = Got(y, f)
      BY <1>3, <2>1 DEF EntryReader
    <2> HIDE DEF p, y, f
    <2>3. PICK x, j : /\ parseDictionaryMember(s, p) = Got(x, j)
                      /\ EntryAt(s, p, x, j, Ch) /\ EntryWithin(x)
      BY <2>1, <2>2, EntryReturns, Results
    <2>4. Got(x, j) = Got(y, f)
      BY <2>2, <2>3
    <2>5. x = y /\ j = f
      BY <2>4, Results
    <2> QED
      BY <2>3, <2>5 DEF p, y, f
  <1>7. EntriesIn(s, xs, q, Ch) /\ EntriesWithin(s, xs)
    BY <1>1, <1>3, <1>5, <1>6 DEF EntriesIn, EntriesWithin
  <1> QED
    BY <1>5, <1>7

LEMMA RowBegins ==
    ASSUME NEW Ch, NEW t, Text(t, Ch), NEW xs, NEW q, EntriesIn(t, xs, q, Ch) \/ MembersIn(t, xs, q, Ch)
    PROVE  t # <<>> /\ Len(xs) \in Nat \ {0} /\ Tuple(xs)
  <1>1. CASE EntriesIn(t, xs, q, Ch)
    <2>1. PICK st, en : /\ Row(t, xs, st, en, q)
                        /\ \A k \in 1..Len(xs) : EntryAt(t, st[k], xs[k], en[k], Ch)
      BY <1>1 DEF EntriesIn
    <2>2. Len(xs) \in Nat \ {0} /\ st[1] = 1 /\ 1 \in 1..Len(xs) /\ Tuple(xs)
      BY <2>1 DEF Row, Tuple
    <2>3. EntryAt(t, 1, xs[1], en[1], Ch)
      BY <2>1, <2>2
    <2>4. en[1] \in (1 + 1)..(Len(t) + 1)
      BY <2>3, EntryIsRead
    <2>5. Len(t) # 0
      BY <2>4 DEF Text
    <2> QED
      BY <2>2, <2>5
  <1>2. CASE MembersIn(t, xs, q, Ch)
    <2>1. PICK st, en : /\ Row(t, xs, st, en, q)
                        /\ \A k \in 1..Len(xs) : MemberAt(t, st[k], xs[k], en[k], Ch)
      BY <1>2 DEF MembersIn
    <2>2. Len(xs) \in Nat \ {0} /\ st[1] = 1 /\ 1 \in 1..Len(xs) /\ Tuple(xs)
      BY <2>1 DEF Row, Tuple
    <2>3. MemberAt(t, 1, xs[1], en[1], Ch)
      BY <2>1, <2>2
    <2>4. en[1] \in (1 + 1)..(Len(t) + 1)
      BY <2>3, MemberIsRead
    <2>5. Len(t) # 0
      BY <2>4 DEF Text
    <2> QED
      BY <2>2, <2>5
  <1> QED
    BY <1>1, <1>2

LEMMA DictionaryIsRead ==
    ASSUME NEW Ch, NEW t, Text(t, Ch), NEW xs, NEW q, EntriesIn(t, xs, q, Ch)
    PROVE  /\ EntriesWithin(t, xs) => ParseDictionary(t) = Got(Dictionaries(xs)[Len(xs)], q)
           /\ ~EntriesWithin(t, xs) => ParseDictionary(t) = Fail
  <1>1. PICK st, en : /\ Row(t, xs, st, en, q)
                      /\ \A k \in 1..Len(xs) : EntryAt(t, st[k], xs[k], en[k], Ch)
    BY DEF EntriesIn
  <1>2. t # <<>>
    BY RowBegins
  <1> DEFINE r    == parseMembers(t, EntryReader(t))
             good == {xs[k] : k \in {m \in 1..Len(xs) : EntryWithin(xs[m])}}
             all  == \A k \in 1..Len(xs) : xs[k] \in good
  <1>3. \A k \in 1..Len(xs) : xs[k] \in good <=> EntryWithin(xs[k])
    OBVIOUS
  <1>4. all <=> \A k \in 1..Len(xs) : EntryWithin(xs[k])
    OBVIOUS
  <1> HIDE DEF good
  <1>5. ASSUME NEW k \in 1..Len(xs)
        PROVE  /\ xs[k] \in good => EntryReader(t)[st[k]] = Got(xs[k], en[k])
               /\ xs[k] \notin good => EntryReader(t)[st[k]] = Fail
    <2>1. EntryReader(t)[st[k]] = Read(EntryWithin(xs[k]), xs[k], en[k])
      BY <1>1, EntryIsRead DEF EntryReader
    <2> QED
      BY <1>3, <2>1 DEF Read
  <1>6. /\ all => r = Got(xs, q)
        /\ ~all => r = Fail
    BY <1>1, <1>5, ReadersAdvance, MembersRead
  <1> HIDE DEF all, r
  <1>7. checkInputLength(t) => ParseDictionary(t) = Then(r, LAMBDA ys, j : Gathered(ys, j))
    BY <1>2, ParseDictionaryIs DEF r
  <1>8. EntriesWithin(t, xs) <=> checkInputLength(t) /\ all /\ Room(xs)
    BY <1>4 DEF EntriesWithin
  <1>9. CASE ~checkInputLength(t)
    BY <1>8, <1>9, ParseDictionaryIs
  <1>10. CASE checkInputLength(t) /\ ~all
    BY <1>6, <1>7, <1>8, <1>10, Results DEF Then
  <1>11. CASE checkInputLength(t) /\ all
    <2>1. ParseDictionary(t) = Gathered(xs, q)
      BY <1>6, <1>7, <1>11, Results DEF Then
    <2> QED
      BY <1>8, <1>11, <2>1 DEF Gathered
  <1> QED
    BY <1>9, <1>10, <1>11

LEMMA ListsReturn ==
    ASSUME NEW Ch, NEW s, Text(s, Ch)
    PROVE  \/ ParseList(s) = Fail
           \/ s = <<>> /\ ParseList(s) = Got(<<>>, 1)
           \/ \E xs, q : ParseList(s) = Got(xs, q) /\ MembersIn(s, xs, q, Ch) /\ MembersWithin(s, xs)
  <1> SUFFICES ASSUME ParseList(s) # Fail, s # <<>>
               PROVE  \E xs, q : ParseList(s) = Got(xs, q) /\ MembersIn(s, xs, q, Ch) /\ MembersWithin(s, xs)
    BY ParseListIs
  <1> DEFINE r == parseMembers(s, MemberReader(s))
  <1>1. checkInputLength(s) /\ ParseList(s) = Within(r, Limits.MaxDictionaryMembers)
    BY ParseListIs
  <1>2. r # Fail
    BY <1>1, WithinResults
  <1>3. PICK xs, st, en, q : /\ r = Got(xs, q) /\ Row(s, xs, st, en, q)
                             /\ \A k \in 1..Len(xs) : MemberReader(s)[st[k]] = Got(xs[k], en[k])
    BY <1>2, ReadersAdvance, MembersReturn
  <1> HIDE DEF r
  <1>4. ParseList(s) = Read(~Exceeds(Len(xs), Limits.MaxDictionaryMembers), xs, q)
    BY <1>1, <1>3, WithinResults
  <1>5. ~Exceeds(Len(xs), Limits.MaxDictionaryMembers) /\ ParseList(s) = Got(xs, q)
    BY <1>4 DEF Read
  <1>6. ASSUME NEW k \in 1..Len(xs) PROVE MemberAt(s, st[k], xs[k], en[k], Ch) /\ MemberWithin(xs[k])
    <2> DEFINE p == st[k]
               y == xs[k]
               f == en[k]
    <2>1. p \in Offsets(s)
      BY <1>3 DEF Row
    <2>2. parseValue(s, p) = Got(y, f)
      BY <1>3, <2>1 DEF MemberReader
    <2> HIDE DEF p, y, f
    <2>3. PICK x, j : /\ parseValue(s, p) = Got(x, j)
                      /\ MemberAt(s, p, x, j, Ch) /\ MemberWithin(x)
      BY <2>1, <2>2, MemberReturns, Results
    <2>4. Got(x, j) = Got(y, f)
      BY <2>2, <2>3
    <2>5. x = y /\ j = f
      BY <2>4, Results
    <2> QED
      BY <2>3, <2>5 DEF p, y, f
  <1>7. MembersIn(s, xs, q, Ch) /\ MembersWithin(s, xs)
    BY <1>1, <1>3, <1>5, <1>6 DEF MembersIn, MembersWithin
  <1> QED
    BY <1>5, <1>7

LEMMA ListsAreRead ==
    ASSUME NEW Ch, NEW t, Text(t, Ch), NEW xs, NEW q, MembersIn(t, xs, q, Ch), MembersWithin(t, xs)
    PROVE  ParseList(t) = Got(xs, q)
  <1>1. PICK st, en : /\ Row(t, xs, st, en, q)
                      /\ \A k \in 1..Len(xs) : MemberAt(t, st[k], xs[k], en[k], Ch)
    BY DEF MembersIn
  <1>2. t # <<>>
    BY RowBegins
  <1> DEFINE r    == parseMembers(t, MemberReader(t))
             good == {xs[k] : k \in 1..Len(xs)}
  <1>3. \A k \in 1..Len(xs) : xs[k] \in good
    OBVIOUS
  <1>4. ASSUME NEW k \in 1..Len(xs) PROVE MemberReader(t)[st[k]] = Got(xs[k], en[k])
    <2>1. MemberAt(t, st[k], xs[k], en[k], Ch) /\ MemberWithin(xs[k])
      BY <1>1 DEF MembersWithin
    <2> QED
      BY <2>1, MemberIsRead DEF MemberReader, Read
  <1> HIDE DEF good
  <1>5. r = Got(xs, q)
    BY <1>1, <1>3, <1>4, ReadersAdvance, MembersRead
  <1> HIDE DEF r
  <1>6. ParseList(t) = Within(r, Limits.MaxDictionaryMembers)
    BY <1>2, ParseListIs DEF r, MembersWithin
  <1> QED
    BY <1>5, <1>6, WithinResults DEF Read, MembersWithin

-----------------------------------------------------------------------------
(* Lists that the dictionary parser sees first.                            *)

\* An item that is a token begins with a key.
LEMMA TokenBare ==
    ASSUME NEW Ch, NEW t, Text(t, Ch), NEW p, NEW v, NEW q, BareAt(t, p, v, q, Ch)
    PROVE  /\ "tok" \in DOMAIN v => KeyAt(t, p, v.tok, q) /\ v = [tok |-> v.tok]
           /\ peek(t, p) \in isAlpha \cup {"*"} /\ BareWithin(v) => "tok" \in DOMAIN v
  <1> DEFINE w == SubSeq(t, p, q - 1)
  <1>1. /\ p \in Offsets(t) /\ q \in (p + 1)..(Len(t) + 1)
        /\ Spelt(w, v, Ch) /\ MayFollow(v, peek(t, q))
    BY DEF BareAt
  <1> HIDE DEF w
  <1>2. ASSUME "tok" \in DOMAIN v PROVE KeyAt(t, p, v.tok, q) /\ v = [tok |-> v.tok]
    <2>1. TokSpelt(w, v)
      BY <1>1, <1>2, Kinds DEF Spelt, BoolSpelt, IntSpelt, StrSpelt, BinSpelt
    <2>2. IsToken(w) /\ v = [tok |-> w]
      BY <2>1 DEF TokSpelt
    <2>3. v.tok = w
      BY <2>2
    <2>4. peek(t, q) \notin isTokenChar
      BY <1>1, <1>2 DEF MayFollow
    <2> QED
      BY <1>1, <2>2, <2>3, <2>4 DEF KeyAt, w
  <1>3. ASSUME peek(t, p) \in isAlpha \cup {"*"}, BareWithin(v) PROVE "tok" \in DOMAIN v
    <2>1. parseBareItem(t, p) = Got(v, q)
      BY <1>3, BareIsRead DEF Read
    <2>2. parseBareItem(t, p) = parseToken(t, p)
      BY <1>3, Dispatch
    <2> DEFINE r == parseToken(t, p)
    <2>0. r # Fail
      <3>1. Got(v, q) # Fail
        BY Results
      <3>2. r = Got(v, q)
        BY <2>1, <2>2
      <3> HIDE DEF r
      <3> QED
        BY <3>1, <3>2
    <2>3. PICK key, j : r = Got([tok |-> key], j)
      <3>1. \/ r = Fail
            \/ \E key, j : r = Got([tok |-> key], j) /\ KeyAt(t, p, key, j) /\ KeyWithin(key)
        BY <1>1, KeyReturns
      <3> HIDE DEF r
      <3> QED
        BY <2>0, <3>1
    <2>4. Got([tok |-> key], j) = Got(v, q)
      BY <2>1, <2>2, <2>3
    <2>5. v = [tok |-> key]
      BY <2>4, Results
    <2> QED
      BY <2>5, Kinds
  <1> QED
    BY <1>2, <1>3

\* A list that begins with something else is no dictionary.
LEMMA NoKeyNoDictionary ==
    ASSUME NEW Ch, NEW s, Text(s, Ch), NEW xs, NEW q, MembersIn(s, xs, q, Ch), MembersWithin(s, xs),
           "val" \notin DOMAIN xs[1] \/ "tok" \notin DOMAIN xs[1].val
    PROVE  ParseDictionary(s) = Fail
  <1> SUFFICES ASSUME ParseDictionary(s) # Fail PROVE FALSE
    OBVIOUS
  <1>1. PICK st, en : /\ Row(s, xs, st, en, q)
                      /\ \A k \in 1..Len(xs) : MemberAt(s, st[k], xs[k], en[k], Ch)
    BY DEF MembersIn
  <1>2. s # <<>> /\ 1 \in 1..Len(xs) /\ st[1] = 1
    BY <1>1, RowBegins DEF Row
  <1> DEFINE x == xs[1]
             e == en[1]
  <1>3. MemberAt(s, 1, x, e, Ch) /\ MemberWithin(x)
    BY <1>1, <1>2 DEF MembersWithin
  <1>4. "val" \notin DOMAIN x \/ "tok" \notin DOMAIN x.val
    OBVIOUS
  <1> HIDE DEF x, e
  <1>5. PICK ys, f : EntriesIn(s, ys, f, Ch)
    BY <1>2, DictionaryReturns
  <1>6. PICK st1, en1 : /\ Row(s, ys, st1, en1, f)
                        /\ \A k \in 1..Len(ys) : EntryAt(s, st1[k], ys[k], en1[k], Ch)
    BY <1>5 DEF EntriesIn
  <1>7. 1 \in 1..Len(ys) /\ st1[1] = 1
    BY <1>5, <1>6, RowBegins DEF Row
  <1>8. EntryAt(s, 1, ys[1], en1[1], Ch)
    BY <1>6, <1>7
  <1>9. PICK key, m : KeyAt(s, 1, key, m)
    BY <1>8 DEF EntryAt
  <1>10. peek(s, 1) \in isAlpha \cup {"*"}
    BY <1>9, KeyIsRead
  <1>11. peek(s, 1) # "("
    BY <1>10, StarterClasses DEF Starters
  <1>12. ItemAt(s, 1, x, e, Ch)
    BY <1>3, <1>11 DEF MemberAt, ListAt
  <1>13. "val" \in DOMAIN x /\ ItemWithin(x)
    BY <1>3, <1>12, MemberWithinIs
  <1>14. PICK n : BareAt(s, 1, x.val, n, Ch)
    BY <1>12 DEF ItemAt
  <1>15. "tok" \in DOMAIN x.val
    BY <1>10, <1>13, <1>14, TokenBare DEF ItemWithin
  <1> QED
    BY <1>4, <1>13, <1>15

\* The key of a flag that is written as an item.
FlagEntry(x) == [key |-> x.val.tok, member |-> Flag]

\* Where an item that is a flag is followed by a comma or by the end.
LEMMA FlagItem ==
    ASSUME NEW Ch, NEW s, Text(s, Ch), NEW p, NEW x, NEW e, ItemAt(s, p, x, e, Ch), IsFlag(x)
    PROVE  /\ KeyAt(s, p, x.val.tok, e) /\ x = [val |-> [tok |-> x.val.tok], params |-> <<>>]
           /\ p \in Offsets(s) /\ e \in Offsets(s)
  <1>1. x = [val |-> x.val, params |-> x.params]
    BY DEF ItemAt
  <1>2. PICK m : BareAt(s, p, x.val, m, Ch) /\ ParamsAt(s, m, x.params, e, Ch)
    BY DEF ItemAt
  <1>3. x.params = <<>> /\ "tok" \in DOMAIN x.val
    BY DEF IsFlag
  <1>4. m = e
    <2>1. PICK at : at[0] = m /\ at[Len(x.params)] = e
      BY <1>2 DEF ParamsAt
    <2> QED
      BY <1>3, <2>1
  <1>5. KeyAt(s, p, x.val.tok, e) /\ x.val = [tok |-> x.val.tok]
    BY <1>2, <1>3, <1>4, TokenBare
  <1>6. p \in Offsets(s) /\ e \in Offsets(s)
    BY <1>2, <1>4 DEF ParamsAt, BareAt
  <1> QED
    BY <1>1, <1>3, <1>5, <1>6

LEMMA FlagIsRead ==
    ASSUME NEW Ch, NEW s, Text(s, Ch), NEW p, NEW x, NEW e, ItemAt(s, p, x, e, Ch), IsFlag(x),
           ItemWithin(x), peek(s, e) # "="
    PROVE  /\ peek(s, e) \notin Blank => EntryReader(s)[p] = Got(FlagEntry(x), e)
           /\ peek(s, e) \in Blank => EntryReader(s)[p] = Fail
  <1> DEFINE w == x.val.tok
  <1>1. KeyAt(s, p, w, e) /\ x.val = [tok |-> w] /\ p \in Offsets(s) /\ e \in Offsets(s)
    <2>1. x = [val |-> [tok |-> w], params |-> <<>>]
      BY FlagItem
    <2> QED
      BY <2>1, FlagItem
  <1> HIDE DEF w
  <1>2. KeyWithin(w)
    BY <1>1, KindsWithin DEF ItemWithin, KeyWithin
  <1>3. parseToken(s, p) = Got([tok |-> w], e)
    BY <1>1, <1>2, KeyIsRead DEF Read
  <1>4. EntryReader(s)[p] = Then(AfterKey(s, e), LAMBDA member, k : Got([key |-> w, member |-> member], k))
    BY <1>1, <1>3, DictionaryMemberIs, Results DEF EntryReader, Then
  <1>5. peek(s, e) \in Blank => EntryReader(s)[p] = Fail
    BY <1>4, AfterKeyIs, Results DEF Then
  <1>6. peek(s, e) \notin Blank => EntryReader(s)[p] = Got([key |-> w, member |-> Flag], e)
    BY <1>4, AfterKeyIs, Results DEF Then
  <1> QED
    BY <1>5, <1>6 DEF FlagEntry, w

\* A list of different flags, of which one is followed by a blank, is no dictionary;
\* any other is the dictionary of its flags.
LEMMA FlagsAreEntries ==
    ASSUME NEW Ch, NEW s, Text(s, Ch), NEW xs, MembersIn(s, xs, Len(s) + 1, Ch), MembersWithin(s, xs),
           \A i \in 1..Len(xs) : IsFlag(xs[i]),
           \A i, j \in 1..Len(xs) : xs[i] = xs[j] => i = j
    PROVE  LET zs == [k \in 1..Len(xs) |-> FlagEntry(xs[k])]
           IN  ParseDictionary(s) = Fail \/ ParseDictionary(s) = Got(zs, Len(s) + 1)
  <1> DEFINE q  == Len(s) + 1
             zs == [k \in 1..Len(xs) |-> FlagEntry(xs[k])]
  <1>1. PICK st, en : /\ Row(s, xs, st, en, q)
                      /\ \A k \in 1..Len(xs) : MemberAt(s, st[k], xs[k], en[k], Ch)
    BY DEF MembersIn
  <1>2. s # <<>> /\ Len(xs) \in Nat \ {0} /\ Len(s) \in Nat
    BY RowBegins DEF Text
  <1>3. /\ zs = [k \in 1..Len(xs) |-> FlagEntry(xs[k])]
        /\ Len(zs) = Len(xs)
    BY <1>2
  <1> HIDE DEF zs
  <1>4. ASSUME NEW k \in 1..Len(xs)
        PROVE  /\ ItemAt(s, st[k], xs[k], en[k], Ch) /\ IsFlag(xs[k]) /\ ItemWithin(xs[k])
               /\ peek(s, en[k]) # "="
    <2> DEFINE x == xs[k]
               p == st[k]
               e == en[k]
    <2>1. MemberAt(s, p, x, e, Ch) /\ MemberWithin(x) /\ IsFlag(x)
      BY <1>1 DEF MembersWithin
    <2>2. e \in Offsets(s)
      BY <1>1 DEF Row
    <2>3. peek(s, skipOWS(s, e)) # "="
      <3>1. CASE k = Len(xs)
        <4>1. q = skipOWS(s, e)
          BY <1>1, <3>1 DEF Row
        <4>2. peek(s, q) = "EOF"
          BY <1>2, PeekAt
        <4> QED
          BY <4>1, <4>2, DelimitersDiffer
      <3>2. CASE k # Len(xs)
        <4>1. k + 1 \in 2..Len(xs) /\ (k + 1) - 1 = k
          BY <1>2, <3>2
        <4>2. peek(s, skipOWS(s, e)) = Comma
          BY <1>1, <4>1 DEF Row
        <4> QED
          BY <4>2, DelimitersDiffer
      <3> QED
        BY <3>1, <3>2
    <2> HIDE DEF x, p, e
    <2>4. peek(s, e) # "="
      BY <2>2, <2>3, PastBlanks, Blanks
    <2>5. ItemAt(s, p, x, e, Ch)
      BY <2>1, MemberWithinIs DEF MemberAt, IsFlag
    <2>6. ItemWithin(x)
      BY <2>1, <2>5, MemberWithinIs
    <2> QED
      BY <2>1, <2>4, <2>5, <2>6 DEF x, p, e
  <1>5. \A i, j \in 1..Len(zs) : zs[i].key = zs[j].key => i = j
    <2> SUFFICES ASSUME NEW i \in 1..Len(xs), NEW j \in 1..Len(xs), zs[i].key = zs[j].key
                 PROVE  i = j
      BY <1>3
    <2>1. xs[i].val.tok = xs[j].val.tok
      BY <1>3 DEF FlagEntry
    <2>2. xs[i] = [val |-> [tok |-> xs[i].val.tok], params |-> <<>>]
      BY <1>4, FlagItem
    <2>3. xs[j] = [val |-> [tok |-> xs[j].val.tok], params |-> <<>>]
      BY <1>4, FlagItem
    <2> QED
      BY <2>1, <2>2, <2>3
  <1> DEFINE good == {zs[k] : k \in {m \in 1..Len(xs) : peek(s, en[m]) \notin Blank}}
             all  == \A k \in 1..Len(zs) : zs[k] \in good
             r    == parseMembers(s, EntryReader(s))
  <1>6. \A k \in 1..Len(xs) : zs[k] \in good <=> peek(s, en[k]) \notin Blank
    BY <1>3, <1>5
  <1> HIDE DEF good
  <1>7. ASSUME NEW k \in 1..Len(zs)
        PROVE  /\ zs[k] \in good => EntryReader(s)[st[k]] = Got(zs[k], en[k])
               /\ zs[k] \notin good => EntryReader(s)[st[k]] = Fail
    <2>1. k \in 1..Len(xs) /\ zs[k] = FlagEntry(xs[k])
      BY <1>3
    <2> QED
      BY <1>4, <1>6, <2>1, FlagIsRead
  <1>8. Tuple(zs) /\ Row(s, zs, st, en, q)
    <2>1. Tuple(zs)
      BY <1>2, <1>3 DEF Tuple
    <2> QED
      BY <1>1, <1>3, <2>1 DEF Row
  <1> HIDE DEF q
  <1>9. /\ all => r = Got(zs, q)
        /\ ~all => r = Fail
    BY <1>7, <1>8, ReadersAdvance, MembersRead
  <1> HIDE DEF all, r
  <1>10. ParseDictionary(s) = Then(r, LAMBDA ys, j : Gathered(ys, j))
    BY <1>2, ParseDictionaryIs DEF r, MembersWithin
  <1>11. CASE ~all
    BY <1>9, <1>10, <1>11, Results DEF Then
  <1>12. CASE all
    <2>1. ParseDictionary(s) = Gathered(zs, q)
      BY <1>9, <1>10, <1>12, Results DEF Then
    <2>2. Dictionaries(zs)[Len(zs)] = zs
      <3>1. zs \in Seq({zs[k] : k \in 1..Len(zs)})
        BY <1>8, Tuples
      <3> QED
        BY <1>5, <3>1, DistinctEntries
    <2> QED
      BY <2>1, <2>2 DEF Gathered, zs, q
  <1> QED
    BY <1>11, <1>12 DEF zs

\* A dictionary of flags is written as the list of its keys.
LEMMA FlagsAreWritten ==
    ASSUME NEW xs, Len(xs) \in Nat,
           \A k \in 1..Len(xs) : /\ IsToken(xs[k].val.tok)
                                  /\ xs[k] = [val |-> [tok |-> xs[k].val.tok], params |-> <<>>]
    PROVE  SerializeDictionary([k \in 1..Len(xs) |-> FlagEntry(xs[k])]) = SerializeList(xs)
  <1> DEFINE zs == [k \in 1..Len(xs) |-> FlagEntry(xs[k])]
  <1>1. Len(zs) = Len(xs) /\ \A k \in 1..Len(xs) : zs[k] = FlagEntry(xs[k])
    OBVIOUS
  <1> HIDE DEF zs
  <1>2. ASSUME NEW k \in 1..Len(xs)
        PROVE  zs[k].key \o (IF zs[k].member = [val |-> BareTrue, params |-> <<>>]
                             THEN <<>> ELSE <<"=">> \o writeMember(zs[k].member)) = writeMember(xs[k])
    <2> DEFINE w == xs[k].val.tok
    <2>1. xs[k] = [val |-> [tok |-> w], params |-> <<>>] /\ IsToken(w)
      OBVIOUS
    <2>2. zs[k] = [key |-> w, member |-> [val |-> BareTrue, params |-> <<>>]]
      BY <1>1 DEF FlagEntry, Flag
    <2> HIDE DEF w
    <2>3. writeBareItem([tok |-> w]) = w
      BY Kinds DEF writeBareItem
    <2>4. writeParameters(<<>>) = <<>>
      <3>1. writeParameters(<<>>) = FlattenSeq(<<>>)
        BY DEF writeParameters
      <3>2. <<>> \in Seq(Seq({})) /\ Len(<<>>) = 0
        OBVIOUS
      <3> QED
        BY ONLY <3>1, <3>2, FlatSteps DEF Flattens
    <2>5. writeMember(xs[k]) = w \o <<>>
      <3>1. writeMember(xs[k]) = writeItem(xs[k])
        BY <2>1, MemberKinds DEF writeMember
      <3> QED
        <4>1. xs[k].val = [tok |-> w] /\ xs[k].params = <<>>
          BY <2>1
        <4> QED
          BY <2>3, <2>4, <3>1, <4>1 DEF writeItem
    <2> QED
      <3>1. zs[k].member = [val |-> BareTrue, params |-> <<>>] /\ zs[k].key = w
        BY <2>2
      <3> QED
        BY <2>5, <3>1
  <1>3. [k \in 1..Len(zs) |-> zs[k].key \o (IF zs[k].member = [val |-> BareTrue, params |-> <<>>]
                             THEN <<>> ELSE <<"=">> \o writeMember(zs[k].member))]
          = [k \in 1..Len(xs) |-> writeMember(xs[k])]
    BY <1>1, <1>2
  <1>4. SerializeDictionary(zs) = SerializeList(xs)
    BY <1>3 DEF SerializeDictionary, SerializeList
  <1> QED
    BY <1>4 DEF zs

\* What is read to its end as a list, and not cut short, is written as that list.
LEMMA ListsAreKept ==
    ASSUME NEW Ch, NEW s, Text(s, Ch), Whole(ParseList(s), s), NotCutShort(ParseList(s).val)
    PROVE  strictField(s) = SerializeList(ParseList(s).val)
  <1> DEFINE list == ParseList(s).val
  <1>1. CASE ParseDictionary(s) = Fail
    BY <1>1, Results DEF strictField, Written, Whole
  <1>2. CASE s = <<>>
    <2>1. ParseList(s) = Got(<<>>, 1) /\ checkInputLength(s)
      BY <1>2, ParseListIs, Results DEF Whole
    <2>2. ParseDictionary(s) = Got(<<>>, 1)
      BY <1>2, <2>1, ParseDictionaryIs
    <2>3. strictField(s) = SerializeDictionary(<<>>)
      BY <2>2, Results DEF strictField, Written
    <2>4. SerializeDictionary(<<>>) = SerializeList(<<>>)
      BY DEF SerializeDictionary, SerializeList
    <2> QED
      BY <2>1, <2>3, <2>4, Results
  <1>3. CASE ParseDictionary(s) # Fail /\ s # <<>>
    <2>1. PICK xs, q : ParseList(s) = Got(xs, q) /\ MembersIn(s, xs, q, Ch) /\ MembersWithin(s, xs)
      BY <1>3, ListsReturn, Results DEF Whole
    <2>2. q = Len(s) + 1 /\ list = xs
      BY <2>1, Results DEF Whole
    <2>3. xs # <<>>
      BY <2>1, RowBegins
    <2>4. ~("val" \notin DOMAIN xs[1] \/ "tok" \notin DOMAIN xs[1].val)
      BY <1>3, <2>1, NoKeyNoDictionary
    <2>5. /\ \A i \in 1..Len(xs) : IsFlag(xs[i])
          /\ \A i, j \in 1..Len(xs) : xs[i] = xs[j] => i = j
      BY <2>2, <2>3, <2>4 DEF NotCutShort
    <2>6. ParseDictionary(s) = Got([k \in 1..Len(xs) |-> FlagEntry(xs[k])], q)
      BY <1>3, <2>1, <2>2, <2>5, FlagsAreEntries
    <2>7. strictField(s) = SerializeDictionary([k \in 1..Len(xs) |-> FlagEntry(xs[k])])
      BY <2>6, Results DEF strictField, Written
    <2>8. ASSUME NEW k \in 1..Len(xs)
          PROVE  /\ IsToken(xs[k].val.tok)
                 /\ xs[k] = [val |-> [tok |-> xs[k].val.tok], params |-> <<>>]
      <3>1. PICK st, en : MemberAt(s, st[k], xs[k], en[k], Ch)
        BY <2>1 DEF MembersIn
      <3>2. ItemAt(s, st[k], xs[k], en[k], Ch) /\ IsFlag(xs[k])
        BY <2>5, <3>1, MemberWithinIs DEF MemberAt, IsFlag
      <3>3. xs[k] = [val |-> [tok |-> xs[k].val.tok], params |-> <<>>]
        BY <3>2, FlagItem
      <3>4. KeyAt(s, st[k], xs[k].val.tok, en[k])
        BY <3>2, FlagItem
      <3> QED
        BY <3>3, <3>4 DEF KeyAt
    <2>9. SerializeDictionary([k \in 1..Len(xs) |-> FlagEntry(xs[k])]) = SerializeList(xs)
      BY <2>1, <2>8, RowBegins, FlagsAreWritten
    <2> QED
      BY <2>2, <2>7, <2>9
  <1> QED
    BY <1>1, <1>2, <1>3

-----------------------------------------------------------------------------
(* The field.                                                              *)

\* The characters of the grammar.
Syntax == isTokenChar \cup isBase64Char \cup {Quote, Escape, Comma, Semicolon, SP, "?", "(", ")"}

\* The characters that can be in a field, or in what is written for it.
FieldPieces == UNION {a.pieces : a \in Alphabets}
PieceChars  == UNION {ToSet(p) : p \in FieldPieces}
FieldChars  == PieceChars \cup Syntax

LEMMA PiecesOf ==
    /\ \A a \in Alphabets : \A p \in a.pieces : p \in FieldPieces
    /\ \A p \in FieldPieces : p \in Seq(ToSet(p)) /\ "EOF" \notin ToSet(p)
  <1>1. \A a \in Alphabets : \A p \in a.pieces : p \in Seq(ToSet(p)) /\ "EOF" \notin ToSet(p)
    BY TextAssumption
  <1> QED
    BY ONLY <1>1 DEF FieldPieces

LEMMA NoEnd == "EOF" \notin FieldChars
  <1>1. "EOF" \notin Syntax
    BY TokenClasses, Base64Classes, DelimitersDiffer DEF Ends, Syntax
  <1>2. "EOF" \notin PieceChars
    BY PiecesOf DEF PieceChars
  <1> QED
    BY <1>1, <1>2 DEF FieldChars

FieldTyped == /\ alphabet \in Alphabets
              /\ lines \in Seq(Seq(FieldChars)) /\ lines # <<>>

\* The lines of a field are texts.
THEOREM FieldLines == XSpec => []FieldTyped
  <1>1. XInit => FieldTyped
    <2>1. << <<>> >> \in Seq(Seq(FieldChars)) /\ << <<>> >> # <<>>
      OBVIOUS
    <2> QED
      BY <2>1 DEF XInit, FieldTyped
  <1>2. FieldTyped /\ [XNext]_xvars => FieldTyped'
    <2> SUFFICES ASSUME FieldTyped, [XNext]_xvars PROVE FieldTyped'
      OBVIOUS
    <2>1. ASSUME NEW p \in alphabet.pieces, lines' = [lines EXCEPT ![Len(lines)] = @ \o p],
                 UNCHANGED alphabet
          PROVE  FieldTyped'
      <3>1. p \in Seq(FieldChars)
        <4>1. p \in FieldPieces
          BY PiecesOf DEF FieldTyped
        <4>2. p \in Seq(ToSet(p))
          BY <4>1, PiecesOf
        <4>3. ToSet(p) \subseteq FieldChars
          BY <4>1 DEF FieldChars, PieceChars
        <4> QED
          BY <4>2, <4>3
      <3>2. Len(lines) \in 1..Len(lines) /\ lines \in Seq(Seq(FieldChars))
        BY DEF FieldTyped
      <3>3. lines[Len(lines)] \o p \in Seq(FieldChars)
        <4>1. lines[Len(lines)] \in Seq(FieldChars)
          BY <3>2
        <4> QED
          BY <3>1, <4>1
      <3>4. lines' \in Seq(Seq(FieldChars)) /\ Len(lines') = Len(lines)
        BY <3>2, <3>3, <2>1
      <3> QED
        BY <2>1, <3>2, <3>4 DEF FieldTyped
    <2>2. CASE AddPiece
      BY <2>1, <2>2 DEF AddPiece
    <2>3. CASE AddLine
      <3>1. lines' = Append(lines, <<>>) /\ UNCHANGED alphabet /\ <<>> \in Seq(FieldChars)
        BY <2>3 DEF AddLine
      <3> QED
        BY <3>1 DEF FieldTyped
    <2>4. CASE UNCHANGED xvars
      BY <2>4 DEF FieldTyped, xvars
    <2> QED
      BY <2>2, <2>3, <2>4 DEF XNext
  <1> QED
    BY <1>1, <1>2, PTL DEF XSpec

LEMMA TextIsText ==
    ASSUME FieldTyped
    PROVE  Text(text, FieldChars)
  <1>1. Len(lines) \in 1..Len(lines) /\ lines \in Seq(Seq(FieldChars))
    BY DEF FieldTyped
  <1>2. lines[Len(lines)] \in Seq(FieldChars)
    BY <1>1
  <1> QED
    BY <1>2, NoEnd DEF Text, text

\* A list that is read to its end is serialized as that list (NotCutShort), by
\* whatever else its text could be read.
THEOREM StrictlyKept == XSpec => []StrictKeepsLists
  <1>1. FieldTyped => StrictKeepsLists
    BY TextIsText, ListsAreKept DEF StrictKeepsLists
  <1> QED
    BY <1>1, FieldLines, PTL

-----------------------------------------------------------------------------
(* Base64: what is encoded is decoded again.                               *)

LEMMA Quarters ==
    ASSUME NEW b \in 0..255
    PROVE  /\ b \div 4 \in 0..63 /\ b \div 16 \in 0..15 /\ b \div 64 \in 0..3 /\ b \div 256 = 0
           /\ b % 4 \in 0..3 /\ b % 16 \in 0..15 /\ b % 64 \in 0..63 /\ b % 1 = 0
           /\ 4 * (b \div 4) + (b % 4) = b /\ 16 * (b \div 16) + (b % 16) = b
           /\ 64 * (b \div 64) + (b % 64) = b
  <1>1. b \in Nat
    OBVIOUS
  <1>2. 4 * (b \div 4) + (b % 4) = b
    BY ONLY <1>1
  <1>3. 16 * (b \div 16) + (b % 16) = b
    BY ONLY <1>1
  <1>4. 64 * (b \div 64) + (b % 64) = b
    BY ONLY <1>1
  <1> QED
    BY <1>2, <1>3, <1>4

LEMMA TwoParts ==
    /\ \A x \in 0..3 : \A y \in 0..15 : /\ 16 * x + y \in 0..63
                                        /\ (16 * x + y) % 16 = y /\ (16 * x + y) \div 16 = x
    /\ \A x \in 0..15 : \A y \in 0..3 : /\ 4 * x + y \in 0..63
                                        /\ (4 * x + y) % 4 = y /\ (4 * x + y) \div 4 = x
    /\ \A x \in 0..63 : x % 64 = x /\ x \div 1 = x
    /\ \A x, y \in 0..63 : /\ 4 * x + y \div 16 \in 0..255 /\ 16 * (x % 16) + y \div 4 \in 0..255
                           /\ 64 * (x % 4) + y \in 0..255
  OBVIOUS

\* The number of characters for n bytes, by residue.
LEMMA Lengths ==
    ASSUME NEW n \in Nat
    PROVE  LET m == (8 * n + 5) \div 6
           IN  /\ m \in Nat /\ m % 4 # 1 /\ m <= 4 * ((n + 2) \div 3)
               /\ 4 * ((n + 2) \div 3) = 4 * ((m + 3) \div 4) /\ (m * 6) \div 8 = n
               /\ 4 * ((n + 2) \div 3) \in Nat
  <1> DEFINE a == n \div 3
             r == n % 3
  <1>1. a \in Nat /\ r \in 0..2 /\ n = 3 * a + r
    OBVIOUS
  <1> HIDE DEF a, r
  <1> QED
    BY <1>1

LEMMA Positions ==
    ASSUME NEW n \in Nat, NEW k \in 1..n
    PROVE  LET a == (k - 1) \div 3
               r == (k - 1) % 3
               i == 4 * a + r + 1
               m == (8 * n + 5) \div 6
           IN  /\ a \in Nat /\ r \in 0..2 /\ k = 3 * a + r + 1
               /\ i \in 1..m /\ i + 1 \in 1..m
               /\ (i - 1) % 4 = r /\ (i - 1) \div 4 = a
               /\ i % 4 = r + 1 /\ i \div 4 = a
  <1> DEFINE a == (k - 1) \div 3
             r == (k - 1) % 3
  <1>1. a \in Nat /\ r \in 0..2 /\ k = 3 * a + r + 1
    OBVIOUS
  <1> HIDE DEF a, r
  <1> QED
    BY <1>1 DEF a, r

LEMMA Fours ==
    FourTo[1] = 1 /\ FourTo[2] = 4 /\ FourTo[3] = 16 /\ FourTo[4] = 64 /\ FourTo[5] = 256
  BY DEF FourTo

Byte(bytes, k) == IF k \in 1..Len(bytes) THEN bytes[k] ELSE 0

\* The number of the character at place j of what is encoded.
Sextet(bytes, j) ==
    LET r == (j - 1) % 4
        i == 3 * ((j - 1) \div 4) + r
    IN  (Byte(bytes, i) % FourTo[r + 1]) * FourTo[4 - r] + Byte(bytes, i + 1) \div FourTo[r + 2]

LEMMA Element ==
    ASSUME NEW S, NEW s \in Seq(S), NEW k \in 1..Len(s)
    PROVE  s[k] \in S
  OBVIOUS

LEMMA BytesTyped ==
    ASSUME NEW bytes \in Seq(0..255), NEW k \in Int
    PROVE  Byte(bytes, k) \in 0..255
  <1>1. CASE k \in 1..Len(bytes)
    BY <1>1, Element DEF Byte
  <1>2. CASE k \notin 1..Len(bytes)
    BY <1>2 DEF Byte
  <1> QED
    BY <1>1, <1>2

LEMMA SextetRange ==
    ASSUME NEW r \in 0..3, NEW x \in 0..255, NEW y \in 0..255
    PROVE  (x % FourTo[r + 1]) * FourTo[4 - r] + y \div FourTo[r + 2] \in 0..63
  <1>1. CASE r = 0
    <2>1. FourTo[r + 1] = 1 /\ FourTo[4 - r] = 64 /\ FourTo[r + 2] = 4
      BY <1>1, Fours
    <2>2. (x % 1) * 64 + (y \div 4) \in 0..63
      BY Quarters
    <2> QED
      BY ONLY <2>1, <2>2
  <1>2. CASE r = 1
    <2>1. FourTo[r + 1] = 4 /\ FourTo[4 - r] = 16 /\ FourTo[r + 2] = 16
      BY <1>2, Fours
    <2>2. (x % 4) * 16 + (y \div 16) \in 0..63
      BY Quarters
    <2> QED
      BY ONLY <2>1, <2>2
  <1>3. CASE r = 2
    <2>1. FourTo[r + 1] = 16 /\ FourTo[4 - r] = 4 /\ FourTo[r + 2] = 64
      BY <1>3, Fours
    <2>2. (x % 16) * 4 + (y \div 64) \in 0..63
      BY Quarters
    <2> QED
      BY ONLY <2>1, <2>2
  <1>4. CASE r = 3
    <2>1. FourTo[r + 1] = 64 /\ FourTo[4 - r] = 1 /\ FourTo[r + 2] = 256
      BY <1>4, Fours
    <2>2. (x % 64) * 1 + (y \div 256) \in 0..63
      BY Quarters
    <2> QED
      BY ONLY <2>1, <2>2
  <1> QED
    BY <1>1, <1>2, <1>3, <1>4

LEMMA SextetTyped ==
    ASSUME NEW bytes \in Seq(0..255), NEW j \in Nat \ {0}
    PROVE  Sextet(bytes, j) \in 0..63
  <1> DEFINE r == (j - 1) % 4
             i == 3 * ((j - 1) \div 4) + r
  <1>1. r \in 0..3 /\ i \in Int /\ i + 1 \in Int
    OBVIOUS
  <1>2. Sextet(bytes, j)
          = (Byte(bytes, i) % FourTo[r + 1]) * FourTo[4 - r] + Byte(bytes, i + 1) \div FourTo[r + 2]
    BY DEF Sextet
  <1> DEFINE x == Byte(bytes, i)
             y == Byte(bytes, i + 1)
  <1>3. x \in 0..255 /\ y \in 0..255
    <2> HIDE DEF r, i
    <2> QED
      BY <1>1, BytesTyped
  <1> HIDE DEF r, i, x, y
  <1>4. (x % FourTo[r + 1]) * FourTo[4 - r] + y \div FourTo[r + 2] \in 0..63
    BY ONLY <1>1, <1>3, SextetRange
  <1> QED
    BY <1>2, <1>4 DEF x, y

\* A byte from the two characters that have its bits, and those of its neighbours.
Rebuilt(r, x, b, y) ==
    (((x % FourTo[r + 1]) * FourTo[4 - r] + b \div FourTo[r + 2]) % FourTo[4 - r]) * FourTo[r + 2]
      + ((b % FourTo[r + 2]) * FourTo[3 - r] + y \div FourTo[r + 3]) \div FourTo[3 - r] = b

LEMMA ByteRebuilt ==
    ASSUME NEW r \in 0..2, NEW x \in 0..255, NEW b \in 0..255, NEW y \in 0..255
    PROVE  Rebuilt(r, x, b, y)
  <1>1. CASE r = 0
    <2>0. /\ FourTo[r + 1] = 1 /\ FourTo[4 - r] = 64 /\ FourTo[r + 2] = 4
          /\ FourTo[3 - r] = 16 /\ FourTo[r + 3] = 16
      BY <1>1, Fours
    <2>1. (((x % 1) * 64 + b \div 4) % 64) * 4 + ((b % 4) * 16 + y \div 16) \div 16 = b
      BY Quarters
    <2> QED
      BY ONLY <2>0, <2>1 DEF Rebuilt
  <1>2. CASE r = 1
    <2>0. /\ FourTo[r + 1] = 4 /\ FourTo[4 - r] = 16 /\ FourTo[r + 2] = 16
          /\ FourTo[3 - r] = 4 /\ FourTo[r + 3] = 64
      BY <1>2, Fours
    <2>1. (((x % 4) * 16 + b \div 16) % 16) * 16 + ((b % 16) * 4 + y \div 64) \div 4 = b
      BY Quarters
    <2> QED
      BY ONLY <2>0, <2>1 DEF Rebuilt
  <1>3. CASE r = 2
    <2>0. /\ FourTo[r + 1] = 16 /\ FourTo[4 - r] = 4 /\ FourTo[r + 2] = 64
          /\ FourTo[3 - r] = 1 /\ FourTo[r + 3] = 256
      BY <1>3, Fours
    <2>1. (((x % 16) * 4 + b \div 64) % 4) * 64 + ((b % 64) * 1 + y \div 256) \div 1 = b
      BY Quarters
    <2> QED
      BY ONLY <2>0, <2>1 DEF Rebuilt
  <1> QED
    BY <1>1, <1>2, <1>3

LEMMA ByteRange ==
    ASSUME NEW r \in 0..2, NEW x \in 0..63, NEW y \in 0..63
    PROVE  (x % FourTo[4 - r]) * FourTo[r + 2] + y \div FourTo[3 - r] \in 0..255
  <1>1. CASE r = 0
    <2>0. FourTo[4 - r] = 64 /\ FourTo[r + 2] = 4 /\ FourTo[3 - r] = 16
      BY <1>1, Fours
    <2>1. (x % 64) * 4 + y \div 16 \in 0..255
      OBVIOUS
    <2> QED
      BY ONLY <2>0, <2>1
  <1>2. CASE r = 1
    <2>0. FourTo[4 - r] = 16 /\ FourTo[r + 2] = 16 /\ FourTo[3 - r] = 4
      BY <1>2, Fours
    <2>1. (x % 16) * 16 + y \div 4 \in 0..255
      OBVIOUS
    <2> QED
      BY ONLY <2>0, <2>1
  <1>3. CASE r = 2
    <2>0. FourTo[4 - r] = 4 /\ FourTo[r + 2] = 64 /\ FourTo[3 - r] = 1
      BY <1>3, Fours
    <2>1. (x % 4) * 64 + (y \div 1) \in 0..255
      OBVIOUS
    <2> QED
      BY ONLY <2>0, <2>1
  <1>4. r = 0 \/ r = 1 \/ r = 2
    OBVIOUS
  <1> QED
    BY ONLY <1>1, <1>2, <1>3, <1>4

LEMMA EncodedIs ==
    ASSUME NEW bytes \in Seq(0..255)
    PROVE  LET n == Len(bytes)
               m == (8 * n + 5) \div 6
               L == 4 * ((n + 2) \div 3)
               e == EncodeBase64(bytes)
           IN  /\ e \in Seq(isBase64Char) /\ Len(e) = L
               /\ \A j \in 1..m : /\ e[j] = Base64Alphabet[Sextet(bytes, j) + 1]
                                  /\ e[j] \in ToSet(Base64Alphabet) /\ Code[e[j]] = Sextet(bytes, j)
               /\ \A j \in (m + 1)..L : e[j] = "="
  <1> DEFINE n == Len(bytes)
             m == (8 * n + 5) \div 6
             L == 4 * ((n + 2) \div 3)
             e == EncodeBase64(bytes)
  <1>1. e = [j \in 1..L |-> IF j > m THEN "=" ELSE Base64Alphabet[Sextet(bytes, j) + 1]]
    BY DEF EncodeBase64, Sextet, Byte
  <1>2. m \in Nat /\ L \in Nat /\ m <= L
    BY Lengths
  <1> HIDE DEF n, m, L, e
  <1>3. ASSUME NEW j \in 1..m
        PROVE  /\ e[j] = Base64Alphabet[Sextet(bytes, j) + 1]
               /\ e[j] \in ToSet(Base64Alphabet) /\ Code[e[j]] = Sextet(bytes, j)
    <2>1. j \in 1..L /\ ~(j > m) /\ j \in Nat \ {0}
      BY <1>2
    <2>2. e[j] = Base64Alphabet[Sextet(bytes, j) + 1]
      BY <1>1, <2>1
    <2> QED
      BY <2>1, <2>2, SextetTyped, Codes
  <1>4. ASSUME NEW j \in (m + 1)..L PROVE e[j] = "="
    <2>1. j \in 1..L /\ j > m
      BY <1>2
    <2> QED
      BY <1>1, <2>1
  <1>5. e \in Seq(isBase64Char) /\ Len(e) = L
    <2>1. ASSUME NEW j \in 1..L PROVE e[j] \in isBase64Char
      <3>1. j \in 1..m \/ j \in (m + 1)..L
        BY <1>2
      <3> QED
        BY <1>3, <1>4, <3>1, Base64Classes
    <2>2. e \in [1..L -> isBase64Char]
      BY <1>1, <2>1
    <2> QED
      BY <1>2, <2>2
  <1> QED
    BY <1>3, <1>4, <1>5 DEF n, m, L, e

LEMMA DataOfEncoded ==
    ASSUME NEW bytes \in Seq(0..255)
    PROVE  LET m == (8 * Len(bytes) + 5) \div 6
               d == Base64Data(EncodeBase64(bytes))
           IN  /\ Len(d) = m
               /\ \A j \in 1..m : d[j] = EncodeBase64(bytes)[j]
               /\ ValidBase64(EncodeBase64(bytes))
  <1> DEFINE n == Len(bytes)
             m == (8 * n + 5) \div 6
             L == 4 * ((n + 2) \div 3)
             e == EncodeBase64(bytes)
             A == ToSet(Base64Alphabet)
  <1>1. /\ e \in Seq(isBase64Char) /\ Len(e) = L
        /\ \A j \in 1..m : e[j] \in A
        /\ \A j \in (m + 1)..L : e[j] = "="
    BY EncodedIs
  <1>2. /\ m \in Nat /\ L \in Nat /\ m <= L /\ m % 4 # 1 /\ L = 4 * ((m + 3) \div 4)
    BY Lengths
  <1>3. Base64Data(e) = SubSeq(e, 1, Span(e, 1, A) - 1)
    BY DEF Base64Data
  <1>4. "=" \notin A
    BY Base64Classes
  <1>5. ValidBase64(e) <=> /\ \A i \in (Len(Base64Data(e)) + 1)..Len(e) : e[i] = "="
                           /\ Len(Base64Data(e)) % 4 # 1
                           /\ Len(e) \in {Len(Base64Data(e)), 4 * ((Len(Base64Data(e)) + 3) \div 4)}
    BY DEF ValidBase64
  <1> HIDE DEF n, m, L, e, A
  <1>6. Span(e, 1, A) = m + 1
    <2>1. Len(e) \in Nat /\ 1 \in 1..(Len(e) + 1) /\ m + 1 \in 1..(Len(e) + 1)
      BY <1>1, <1>2
    <2>2. \A j \in 1..((m + 1) - 1) : e[j] \in A
      BY <1>1, <1>2
    <2>3. m + 1 <= Len(e) => e[m + 1] \notin A
      BY <1>1, <1>2, <1>4
    <2> QED
      BY <2>1, <2>2, <2>3, SpanEnds
  <1>7. Base64Data(e) = SubSeq(e, 1, m)
    BY <1>2, <1>3, <1>6
  <1>8. /\ Len(SubSeq(e, 1, m)) = m
        /\ \A j \in 1..m : SubSeq(e, 1, m)[j] = e[j]
    BY <1>1, <1>2
  <1>9. ValidBase64(e)
    BY <1>1, <1>2, <1>5, <1>7, <1>8
  <1> QED
    BY <1>7, <1>8, <1>9 DEF n, m, e

\* What is encoded is decoded again.
LEMMA DecodedIsEncoded ==
    ASSUME NEW bytes \in Seq(0..255)
    PROVE  DecodeBase64(EncodeBase64(bytes)) = bytes
  <1> DEFINE n == Len(bytes)
             m == (8 * n + 5) \div 6
             e == EncodeBase64(bytes)
             d == Base64Data(e)
             D(k) == (Code[d[4 * ((k - 1) \div 3) + ((k - 1) % 3) + 1]] % FourTo[4 - ((k - 1) % 3)])
                       * FourTo[((k - 1) % 3) + 2]
                     + Code[d[(4 * ((k - 1) \div 3) + ((k - 1) % 3) + 1) + 1]] \div FourTo[3 - ((k - 1) % 3)]
  <1>1. DecodeBase64(e) = [k \in 1..((Len(d) * 6) \div 8) |-> D(k)]
    BY DEF DecodeBase64
  <1>2. /\ Len(d) = m /\ \A j \in 1..m : d[j] = e[j]
        /\ \A j \in 1..m : Code[e[j]] = Sextet(bytes, j)
    BY EncodedIs, DataOfEncoded
  <1>3. (m * 6) \div 8 = n /\ n \in Nat
    BY Lengths
  <1>4. ASSUME NEW k \in 1..n PROVE D(k) = bytes[k]
    <2> DEFINE a == (k - 1) \div 3
               r == (k - 1) % 3
               i == 4 * a + r + 1
    <2>1. /\ a \in Nat /\ r \in 0..2 /\ k = 3 * a + r + 1
          /\ i \in 1..m /\ i + 1 \in 1..m
          /\ (i - 1) % 4 = r /\ (i - 1) \div 4 = a
          /\ i % 4 = r + 1 /\ i \div 4 = a
      BY <1>3, Positions
    <2>2. D(k) = (Code[d[i]] % FourTo[4 - r]) * FourTo[r + 2] + Code[d[i + 1]] \div FourTo[3 - r]
      OBVIOUS
    <2> HIDE DEF a, r, i, D, d, e, m
    <2>3. Code[d[i]] = Sextet(bytes, i) /\ Code[d[i + 1]] = Sextet(bytes, i + 1)
      BY <1>2, <2>1
    <2> DEFINE x == Byte(bytes, k - 1)
               b == Byte(bytes, k)
               y == Byte(bytes, k + 1)
    <2>4. x \in 0..255 /\ b \in 0..255 /\ y \in 0..255 /\ b = bytes[k]
      BY BytesTyped DEF Byte
    <2>5. Sextet(bytes, i) = (x % FourTo[r + 1]) * FourTo[4 - r] + b \div FourTo[r + 2]
      <3>1. 3 * a + r = k - 1 /\ (3 * a + r) + 1 = k
        BY <2>1
      <3>2. Sextet(bytes, i) = (Byte(bytes, 3 * a + r) % FourTo[r + 1]) * FourTo[4 - r]
                                 + Byte(bytes, (3 * a + r) + 1) \div FourTo[r + 2]
        BY <2>1 DEF Sextet
      <3> QED
        BY <3>1, <3>2
    <2>6. Sextet(bytes, i + 1) = (b % FourTo[r + 2]) * FourTo[3 - r] + y \div FourTo[r + 3]
      <3>1. 3 * a + (r + 1) = k /\ (3 * a + (r + 1)) + 1 = k + 1
        BY <2>1
      <3>2. (i + 1) - 1 = i /\ (r + 1) + 1 = r + 2 /\ 4 - (r + 1) = 3 - r /\ (r + 1) + 2 = r + 3
        BY <2>1
      <3>3. Sextet(bytes, i + 1) = (Byte(bytes, 3 * a + (r + 1)) % FourTo[(r + 1) + 1]) * FourTo[4 - (r + 1)]
                                 + Byte(bytes, (3 * a + (r + 1)) + 1) \div FourTo[(r + 1) + 2]
        BY <2>1, <3>2 DEF Sextet
      <3> QED
        BY <3>1, <3>2, <3>3
    <2> HIDE DEF x, b, y
    <2>7. Rebuilt(r, x, b, y)
      BY <2>1, <2>4, ByteRebuilt
    <2>8. D(k) = b
      BY <2>2, <2>3, <2>5, <2>6, <2>7 DEF Rebuilt
    <2> QED
      BY <2>4, <2>8
  <1> HIDE DEF D, d, e, m
  <1>5. DecodeBase64(e) = [k \in 1..n |-> bytes[k]]
    BY <1>1, <1>2, <1>3, <1>4
  <1> QED
    BY <1>5 DEF e

LEMMA DecodedTyped ==
    ASSUME NEW b \in Seq(isBase64Char)
    PROVE  DecodeBase64(b) \in Seq(0..255)
  <1> DEFINE A == ToSet(Base64Alphabet)
             d == Base64Data(b)
             N == Len(d)
             D(k) == (Code[d[4 * ((k - 1) \div 3) + ((k - 1) % 3) + 1]] % FourTo[4 - ((k - 1) % 3)])
                       * FourTo[((k - 1) % 3) + 2]
                     + Code[d[(4 * ((k - 1) \div 3) + ((k - 1) % 3) + 1) + 1]] \div FourTo[3 - ((k - 1) % 3)]
  <1>1. DecodeBase64(b) = [k \in 1..((N * 6) \div 8) |-> D(k)]
    BY DEF DecodeBase64
  <1>2. d = SubSeq(b, 1, Span(b, 1, A) - 1)
    BY DEF Base64Data
  <1>3. /\ Span(b, 1, A) \in 1..(Len(b) + 1)
        /\ \A m \in 1..(Span(b, 1, A) - 1) : b[m] \in A
    BY SpanIs
  <1> HIDE DEF d, A
  <1>4. N \in Nat /\ \A j \in 1..N : d[j] \in A
    <2> DEFINE w == Span(b, 1, A) - 1
    <2>1. w \in 0..Len(b) /\ d = SubSeq(b, 1, w) /\ \A m \in 1..w : b[m] \in A
      BY <1>2, <1>3
    <2> HIDE DEF w
    <2>2. Len(d) = w /\ \A j \in 1..w : d[j] = b[j]
      BY <2>1
    <2> QED
      BY <2>1, <2>2
  <1>5. ASSUME NEW k \in 1..((N * 6) \div 8) PROVE D(k) \in 0..255
    <2> DEFINE a == (k - 1) \div 3
               r == (k - 1) % 3
               i == 4 * a + r + 1
    <2>1. a \in Nat /\ r \in 0..2 /\ k = 3 * a + r + 1 /\ k <= (N * 6) \div 8
      BY <1>4
    <2>2. D(k) = (Code[d[i]] % FourTo[4 - r]) * FourTo[r + 2] + Code[d[i + 1]] \div FourTo[3 - r]
      OBVIOUS
    <2> HIDE DEF N, a, r, D
    <2>3. i \in 1..N /\ i + 1 \in 1..N
      BY <1>4, <2>1
    <2> HIDE DEF i
    <2>4. Code[d[i]] \in 0..63 /\ Code[d[i + 1]] \in 0..63
      BY <1>4, <2>3, Codes DEF A
    <2>5. (Code[d[i]] % FourTo[4 - r]) * FourTo[r + 2] + Code[d[i + 1]] \div FourTo[3 - r] \in 0..255
      BY ONLY <2>1, <2>4, ByteRange, Zenon
    <2> QED
      BY ONLY <2>2, <2>5
  <1> HIDE DEF D, N
  <1> DEFINE M == (N * 6) \div 8
  <1>6. M \in Nat
    BY <1>4
  <1>7. DecodeBase64(b) \in [1..M -> 0..255]
    BY <1>1, <1>5
  <1> HIDE DEF M
  <1>8. [1..M -> 0..255] \subseteq Seq(0..255)
    BY <1>6
  <1> QED
    BY <1>7, <1>8

-----------------------------------------------------------------------------
(* The serializer: what a value is written as lies where the text is.      *)

\* All characters of the grammar, and none that stands for the end.
Full(Ch) == Syntax \subseteq Ch /\ "EOF" \notin Ch

LEMMA FieldCharsFull == Full(FieldChars)
  BY NoEnd DEF Full, FieldChars

BareW(v, Ch) == \E w : Spelt(w, v, Ch)

LEMMA SyntaxHas ==
    /\ isTokenChar \subseteq Syntax /\ isBase64Char \subseteq Syntax /\ isDigit \subseteq Syntax
    /\ "?" \in Syntax /\ "0" \in Syntax /\ "1" \in Syntax /\ "-" \in Syntax /\ ":" \in Syntax
    /\ Quote \in Syntax /\ Escape \in Syntax /\ Comma \in Syntax /\ Semicolon \in Syntax
    /\ SP \in Syntax /\ "(" \in Syntax /\ ")" \in Syntax /\ "=" \in Syntax
  <1>1. Base64Alphabet[53] = "0" /\ Base64Alphabet[54] = "1"
    BY DEF Base64Alphabet
  <1>2. "0" \in isDigit /\ "1" \in isDigit
    <2>1. Base64Alphabet[52 + 1] \in isDigit /\ Base64Alphabet[52 + 2] \in isDigit
      BY Digits
    <2>2. 52 + 1 = 53 /\ 52 + 2 = 54
      OBVIOUS
    <2> QED
      BY <1>1, <2>1, <2>2
  <1>3. "-" \in isTokenChar /\ ":" \in isTokenChar
    BY DEF isTokenChar
  <1> QED
    BY <1>2, <1>3, TokenClasses, Base64Classes DEF Syntax

LEMMA SpeltTyped ==
    ASSUME NEW Ch, Full(Ch), NEW w, NEW v, Spelt(w, v, Ch)
    PROVE  w \in Seq(Ch) /\ w # <<>>
  <1>1. Syntax \subseteq Ch
    BY DEF Full
  <1>2. CASE BoolSpelt(w, v)
    <2>1. w = <<"?", "1">> \/ w = <<"?", "0">>
      BY <1>2 DEF BoolSpelt
    <2>2. "?" \in Ch /\ "0" \in Ch /\ "1" \in Ch
      BY <1>1, SyntaxHas
    <2>3. <<"?", "1">> \in Seq(Ch) /\ <<"?", "0">> \in Seq(Ch)
      BY ONLY <2>2
    <2>4. Len(<<"?", "1">>) = 2 /\ Len(<<"?", "0">>) = 2 /\ Len(<<>>) = 0
      OBVIOUS
    <2>5. CASE w = <<"?", "1">>
      BY <2>3, <2>4, <2>5
    <2>6. CASE w = <<"?", "0">>
      BY <2>3, <2>4, <2>6
    <2> QED
      BY ONLY <2>1, <2>5, <2>6
  <1>3. CASE IntSpelt(w, v)
    <2>1. PICK d \in Numerals : w = d \/ w = <<"-">> \o d
      BY <1>3 DEF IntSpelt
    <2>2. d \in Seq(isDigit) /\ Len(d) \in 1..MaxDigits
      BY NumeralsAreDigits
    <2>3. isDigit \subseteq Ch /\ "-" \in Ch
      BY <1>1, SyntaxHas
    <2>4. d \in Seq(Ch) /\ d # <<>>
      BY <2>2, <2>3, FieldsAssumption
    <2>5. <<"-">> \o d \in Seq(Ch) /\ Len(<<"-">> \o d) = Len(d) + 1
      BY <2>3, <2>4, Prefixed
    <2> QED
      BY <2>1, <2>4, <2>5
  <1>4. CASE StrSpelt(w, v, Ch)
    <2>1. PICK x \in Seq(Ch \ Unprintables) : w = writeString(x)
      BY <1>4 DEF StrSpelt
    <2>2. w = <<Quote>> \o FlattenSeq(Escapes(x)) \o <<Quote>>
      BY <2>1, WriteStringIs
    <2>3. FlattenSeq(Escapes(x)) \in Seq(Ch \cup {Quote, Escape})
      <3>1. x \in Seq(Ch)
        OBVIOUS
      <3>2. Escapes(x) \in Seq(Seq(Ch \cup {Quote, Escape}))
        BY <3>1, EscapesTyped
      <3>3. PICK h : /\ FlattenSeq(Escapes(x)) = h[Len(Escapes(x))]
                     /\ \A n \in 0..Len(Escapes(x)) : h[n] \in Seq(Ch \cup {Quote, Escape})
        BY <3>2, FlatSteps
      <3>4. Len(Escapes(x)) \in 0..Len(Escapes(x))
        BY <3>2
      <3> QED
        BY <3>3, <3>4
    <2>4. Ch \cup {Quote, Escape} = Ch /\ Quote \in Ch
      BY <1>1, SyntaxHas
    <2> DEFINE f == FlattenSeq(Escapes(x))
    <2>5. f \in Seq(Ch)
      BY <2>3, <2>4
    <2> HIDE DEF f
    <2>6. <<Quote>> \o f \in Seq(Ch) /\ Len(<<Quote>> \o f) = Len(f) + 1
      BY <2>4, <2>5, Prefixed
    <2>7. <<Quote>> \in Seq(Ch) /\ Len(<<Quote>>) = 1
      BY <2>4
    <2> DEFINE g == <<Quote>> \o f
    <2>8. g \in Seq(Ch) /\ Len(g) = Len(f) + 1 /\ w = g \o <<Quote>>
      BY <2>2, <2>6 DEF f
    <2> HIDE DEF g
    <2>9. g \o <<Quote>> \in Seq(Ch) /\ Len(g \o <<Quote>>) = Len(g) + 1
      BY <2>7, <2>8, ConcatProperties
    <2> QED
      BY <2>5, <2>8, <2>9
  <1>5. CASE TokSpelt(w, v)
    <2>1. w \in Seq(isTokenChar) /\ w # <<>>
      BY <1>5 DEF TokSpelt, IsToken
    <2> QED
      BY <1>1, <2>1, SyntaxHas
  <1>6. CASE BinSpelt(w, v)
    <2>1. PICK b \in Seq(isBase64Char) : w = <<":">> \o b \o <<":">>
      BY <1>6 DEF BinSpelt
    <2>2. b \in Seq(Ch) /\ ":" \in Ch
      BY <1>1, SyntaxHas
    <2> DEFINE g == <<":">> \o b
    <2>3. g \in Seq(Ch) /\ Len(g) = Len(b) + 1 /\ w = g \o <<":">>
      BY <2>1, <2>2, Prefixed
    <2> HIDE DEF g
    <2>4. <<":">> \in Seq(Ch) /\ Len(<<":">>) = 1
      BY <2>2
    <2>5. g \o <<":">> \in Seq(Ch) /\ Len(g \o <<":">>) = Len(g) + 1
      BY <2>3, <2>4, ConcatProperties
    <2> QED
      BY <2>2, <2>3, <2>5
  <1> QED
    BY <1>2, <1>3, <1>4, <1>5, <1>6 DEF Spelt

\* The canonical spelling of an integer.
LEMMA IntWritten ==
    ASSUME NEW w, NEW v, IntSpelt(w, v)
    PROVE  IntSpelt(writeBareItem(v), v)
  <1>1. PICK d \in Numerals : v = [int |-> ParseInt(d)] \/ v = [int |-> -ParseInt(d)]
    BY DEF IntSpelt
  <1> DEFINE n == ParseInt(d)
             e == FormatNat(n)
  <1>2. n \in Nat
    BY NumeralsAreDigits, ParseIntNat
  <1>3. e \in Numerals /\ ParseInt(e) = n
    BY FormatNatIs
  <1> HIDE DEF n, e
  <1>4. writeBareItem(v) = FormatInt(v.int)
    BY <1>1, Kinds DEF writeBareItem
  <1>5. CASE v = [int |-> n]
    <2>1. writeBareItem(v) = e
      <3>1. v.int = n /\ ~(n < 0)
        BY <1>2, <1>5
      <3> QED
        BY <1>4, <3>1 DEF FormatInt, e
    <2> QED
      BY <1>3, <1>5, <2>1 DEF IntSpelt
  <1>6. CASE v = [int |-> -n] /\ n = 0
    <2>1. writeBareItem(v) = e
      <3>1. v.int = n /\ ~(n < 0)
        <4>1. v.int = -n
          BY <1>6
        <4>2. -n = n /\ ~(n < 0)
          <5>1. n = 0
            BY <1>6
          <5>2. -n = 0 - n
            BY <1>2
          <5>3. 0 - n = n /\ ~(n < 0)
            BY <1>2, <5>1
          <5> QED
            BY ONLY <5>2, <5>3
        <4> QED
          BY ONLY <4>1, <4>2
      <3> QED
        BY <1>4, <3>1 DEF FormatInt, e
    <2>2. v = [int |-> n]
      BY <1>6
    <2> QED
      BY <1>3, <2>2, <2>1 DEF IntSpelt
  <1>7. CASE v = [int |-> -n] /\ n # 0
    <2>1. writeBareItem(v) = <<"-">> \o e
      <3>1. v.int < 0 /\ -(v.int) = n
        BY <1>2, <1>7
      <3> QED
        BY <1>4, <3>1 DEF FormatInt, e
    <2> QED
      BY <1>3, <1>7, <2>1 DEF IntSpelt
  <1> QED
    BY <1>1, <1>5, <1>6, <1>7 DEF n

\* What is written for a bare item is a spelling of it.
LEMMA BareSpelt ==
    ASSUME NEW Ch, NEW v, BareW(v, Ch)
    PROVE  Spelt(writeBareItem(v), v, Ch)
  <1>1. PICK w : Spelt(w, v, Ch)
    BY DEF BareW
  <1>2. CASE BoolSpelt(w, v)
    <2>1. PICK b \in BOOLEAN : v = [bool |-> b]
      BY <1>2 DEF BoolSpelt
    <2>2. writeBareItem(v) = IF v.bool THEN <<"?", "1">> ELSE <<"?", "0">>
      BY <2>1, Kinds DEF writeBareItem
    <2>3. v.bool = b
      BY <2>1
    <2>4. writeBareItem(v) = <<"?", IF b THEN "1" ELSE "0">>
      BY <2>2, <2>3
    <2> QED
      BY <2>1, <2>4 DEF Spelt, BoolSpelt
  <1>3. CASE IntSpelt(w, v)
    BY <1>3, IntWritten DEF Spelt
  <1>4. CASE StrSpelt(w, v, Ch)
    <2>1. PICK x \in Seq(Ch \ Unprintables) : v = [str |-> x]
      BY <1>4 DEF StrSpelt
    <2>2. writeBareItem(v) = writeString(v.str)
      BY <2>1, Kinds DEF writeBareItem
    <2>3. writeBareItem(v) = writeString(x)
      BY <2>1, <2>2
    <2> QED
      BY <2>1, <2>3 DEF Spelt, StrSpelt
  <1>5. CASE TokSpelt(w, v)
    <2>1. writeBareItem(v) = v.tok
      BY <1>5, Kinds DEF writeBareItem, TokSpelt
    <2>2. writeBareItem(v) = w
      BY <1>5, <2>1 DEF TokSpelt
    <2> QED
      BY <1>5, <2>2 DEF Spelt
  <1>6. CASE BinSpelt(w, v)
    <2>1. PICK b \in Seq(isBase64Char) : v = [bin |-> DecodeBase64(b)]
      BY <1>6 DEF BinSpelt
    <2> DEFINE y == DecodeBase64(b)
               e == EncodeBase64(y)
    <2>2. y \in Seq(0..255)
      BY DecodedTyped
    <2>3. v = [bin |-> y] /\ v.bin = y
      BY <2>1
    <2> HIDE DEF y
    <2>4. e \in Seq(isBase64Char) /\ ValidBase64(e) /\ DecodeBase64(e) = y
      BY <2>2, EncodedIs, DataOfEncoded, DecodedIsEncoded
    <2>5. writeBareItem(v) = <<":">> \o EncodeBase64(v.bin) \o <<":">>
      BY <2>3, Kinds DEF writeBareItem
    <2>6. writeBareItem(v) = <<":">> \o e \o <<":">>
      BY <2>3, <2>5
    <2> HIDE DEF e
    <2> QED
      BY <2>3, <2>4, <2>6 DEF Spelt, BinSpelt
  <1> QED
    BY <1>1, <1>2, <1>3, <1>4, <1>5, <1>6 DEF Spelt

LEMMA BareWritten ==
    ASSUME NEW Ch, Full(Ch), NEW t, Text(t, Ch), NEW p, NEW v, BareW(v, Ch),
           Holds(t, p, writeBareItem(v)), MayFollow(v, peek(t, p + Len(writeBareItem(v))))
    PROVE  BareAt(t, p, v, p + Len(writeBareItem(v)), Ch)
  <1> DEFINE w == writeBareItem(v)
  <1>1. Spelt(w, v, Ch) /\ w \in Seq(Ch) /\ w # <<>>
    BY BareSpelt, SpeltTyped
  <1>2. Holds(t, p, w) /\ MayFollow(v, peek(t, p + Len(w)))
    OBVIOUS
  <1> HIDE DEF w
  <1>3. Len(w) \in Nat \ {0} /\ Len(t) \in Nat
    BY <1>1 DEF Text
  <1>4. p \in Offsets(t) /\ p + Len(w) \in (p + 1)..(Len(t) + 1)
    BY <1>2, <1>3 DEF Holds, Offsets
  <1>5. SubSeq(t, p, (p + Len(w)) - 1) = w
    BY <1>1, <1>2, <1>4, HeldText
  <1>6. BareAt(t, p, v, p + Len(w), Ch)
    BY <1>1, <1>2, <1>4, <1>5 DEF BareAt
  <1> QED
    BY <1>6 DEF w

LEMMA FlatTyped ==
    ASSUME NEW T, NEW v \in Seq(Seq(T))
    PROVE  FlattenSeq(v) \in Seq(T) /\ (Len(v) = 0 => FlattenSeq(v) = <<>>)
  <1>1. PICK h : /\ h[0] = <<>> /\ FlattenSeq(v) = h[Len(v)]
                 /\ \A n \in 0..Len(v) : h[n] \in Seq(T)
    BY FlatSteps DEF Flattens
  <1>2. Len(v) \in 0..Len(v)
    OBVIOUS
  <1> QED
    BY <1>1, <1>2

\* Texts of n values.
LEMMA TextsTyped ==
    ASSUME NEW T, NEW n \in Nat, NEW v, v = [k \in 1..n |-> v[k]], \A k \in 1..n : v[k] \in Seq(T)
    PROVE  v \in Seq(Seq(T)) /\ Len(v) = n
  OBVIOUS

-----------------------------------------------------------------------------
(* Parameters.                                                             *)

writeParam(x) ==
    <<Semicolon>> \o x.key \o (IF x.val = BareTrue THEN <<>> ELSE <<"=">> \o writeBareItem(x.val))

ParamTexts(ps) == [k \in 1..Len(ps) |-> writeParam(ps[k])]

LEMMA WriteParametersIs == \A ps : writeParameters(ps) = FlattenSeq(ParamTexts(ps))
  BY DEF writeParameters, ParamTexts, writeParam

ParamW(x, Ch)   == x = [key |-> x.key, val |-> x.val] /\ IsToken(x.key) /\ BareW(x.val, Ch)
ParamsW(ps, Ch) == Tuple(ps) /\ \A k \in 1..Len(ps) : ParamW(ps[k], Ch)

LEMMA TrueIsBare == \A Ch : BareW(BareTrue, Ch)
  <1> TAKE Ch
  <1>1. BoolSpelt(<<"?", "1">>, BareTrue)
    BY DEF BoolSpelt, BareTrue
  <1> QED
    BY <1>1 DEF BareW, Spelt

LEMMA TokenTyped ==
    ASSUME NEW Ch, Full(Ch), NEW w, IsToken(w)
    PROVE  w \in Seq(Ch) /\ Len(w) \in Nat \ {0}
  <1>1. isTokenChar \subseteq Ch
    BY SyntaxHas DEF Full
  <1> QED
    BY <1>1 DEF IsToken

LEMMA OneTyped ==
    ASSUME NEW Ch, NEW c \in Ch
    PROVE  <<c>> \in Seq(Ch) /\ Len(<<c>>) = 1
  OBVIOUS

LEMMA Concats ==
    ASSUME NEW Ch, NEW a \in Seq(Ch), NEW b \in Seq(Ch)
    PROVE  a \o b \in Seq(Ch) /\ Len(a \o b) = Len(a) + Len(b) /\ Len(a) \in Nat /\ Len(b) \in Nat
  BY ConcatProperties

\* The value after an equals sign, or nothing.
Valued(val) == IF val = BareTrue THEN <<>> ELSE <<"=">> \o writeBareItem(val)

LEMMA ValuedTyped ==
    ASSUME NEW Ch, Full(Ch), NEW v, BareW(v, Ch)
    PROVE  /\ Valued(v) \in Seq(Ch) /\ <<"=">> \in Seq(Ch) /\ writeBareItem(v) \in Seq(Ch)
           /\ Len(writeBareItem(v)) \in Nat \ {0}
  <1>1. "=" \in Ch
    BY SyntaxHas DEF Full
  <1>2. writeBareItem(v) \in Seq(Ch) /\ writeBareItem(v) # <<>>
    BY BareSpelt, SpeltTyped
  <1>3. <<"=">> \in Seq(Ch) /\ <<"=">> \o writeBareItem(v) \in Seq(Ch)
    BY <1>1, <1>2, OneTyped, Concats
  <1>4. <<>> \in Seq(Ch)
    OBVIOUS
  <1> QED
    BY <1>2, <1>3, <1>4 DEF Valued

LEMMA ParamTyped ==
    ASSUME NEW Ch, Full(Ch), NEW x, ParamW(x, Ch)
    PROVE  /\ writeParam(x) = (<<Semicolon>> \o x.key) \o Valued(x.val)
           /\ <<Semicolon>> \in Seq(Ch) /\ x.key \in Seq(Ch) /\ Valued(x.val) \in Seq(Ch)
           /\ <<Semicolon>> \o x.key \in Seq(Ch) /\ Len(<<Semicolon>> \o x.key) = Len(x.key) + 1
           /\ writeParam(x) \in Seq(Ch) /\ Len(writeParam(x)) = Len(x.key) + 1 + Len(Valued(x.val))
           /\ Len(x.key) \in Nat \ {0} /\ Len(Valued(x.val)) \in Nat
           /\ Len(writeParam(x)) \in Nat \ {0}
  <1>1. writeParam(x) = (<<Semicolon>> \o x.key) \o Valued(x.val)
    BY DEF writeParam, Valued
  <1> DEFINE k == x.key
             v == Valued(x.val)
  <1>2. k \in Seq(Ch) /\ Len(k) \in Nat \ {0} /\ v \in Seq(Ch)
    BY TokenTyped, ValuedTyped DEF ParamW
  <1> HIDE DEF k, v
  <1>3. Semicolon \in Ch
    BY SyntaxHas DEF Full
  <1>4. <<Semicolon>> \in Seq(Ch) /\ <<Semicolon>> \o k \in Seq(Ch) /\ Len(<<Semicolon>> \o k) = Len(k) + 1
    BY <1>2, <1>3, OneTyped, Prefixed
  <1> DEFINE u == <<Semicolon>> \o k
  <1>5. u \in Seq(Ch) /\ Len(u) = Len(k) + 1
    BY <1>4
  <1> HIDE DEF u
  <1>6. u \o v \in Seq(Ch) /\ Len(u \o v) = Len(k) + 1 + Len(v) /\ Len(v) \in Nat
    BY <1>2, <1>5, Concats
  <1>7. Len(u \o v) \in Nat \ {0}
    BY <1>2, <1>6
  <1> QED
    BY <1>1, <1>2, <1>4, <1>6, <1>7 DEF u, k, v

LEMMA ParamWritten ==
    ASSUME NEW Ch, Full(Ch), NEW t, Text(t, Ch), NEW p, NEW x, ParamW(x, Ch),
           Holds(t, p, writeParam(x)), peek(t, p + Len(writeParam(x))) \notin isTokenChar \cup {"="}
    PROVE  ParamAt(t, p, x, p + Len(writeParam(x)), Ch) /\ peek(t, p) = Semicolon
  <1> DEFINE k == x.key
             v == Valued(x.val)
             u == <<Semicolon>> \o k
             m == (p + 1) + Len(k)
             q == p + Len(writeParam(x))
  <1>1. /\ writeParam(x) = u \o v
        /\ <<Semicolon>> \in Seq(Ch) /\ k \in Seq(Ch) /\ v \in Seq(Ch)
        /\ u \in Seq(Ch) /\ Len(u) = Len(k) + 1
        /\ Len(writeParam(x)) = Len(k) + 1 + Len(v)
        /\ Len(k) \in Nat \ {0} /\ Len(v) \in Nat
    BY ParamTyped
  <1>2. Holds(t, p, u) /\ Holds(t, p + Len(u), v)
    <2> HIDE DEF u, v
    <2>1. Holds(t, p, u \o v)
      BY <1>1
    <2> QED
      BY <1>1, <2>1, HoldsParts
  <1>3. Holds(t, p, <<Semicolon>>) /\ Holds(t, p + 1, k)
    <2> HIDE DEF k
    <2>1. Holds(t, p, <<Semicolon>> \o k) /\ Len(<<Semicolon>>) = 1
      BY <1>2
    <2> QED
      BY <1>1, <2>1, HoldsParts
  <1>4. p \in Nat \ {0} /\ p <= Len(t) /\ t[p] = Semicolon
    BY <1>3, HoldsOne
  <1>5. p \in Offsets(t) /\ peek(t, p) = Semicolon /\ Len(t) \in Nat
    BY <1>4 DEF Offsets, peek, Text
  <1>6. m = p + Len(u) /\ q = m + Len(v) /\ m \in Nat
    <2> DEFINE l == Len(k)
               j == Len(v)
               e == Len(u)
               w == Len(writeParam(x))
    <2>1. l \in Nat /\ j \in Nat /\ e = l + 1 /\ w = l + 1 + j /\ p \in Nat
      BY <1>1, <1>4
    <2>2. m = (p + 1) + l /\ q = p + w
      OBVIOUS
    <2> HIDE DEF l, j, e, w, m, q
    <2>3. m = p + e /\ q = m + j /\ m \in Nat
      BY <2>1, <2>2
    <2> QED
      BY <2>3 DEF e, j
  <1>7. IsToken(k) /\ BareW(x.val, Ch) /\ x = [key |-> k, val |-> x.val]
    BY DEF ParamW
  <1>8. peek(t, q) \notin isTokenChar /\ peek(t, q) # "="
    OBVIOUS
  <1>9. Holds(t, m, v) /\ (x.val = BareTrue => v = <<>>) /\ (x.val # BareTrue => v = <<"=">> \o writeBareItem(x.val))
    BY <1>2, <1>6 DEF Valued
  <1> HIDE DEF u, v, m, q
  <1>10. ASSUME peek(t, m) \notin isTokenChar PROVE KeyAt(t, p + 1, k, m)
    <2> HIDE DEF k
    <2>1. p + 1 \in Offsets(t) /\ m \in ((p + 1) + 1)..(Len(t) + 1)
      BY <1>1, <1>3, <1>4, <1>5 DEF Holds, Offsets, m
    <2>2. SubSeq(t, p + 1, m - 1) = k
      BY <1>1, <1>3, <2>1, HeldText DEF m
    <2> QED
      BY <1>7, <1>10, <2>1, <2>2 DEF KeyAt
  <1>11. CASE x.val = BareTrue
    <2>1. q = m
      BY <1>6, <1>9, <1>11
    <2>2. KeyAt(t, p + 1, k, m)
      BY <1>8, <1>10, <2>1
    <2>3. ParamAt(t, p, x, q, Ch)
      BY <1>5, <1>7, <1>8, <1>11, <2>1, <2>2 DEF ParamAt
    <2> QED
      BY <1>5, <2>3 DEF q
  <1>12. CASE x.val # BareTrue
    <2> DEFINE b == writeBareItem(x.val)
    <2>1. <<"=">> \in Seq(Ch) /\ b \in Seq(Ch) /\ Len(b) \in Nat \ {0} /\ v = <<"=">> \o b /\ Len(<<"=">>) = 1
      BY <1>7, <1>9, <1>12, ValuedTyped
    <2> HIDE DEF b
    <2>2. Holds(t, m, <<"=">>) /\ Holds(t, m + 1, b) /\ Len(v) = Len(b) + 1
      <3>1. Holds(t, m, <<"=">> \o b)
        BY <1>9, <2>1
      <3>2. Holds(t, m, <<"=">>) /\ Holds(t, m + Len(<<"=">>), b)
        BY <2>1, <3>1, HoldsParts
      <3> QED
        BY <2>1, <3>2, Prefixed, OneTyped
    <2>3. t[m] = "=" /\ m <= Len(t)
      BY <2>2, HoldsOne
    <2>4. peek(t, m) = "="
      BY <2>3 DEF peek
    <2>5. KeyAt(t, p + 1, k, m)
      BY <1>10, <2>4, TokenClasses DEF Ends
    <2>6. q = (m + 1) + Len(b)
      BY <1>6, <2>1, <2>2
    <2>7. MayFollow(x.val, peek(t, q))
      BY <1>8, TokenClasses DEF MayFollow
    <2>8. BareAt(t, m + 1, x.val, q, Ch)
      BY <1>7, <2>2, <2>6, <2>7, BareWritten DEF b
    <2>9. ParamAt(t, p, x, q, Ch)
      BY <1>5, <1>7, <2>4, <2>5, <2>8 DEF ParamAt
    <2> QED
      BY <1>5, <2>9 DEF q
  <1> QED
    BY <1>11, <1>12

LEMMA ParamTextsTyped ==
    ASSUME NEW Ch, Full(Ch), NEW ps, ParamsW(ps, Ch)
    PROVE  /\ ParamTexts(ps) \in Seq(Seq(Ch)) /\ Len(ParamTexts(ps)) = Len(ps) /\ Len(ps) \in Nat
           /\ \A k \in 1..Len(ps) : ParamTexts(ps)[k] = writeParam(ps[k])
           /\ writeParameters(ps) \in Seq(Ch)
           /\ Len(ps) = 0 => Len(writeParameters(ps)) = 0
  <1> DEFINE v == ParamTexts(ps)
             n == Len(ps)
  <1>1. n \in Nat /\ v = [k \in 1..n |-> writeParam(ps[k])]
    BY DEF ParamTexts, ParamsW, Tuple
  <1>2. \A k \in 1..n : ParamW(ps[k], Ch)
    BY DEF ParamsW
  <1>3. writeParameters(ps) = FlattenSeq(v)
    BY WriteParametersIs
  <1> HIDE DEF v, n
  <1>4. \A k \in 1..n : v[k] = writeParam(ps[k]) /\ v[k] \in Seq(Ch)
    BY <1>1, <1>2, ParamTyped
  <1>5. v = [k \in 1..n |-> v[k]]
    BY <1>1
  <1>6. v \in Seq(Seq(Ch)) /\ Len(v) = n
    BY <1>1, <1>4, <1>5, TextsTyped
  <1>7. FlattenSeq(v) \in Seq(Ch) /\ (Len(v) = 0 => FlattenSeq(v) = <<>>)
    BY <1>6, FlatTyped
  <1> QED
    BY <1>1, <1>3, <1>4, <1>6, <1>7 DEF v, n

LEMMA ParamsWritten ==
    ASSUME NEW Ch, Full(Ch), NEW t, Text(t, Ch), NEW p, NEW ps, ParamsW(ps, Ch),
           Holds(t, p, writeParameters(ps)), Stop(peek(t, p + Len(writeParameters(ps))))
    PROVE  ParamsAt(t, p, ps, p + Len(writeParameters(ps)), Ch)
  <1> DEFINE v == ParamTexts(ps)
             n == Len(ps)
             q == p + Len(writeParameters(ps))
  <1>1. /\ v \in Seq(Seq(Ch)) /\ Len(v) = n /\ n \in Nat
        /\ \A k \in 1..n : v[k] = writeParam(ps[k]) /\ ParamW(ps[k], Ch)
        /\ writeParameters(ps) = FlattenSeq(v) /\ Tuple(ps)
        /\ writeParameters(ps) \in Seq(Ch)
    BY ParamTextsTyped, WriteParametersIs DEF ParamsW
  <1> HIDE DEF v, n
  <1>2. PICK at : Places(at, t, v) /\ at[0] = p /\ at[n] = q
    BY <1>1, FlatPlaces
  <1>3. /\ \A k \in 0..n : at[k] \in Offsets(t)
        /\ \A k \in 1..n : Holds(t, at[k - 1], v[k]) /\ at[k] = at[k - 1] + Len(v[k])
    BY <1>1, <1>2 DEF Places
  <1>4. Stop(peek(t, q))
    OBVIOUS
  <1> HIDE DEF q
  <1>5. ASSUME NEW k \in 1..n PROVE peek(t, at[k - 1]) = Semicolon
    <2> DEFINE e == at[k - 1]
               x == ps[k]
    <2>1. Holds(t, e, writeParam(x)) /\ ParamW(x, Ch)
      BY <1>1, <1>3
    <2> HIDE DEF e, x
    <2>2. writeParam(x) \in Seq(Ch) /\ Len(writeParam(x)) \in Nat \ {0} /\ writeParam(x)[1] = Semicolon
      <3>1. /\ writeParam(x) = (<<Semicolon>> \o x.key) \o Valued(x.val)
            /\ x.key \in Seq(Ch) /\ Valued(x.val) \in Seq(Ch)
            /\ <<Semicolon>> \o x.key \in Seq(Ch) /\ Len(<<Semicolon>> \o x.key) = Len(x.key) + 1
            /\ writeParam(x) \in Seq(Ch) /\ Len(writeParam(x)) = Len(x.key) + 1 + Len(Valued(x.val))
            /\ Len(x.key) \in Nat \ {0} /\ Len(Valued(x.val)) \in Nat
            /\ Len(writeParam(x)) \in Nat \ {0}
        BY <2>1, ParamTyped
      <3> DEFINE u == <<Semicolon>> \o x.key
                 w == Valued(x.val)
      <3>2. u[1] = Semicolon /\ Semicolon \in Ch
        BY <3>1, SyntaxHas, Prefixed DEF Full
      <3>3. u \in Seq(Ch) /\ Len(u) \in Nat \ {0} /\ w \in Seq(Ch) /\ writeParam(x) = u \o w
        BY <3>1
      <3>5. writeParam(x) \in Seq(Ch) /\ Len(writeParam(x)) \in Nat \ {0}
        BY <3>1
      <3> HIDE DEF u, w
      <3>4. (u \o w)[1] = u[1]
        BY <3>3
      <3>6. writeParam(x)[1] = Semicolon
        BY ONLY <3>2, <3>3, <3>4
      <3> QED
        BY ONLY <3>5, <3>6
    <2>3. peek(t, (e - 1) + 1) = Semicolon /\ e \in Nat
      <3> DEFINE w == writeParam(x)
      <3>1. 1 \in 1..Len(w) /\ Len(w) \in Nat /\ w[1] = Semicolon /\ Holds(t, e, w)
        BY <2>1, <2>2
      <3> HIDE DEF w
      <3>2. e \in Nat
        BY <3>1 DEF Holds
      <3> QED
        BY <3>1, <3>2, HeldAt
    <2>4. (e - 1) + 1 = e
      BY <2>3
    <2> QED
      BY <2>3, <2>4 DEF e
  <1>6. ASSUME NEW k \in 1..n PROVE ParamAt(t, at[k - 1], ps[k], at[k], Ch)
    <2> DEFINE e == at[k - 1]
               f == at[k]
               x == ps[k]
    <2>1. Holds(t, e, writeParam(x)) /\ ParamW(x, Ch) /\ f = e + Len(writeParam(x))
      BY <1>1, <1>3
    <2>2. peek(t, f) \notin isTokenChar \cup {"="}
      <3>1. CASE k = n
        BY <1>2, <1>4, <3>1 DEF Stop
      <3>2. CASE k # n
        <4>1. k + 1 \in 1..n /\ (k + 1) - 1 = k
          BY <1>1, <3>2
        <4>2. peek(t, f) = Semicolon
          BY <1>5, <4>1
        <4> QED
          BY <4>2, TokenClasses, DelimitersDiffer DEF Ends
      <3> QED
        BY <3>1, <3>2
    <2> HIDE DEF e, f, x
    <2>3. ParamAt(t, e, x, f, Ch)
      BY <2>1, <2>2, ParamWritten
    <2> QED
      BY <2>3 DEF e, f, x
  <1>7. p \in Offsets(t) /\ q \in p..(Len(t) + 1)
    <2>1. p \in Offsets(t) /\ q \in Offsets(t)
      <3>1. 0 \in 0..n /\ n \in 0..n
        BY <1>1
      <3> QED
        BY <1>2, <1>3, <3>1
    <2> DEFINE l == Len(writeParameters(ps))
    <2>2. l \in Nat /\ q = p + l /\ Len(t) \in Nat
      BY <1>1 DEF q, Text
    <2> HIDE DEF l
    <2> QED
      BY <2>1, <2>2 DEF Offsets
  <1>8. peek(t, q) # Semicolon
    BY <1>4 DEF Stop
  <1>9. ParamsAt(t, p, ps, q, Ch)
    <2>1. /\ at[0] = p /\ at[Len(ps)] = q
          /\ \A k \in 1..Len(ps) : ParamAt(t, at[k - 1], ps[k], at[k], Ch)
      BY <1>2, <1>6 DEF n
    <2> QED
      BY <1>1, <1>7, <1>8, <2>1 DEF ParamsAt
  <1> QED
    BY <1>9 DEF q

-----------------------------------------------------------------------------
(* Items.                                                                  *)

ItemW(x, Ch) == x = [val |-> x.val, params |-> x.params] /\ BareW(x.val, Ch) /\ ParamsW(x.params, Ch)

LEMMA ItemTyped ==
    ASSUME NEW Ch, Full(Ch), NEW x, ItemW(x, Ch)
    PROVE  /\ writeBareItem(x.val) \in Seq(Ch) /\ writeParameters(x.params) \in Seq(Ch)
           /\ writeItem(x) \in Seq(Ch) /\ Len(writeItem(x)) \in Nat \ {0}
           /\ Len(writeItem(x)) = Len(writeBareItem(x.val)) + Len(writeParameters(x.params))
           /\ Len(writeBareItem(x.val)) \in Nat \ {0} /\ Len(writeParameters(x.params)) \in Nat
  <1> DEFINE a == writeBareItem(x.val)
             b == writeParameters(x.params)
  <1>1. a \in Seq(Ch) /\ Len(a) \in Nat \ {0} /\ b \in Seq(Ch)
    BY ValuedTyped, ParamTextsTyped DEF ItemW
  <1>2. writeItem(x) = a \o b
    BY DEF writeItem
  <1> HIDE DEF a, b
  <1>3. a \o b \in Seq(Ch) /\ Len(a \o b) = Len(a) + Len(b) /\ Len(b) \in Nat
    BY <1>1, Concats
  <1>4. Len(writeItem(x)) \in Nat \ {0}
    BY <1>1, <1>2, <1>3
  <1> QED
    BY <1>1, <1>2, <1>3, <1>4 DEF a, b

\* What comes after a bare item that parameters follow.
LEMMA ParamsFollow ==
    ASSUME NEW Ch, NEW t, NEW p, NEW ps, NEW q, ParamsAt(t, p, ps, q, Ch)
    PROVE  peek(t, p) = Semicolon \/ p = q
  <1>1. PICK at : /\ at[0] = p /\ at[Len(ps)] = q
                  /\ \A k \in 1..Len(ps) : ParamAt(t, at[k - 1], ps[k], at[k], Ch)
    BY DEF ParamsAt
  <1>2. CASE Len(ps) = 0
    BY <1>1, <1>2
  <1>3. CASE Len(ps) # 0
    <2>1. 1 \in 1..Len(ps) /\ 1 - 1 = 0
      BY <1>3 DEF ParamsAt, Tuple
    <2>2. ParamAt(t, p, ps[1], at[1], Ch)
      BY <1>1, <2>1
    <2> QED
      BY <2>2 DEF ParamAt
  <1> QED
    BY <1>2, <1>3

LEMMA ItemWritten ==
    ASSUME NEW Ch, Full(Ch), NEW t, Text(t, Ch), NEW p, NEW x, ItemW(x, Ch),
           Holds(t, p, writeItem(x)), Stop(peek(t, p + Len(writeItem(x))))
    PROVE  ItemAt(t, p, x, p + Len(writeItem(x)), Ch)
  <1> DEFINE a == writeBareItem(x.val)
             b == writeParameters(x.params)
             m == p + Len(a)
             q == p + Len(writeItem(x))
  <1>1. /\ a \in Seq(Ch) /\ Len(a) \in Nat \ {0} /\ b \in Seq(Ch) /\ Len(b) \in Nat
        /\ Len(writeItem(x)) = Len(a) + Len(b)
    BY ItemTyped
  <1>2. Holds(t, p, a \o b) /\ p \in Nat \ {0} /\ Stop(peek(t, q))
    BY DEF writeItem, Holds
  <1>3. ItemW(x, Ch) /\ BareW(x.val, Ch) /\ ParamsW(x.params, Ch)
    BY DEF ItemW
  <1> HIDE DEF a, b
  <1>4. q = m + Len(b)
    BY <1>1, <1>2
  <1>5. Holds(t, p, a) /\ Holds(t, m, b)
    BY <1>1, <1>2, HoldsParts
  <1> HIDE DEF m, q
  <1>6. ParamsAt(t, m, x.params, q, Ch)
    BY <1>2, <1>3, <1>4, <1>5, ParamsWritten DEF b
  <1>7. peek(t, m) \notin isTokenChar
    BY <1>2, <1>6, ParamsFollow, TokenClasses DEF Stop, Ends
  <1>8. MayFollow(x.val, peek(t, m))
    BY <1>7, TokenClasses DEF MayFollow
  <1>9. BareAt(t, p, x.val, m, Ch)
    BY <1>3, <1>5, <1>8, BareWritten DEF a, m
  <1>10. ItemAt(t, p, x, q, Ch)
    BY <1>3, <1>6, <1>9 DEF ItemAt, ItemW
  <1> QED
    BY <1>10 DEF q

-----------------------------------------------------------------------------
(* Texts with a separator between them.                                    *)

Gap(sep, k) == IF k = 1 THEN <<>> ELSE sep
Gapped(texts, sep) == [k \in 1..Len(texts) |-> Gap(sep, k) \o texts[k]]

LEMMA Gaps ==
    ASSUME NEW Ch, NEW sep \in Seq(Ch)
    PROVE  /\ \A k : Gap(sep, k) \in Seq(Ch)
           /\ Len(Gap(sep, 1)) = 0
           /\ \A k : k # 1 => Gap(sep, k) = sep
  <1>1. <<>> \in Seq(Ch) /\ Len(<<>>) = 0
    OBVIOUS
  <1> QED
    BY <1>1 DEF Gap

LEMMA GappedTyped ==
    ASSUME NEW Ch, NEW texts \in Seq(Seq(Ch)), NEW sep \in Seq(Ch)
    PROVE  /\ Gapped(texts, sep) \in Seq(Seq(Ch)) /\ Len(Gapped(texts, sep)) = Len(texts)
           /\ \A k \in 1..Len(texts) : /\ texts[k] \in Seq(Ch)
                                       /\ Gapped(texts, sep)[k] = Gap(sep, k) \o texts[k]
                                       /\ Len(Gapped(texts, sep)[k]) = Len(Gap(sep, k)) + Len(texts[k])
           /\ Joined(texts, sep) = FlattenSeq(Gapped(texts, sep))
           /\ Joined(texts, sep) \in Seq(Ch)
           /\ Len(texts) = 0 => Joined(texts, sep) = <<>>
  <1> DEFINE n == Len(texts)
             v == Gapped(texts, sep)
  <1>1. n \in Nat /\ v = [k \in 1..n |-> Gap(sep, k) \o texts[k]]
    BY DEF Gapped
  <1>2. Joined(texts, sep) = FlattenSeq(v)
    BY DEF Joined, Gapped, Gap
  <1>3. \A k \in 1..n : texts[k] \in Seq(Ch)
    BY Element
  <1> HIDE DEF n, v
  <1>4. ASSUME NEW k \in 1..n
        PROVE  /\ v[k] = Gap(sep, k) \o texts[k] /\ v[k] \in Seq(Ch)
               /\ Len(v[k]) = Len(Gap(sep, k)) + Len(texts[k])
    <2> DEFINE a == Gap(sep, k)
               w == texts[k]
    <2>1. a \in Seq(Ch) /\ w \in Seq(Ch) /\ v[k] = a \o w
      BY <1>1, <1>3, Gaps
    <2> HIDE DEF a, w
    <2>2. a \o w \in Seq(Ch) /\ Len(a \o w) = Len(a) + Len(w)
      BY <2>1, Concats
    <2> QED
      BY <2>1, <2>2 DEF a, w
  <1>5. v = [k \in 1..n |-> v[k]]
    BY <1>1
  <1>6. \A k \in 1..n : v[k] \in Seq(Ch)
    BY <1>4
  <1>7. v \in Seq(Seq(Ch)) /\ Len(v) = n
    <2>1. n \in Nat
      BY <1>1
    <2> QED
      BY ONLY <1>5, <1>6, <2>1, TextsTyped
  <1>8. FlattenSeq(v) \in Seq(Ch) /\ (Len(v) = 0 => FlattenSeq(v) = <<>>)
    BY <1>7, FlatTyped
  <1> QED
    BY <1>2, <1>3, <1>4, <1>7, <1>8 DEF n, v

\* The texts begin at b[1], b[2], ... and end at e[1], e[2], ..., the separator
\* between them.
JoinedAt(t, p, texts, sep, b, e, q) ==
    /\ Len(texts) # 0 => b[1] = p /\ e[Len(texts)] = q
    /\ \A k \in 1..Len(texts) : Holds(t, b[k], texts[k]) /\ e[k] = b[k] + Len(texts[k])
    /\ \A k \in 2..Len(texts) : Holds(t, e[k - 1], sep) /\ b[k] = e[k - 1] + Len(sep)

LEMMA JoinedPlaces ==
    ASSUME NEW Ch, NEW t, Text(t, Ch), NEW texts \in Seq(Seq(Ch)), NEW sep \in Seq(Ch), NEW p,
           Holds(t, p, Joined(texts, sep))
    PROVE  \E b, e : JoinedAt(t, p, texts, sep, b, e, p + Len(Joined(texts, sep)))
  <1> DEFINE n == Len(texts)
             v == Gapped(texts, sep)
             end == p + Len(Joined(texts, sep))
  <1>1. /\ v \in Seq(Seq(Ch)) /\ Len(v) = n /\ n \in Nat
        /\ \A k \in 1..n : /\ texts[k] \in Seq(Ch) /\ v[k] = Gap(sep, k) \o texts[k]
                           /\ Len(v[k]) = Len(Gap(sep, k)) + Len(texts[k])
        /\ Joined(texts, sep) = FlattenSeq(v)
    BY GappedTyped
  <1> HIDE DEF v, n
  <1>2. Holds(t, p, FlattenSeq(v)) /\ end = p + Len(FlattenSeq(v))
    BY <1>1
  <1>3. PICK q : Places(q, t, v) /\ q[0] = p /\ q[Len(v)] = p + Len(FlattenSeq(v))
    BY <1>1, <1>2, FlatPlaces
  <1>4. /\ \A k \in 0..n : q[k] \in Offsets(t)
        /\ \A k \in 1..n : Holds(t, q[k - 1], v[k]) /\ q[k] = q[k - 1] + Len(v[k])
        /\ q[0] = p /\ q[n] = end
    BY <1>1, <1>2, <1>3 DEF Places
  <1> HIDE DEF end
  <1> DEFINE b == [k \in 1..n |-> q[k - 1] + Len(Gap(sep, k))]
  <1>5. ASSUME NEW k \in 1..n
        PROVE  /\ Holds(t, b[k], texts[k]) /\ q[k] = b[k] + Len(texts[k])
               /\ Holds(t, q[k - 1], Gap(sep, k)) /\ b[k] = q[k - 1] + Len(Gap(sep, k))
    <2> DEFINE a == Gap(sep, k)
               w == texts[k]
               i == q[k - 1]
               j == q[k]
    <2>1. /\ a \in Seq(Ch) /\ w \in Seq(Ch) /\ v[k] = a \o w
          /\ Len(v[k]) = Len(a) + Len(w)
      BY <1>1, Gaps
    <2>2. b[k] = i + Len(a)
      OBVIOUS
    <2>3. k - 1 \in 0..n
      BY <1>1
    <2>4. i \in Nat /\ Holds(t, i, v[k]) /\ j = i + Len(v[k])
      BY <1>4, <2>3 DEF Offsets
    <2> HIDE DEF a, w, i, j, b
    <2>6. Len(a) \in Nat /\ Len(w) \in Nat
      BY <2>1
    <2>7. Holds(t, i, a) /\ Holds(t, i + Len(a), w)
      BY <2>1, <2>4, HoldsParts
    <2>8. j = (i + Len(a)) + Len(w)
      BY <2>1, <2>4, <2>6
    <2> QED
      BY <2>2, <2>7, <2>8 DEF a, w, i, j
  <1> HIDE DEF b
  <1>6. n # 0 => b[1] = p /\ q[n] = end
    <2> SUFFICES ASSUME n # 0 PROVE b[1] = p
      BY <1>4
    <2>1. 1 \in 1..n /\ 1 - 1 = 0 /\ 0 \in 0..n
      BY <1>1
    <2>2. b[1] = q[1 - 1] + Len(Gap(sep, 1))
      BY <1>5, <2>1
    <2>3. p \in Nat
      BY <1>4, <2>1 DEF Offsets
    <2> QED
      BY <1>4, <2>1, <2>2, <2>3, Gaps
  <1>7. ASSUME NEW k \in 2..n PROVE Holds(t, q[k - 1], sep) /\ b[k] = q[k - 1] + Len(sep)
    <2>1. k \in 1..n /\ Gap(sep, k) = sep
      BY <1>1, Gaps
    <2>2. Holds(t, q[k - 1], Gap(sep, k)) /\ b[k] = q[k - 1] + Len(Gap(sep, k))
      BY <1>5, <2>1
    <2> QED
      BY <2>1, <2>2
  <1>8. JoinedAt(t, p, texts, sep, b, q, end)
    BY <1>5, <1>6, <1>7 DEF JoinedAt, n
  <1> QED
    BY <1>8 DEF end

-----------------------------------------------------------------------------
(* Inner lists.                                                            *)

ItemTexts(xs)  == [k \in 1..Len(xs) |-> writeItem(xs[k])]
ItemsW(xs, Ch) == Tuple(xs) /\ \A k \in 1..Len(xs) : ItemW(xs[k], Ch)
ListW(x, Ch)   == /\ x = [items |-> x.items, params |-> x.params]
                  /\ ItemsW(x.items, Ch) /\ ParamsW(x.params, Ch)

writeItems(xs) == Joined(ItemTexts(xs), <<SP>>)

LEMMA WriteInnerListIs ==
    \A x : writeInnerList(x)
             = ((<<"(">> \o writeItems(x.items)) \o <<")">>) \o writeParameters(x.params)
  BY DEF writeInnerList, writeItems, ItemTexts

LEMMA ItemTextsTyped ==
    ASSUME NEW Ch, Full(Ch), NEW xs, ItemsW(xs, Ch)
    PROVE  /\ ItemTexts(xs) \in Seq(Seq(Ch)) /\ Len(ItemTexts(xs)) = Len(xs) /\ Len(xs) \in Nat
           /\ \A k \in 1..Len(xs) : ItemTexts(xs)[k] = writeItem(xs[k])
           /\ writeItems(xs) \in Seq(Ch) /\ <<SP>> \in Seq(Ch)
           /\ Len(xs) = 0 => writeItems(xs) = <<>>
  <1> DEFINE v == ItemTexts(xs)
             n == Len(xs)
  <1>1. n \in Nat /\ v = [k \in 1..n |-> writeItem(xs[k])]
    BY DEF ItemTexts, ItemsW, Tuple
  <1>2. \A k \in 1..n : ItemW(xs[k], Ch)
    BY DEF ItemsW
  <1> HIDE DEF v, n
  <1>3. \A k \in 1..n : v[k] = writeItem(xs[k])
    BY <1>1
  <1>4. \A k \in 1..n : v[k] \in Seq(Ch)
    BY <1>2, <1>3, ItemTyped
  <1>5. v = [k \in 1..n |-> v[k]]
    BY <1>1
  <1>6. v \in Seq(Seq(Ch)) /\ Len(v) = n
    BY ONLY <1>1, <1>4, <1>5, TextsTyped
  <1>7. <<SP>> \in Seq(Ch)
    BY SyntaxHas, OneTyped DEF Full
  <1>8. writeItems(xs) = Joined(v, <<SP>>)
    BY DEF writeItems, v
  <1>9. writeItems(xs) \in Seq(Ch) /\ (n = 0 => writeItems(xs) = <<>>)
    BY <1>6, <1>7, <1>8, GappedTyped
  <1> QED
    BY <1>1, <1>3, <1>6, <1>7, <1>9 DEF v, n

LEMMA SkipOneSpace ==
    ASSUME NEW Ch, NEW t, Text(t, Ch), NEW e, Holds(t, e, <<SP>>), peek(t, e + 1) # SP
    PROVE  skipSP(t, e) = e + 1
  <1>1. e \in Nat \ {0} /\ e <= Len(t) /\ t[e] = SP /\ Len(t) \in Nat
    BY HoldsOne DEF Text
  <1>2. e \in Offsets(t) /\ e + 1 \in e..(Len(t) + 1) /\ \A m \in e..((e + 1) - 1) : t[m] \in {SP}
    BY <1>1 DEF Offsets
  <1>3. "EOF" \notin {SP} /\ peek(t, e + 1) \notin {SP}
    BY DelimitersDiffer
  <1> QED
    BY <1>2, <1>3, SpanPeeks DEF skipSP

LEMMA HeldOne ==
    ASSUME NEW Ch, NEW t, Text(t, Ch), NEW e, NEW c, Holds(t, e, <<c>>)
    PROVE  peek(t, e) = c /\ e \in Offsets(t) /\ e + 1 \in Offsets(t) /\ e \in Nat \ {0}
  <1>1. e \in Nat \ {0} /\ e <= Len(t) /\ t[e] = c /\ Len(t) \in Nat
    BY HoldsOne DEF Text
  <1> QED
    BY <1>1 DEF peek, Offsets

\* Where a text that is not empty lies.
LEMMA HeldOffsets ==
    ASSUME NEW Ch, NEW t, Text(t, Ch), NEW S, NEW w \in Seq(S), NEW p, Holds(t, p, w)
    PROVE  /\ p \in Offsets(t) /\ p + Len(w) \in p..(Len(t) + 1) /\ p + Len(w) \in Offsets(t)
           /\ Len(w) # 0 => p + Len(w) \in (p + 1)..(Len(t) + 1)
  <1>1. Len(w) \in Nat /\ Len(t) \in Nat
    BY DEF Text
  <1> QED
    BY <1>1 DEF Holds, Offsets

LEMMA ItemsWritten ==
    ASSUME NEW Ch, Full(Ch), NEW t, Text(t, Ch), NEW p, NEW xs, ItemsW(xs, Ch),
           Holds(t, p, writeItems(xs)), peek(t, p + Len(writeItems(xs))) = ")"
    PROVE  ItemsAt(t, p, xs, p + Len(writeItems(xs)), Ch)
  <1> DEFINE n  == Len(xs)
             v  == ItemTexts(xs)
             q  == p + Len(writeItems(xs))
  <1>1. /\ v \in Seq(Seq(Ch)) /\ Len(v) = n /\ n \in Nat /\ <<SP>> \in Seq(Ch) /\ Len(<<SP>>) = 1
        /\ \A k \in 1..n : v[k] = writeItem(xs[k]) /\ ItemW(xs[k], Ch)
        /\ writeItems(xs) = Joined(v, <<SP>>) /\ writeItems(xs) \in Seq(Ch) /\ Tuple(xs)
        /\ n = 0 => writeItems(xs) = <<>>
    BY ItemTextsTyped DEF ItemsW, writeItems
  <1> HIDE DEF n, v
  <1>2. p \in Offsets(t) /\ q \in p..(Len(t) + 1) /\ q \in Offsets(t) /\ (n = 0 => q = p)
    <2>1. p \in Offsets(t) /\ q \in p..(Len(t) + 1) /\ q \in Offsets(t)
      BY <1>1, HeldOffsets
    <2>2. n = 0 => Len(writeItems(xs)) = 0
      BY <1>1
    <2>3. p \in Nat
      BY <2>1 DEF Offsets
    <2> QED
      BY <2>1, <2>2, <2>3
  <1>3. peek(t, q) = ")"
    OBVIOUS
  <1>4. PICK b, e : JoinedAt(t, p, v, <<SP>>, b, e, q)
    <2>1. Holds(t, p, Joined(v, <<SP>>)) /\ q = p + Len(Joined(v, <<SP>>))
      BY <1>1
    <2> HIDE DEF q
    <2>2. \E b, e : JoinedAt(t, p, v, <<SP>>, b, e, p + Len(Joined(v, <<SP>>)))
      BY <1>1, <2>1, JoinedPlaces
    <2> QED
      BY <2>1, <2>2
  <1> HIDE DEF q
  <1>5. /\ n # 0 => b[1] = p /\ e[n] = q
        /\ \A k \in 1..n : Holds(t, b[k], v[k]) /\ e[k] = b[k] + Len(v[k])
        /\ \A k \in 2..n : Holds(t, e[k - 1], <<SP>>) /\ b[k] = e[k - 1] + 1
    BY <1>1, <1>4 DEF JoinedAt
  <1>6. ASSUME NEW k \in 1..n PROVE ItemAt(t, b[k], xs[k], e[k], Ch) /\ peek(t, b[k]) # SP
    <2> DEFINE x == xs[k]
               i == b[k]
               j == e[k]
    <2>1. ItemW(x, Ch) /\ Holds(t, i, writeItem(x)) /\ j = i + Len(writeItem(x))
      BY <1>1, <1>5
    <2>2. Stop(peek(t, j))
      <3>1. CASE k = n
        BY <1>3, <1>5, <3>1, Stopping
      <3>2. CASE k # n
        <4>1. k + 1 \in 2..n /\ (k + 1) - 1 = k
          BY <1>1, <3>2
        <4>2. Holds(t, j, <<SP>>)
          BY <1>5, <4>1
        <4> QED
          BY <4>2, HeldOne, Stopping
      <3> QED
        BY <3>1, <3>2
    <2> HIDE DEF x, i, j
    <2>3. ItemAt(t, i, x, j, Ch)
      BY <2>1, <2>2, ItemWritten
    <2>4. PICK m : BareAt(t, i, x.val, m, Ch)
      BY <2>3 DEF ItemAt
    <2>5. peek(t, i) # SP
      BY <2>4, BareStarts, StarterClasses
    <2> QED
      BY <2>3, <2>5 DEF x, i, j
  <1> DEFINE at == [k \in 0..n |-> IF k = 0 THEN p ELSE e[k]]
  <1>7. at[0] = p /\ at[n] = q /\ \A k \in 1..n : at[k] = e[k]
    <2>1. n = 0 \/ n \in 1..n
      BY <1>1
    <2>2. 0 \in 0..n /\ n \in 0..n /\ \A k \in 1..n : k \in 0..n /\ k # 0
      BY <1>1
    <2> QED
      BY <1>2, <1>5, <2>1, <2>2
  <1> HIDE DEF at
  <1>8. ASSUME NEW k \in 1..n
        PROVE  at[k - 1] \in Offsets(t) /\ ItemAt(t, skipSP(t, at[k - 1]), xs[k], at[k], Ch)
    <2>1. CASE k = 1
      <3>1. at[k - 1] = p /\ b[k] = p
        BY <1>1, <1>5, <1>7, <2>1
      <3>2. skipSP(t, p) = p
        BY <1>2, <1>6, <3>1, SkipSpaces
      <3> QED
        BY <1>2, <1>6, <1>7, <3>1, <3>2
    <2>2. CASE k # 1
      <3>1. k \in 2..n /\ k - 1 \in 1..n
        BY <1>1, <2>2
      <3>2. at[k - 1] = e[k - 1] /\ Holds(t, e[k - 1], <<SP>>) /\ b[k] = e[k - 1] + 1
        BY <1>5, <1>7, <3>1
      <3>3. e[k - 1] \in Offsets(t)
        BY <3>2, HeldOne
      <3>4. skipSP(t, e[k - 1]) = b[k]
        BY <1>6, <3>2, SkipOneSpace
      <3> QED
        BY <1>6, <1>7, <3>2, <3>3, <3>4
    <2> QED
      BY <2>1, <2>2
  <1>9. peek(t, skipSP(t, q)) = ")"
    BY <1>2, <1>3, SkipSpaces, DelimitersDiffer
  <1>10. \A k \in 1..Len(xs) : at[k - 1] \in Offsets(t) /\ ItemAt(t, skipSP(t, at[k - 1]), xs[k], at[k], Ch)
    BY <1>8 DEF n
  <1>11. at[0] = p /\ at[Len(xs)] = q
    BY <1>7 DEF n
  <1>12. ItemsAt(t, p, xs, q, Ch)
    BY <1>1, <1>2, <1>9, <1>10, <1>11 DEF ItemsAt
  <1> QED
    BY <1>12 DEF q

LEMMA ListTyped ==
    ASSUME NEW Ch, Full(Ch), NEW x, ListW(x, Ch)
    PROVE  LET a == <<"(">> \o writeItems(x.items)
               b == a \o <<")">>
           IN  /\ writeInnerList(x) = b \o writeParameters(x.params)
               /\ <<"(">> \in Seq(Ch) /\ <<")">> \in Seq(Ch) /\ writeItems(x.items) \in Seq(Ch)
               /\ a \in Seq(Ch) /\ Len(a) = Len(writeItems(x.items)) + 1
               /\ b \in Seq(Ch) /\ Len(b) = Len(writeItems(x.items)) + 2
               /\ writeParameters(x.params) \in Seq(Ch) /\ writeInnerList(x) \in Seq(Ch)
               /\ Len(writeInnerList(x)) = Len(writeItems(x.items)) + 2 + Len(writeParameters(x.params))
               /\ Len(writeItems(x.items)) \in Nat /\ Len(writeParameters(x.params)) \in Nat
               /\ Len(writeInnerList(x)) \in Nat \ {0}
  <1> DEFINE i == writeItems(x.items)
             c == writeParameters(x.params)
             a == <<"(">> \o i
             b == a \o <<")">>
             l == writeInnerList(x)
  <1>1. l = b \o c
    BY WriteInnerListIs
  <1>2. i \in Seq(Ch) /\ c \in Seq(Ch)
    BY ItemTextsTyped, ParamTextsTyped DEF ListW
  <1> HIDE DEF i, c, l
  <1>3. <<"(">> \in Seq(Ch) /\ <<")">> \in Seq(Ch) /\ Len(<<")">>) = 1 /\ "(" \in Ch
    BY SyntaxHas, OneTyped DEF Full
  <1>4. a \in Seq(Ch) /\ Len(a) = Len(i) + 1 /\ Len(i) \in Nat
    BY <1>2, <1>3, Prefixed
  <1> HIDE DEF a
  <1>5. b \in Seq(Ch) /\ Len(b) = Len(i) + 2
    BY <1>3, <1>4, Concats
  <1> HIDE DEF b
  <1>6. l \in Seq(Ch) /\ Len(l) = Len(i) + 2 + Len(c) /\ Len(c) \in Nat
    BY <1>1, <1>2, <1>5, Concats
  <1>7. Len(l) \in Nat \ {0}
    BY <1>4, <1>6
  <1> QED
    BY <1>1, <1>2, <1>3, <1>4, <1>5, <1>6, <1>7 DEF i, c, a, b, l

LEMMA ListWritten ==
    ASSUME NEW Ch, Full(Ch), NEW t, Text(t, Ch), NEW p, NEW x, ListW(x, Ch),
           Holds(t, p, writeInnerList(x)), Stop(peek(t, p + Len(writeInnerList(x))))
    PROVE  ListAt(t, p, x, p + Len(writeInnerList(x)), Ch)
  <1> DEFINE i == writeItems(x.items)
             c == writeParameters(x.params)
             a == <<"(">> \o i
             b == a \o <<")">>
             e == (p + 1) + Len(i)
             q == p + Len(writeInnerList(x))
  <1>1. /\ writeInnerList(x) = b \o c
        /\ <<"(">> \in Seq(Ch) /\ <<")">> \in Seq(Ch) /\ i \in Seq(Ch)
        /\ a \in Seq(Ch) /\ Len(a) = Len(i) + 1
        /\ b \in Seq(Ch) /\ Len(b) = Len(i) + 2
        /\ c \in Seq(Ch) /\ Len(writeInnerList(x)) = Len(i) + 2 + Len(c)
        /\ Len(i) \in Nat /\ Len(c) \in Nat
    BY ListTyped
  <1>2. p \in Nat \ {0} /\ Stop(peek(t, q)) /\ Holds(t, p, b \o c)
    BY <1>1 DEF Holds
  <1> HIDE DEF b
  <1>3. Holds(t, p, b) /\ Holds(t, p + Len(b), c)
    BY <1>1, <1>2, HoldsParts
  <1>4. Holds(t, p, a \o <<")">>)
    BY <1>3 DEF b
  <1> HIDE DEF a
  <1>5. Holds(t, p, a) /\ Holds(t, p + Len(a), <<")">>)
    BY <1>1, <1>4, HoldsParts
  <1>6. Holds(t, p, <<"(">> \o i) /\ Len(<<"(">>) = 1
    BY <1>5 DEF a
  <1> HIDE DEF i, c
  <1>7. Holds(t, p, <<"(">>) /\ Holds(t, p + 1, i)
    BY <1>1, <1>6, HoldsParts
  <1>8. p + Len(a) = e /\ p + Len(b) = e + 1 /\ q = (e + 1) + Len(c)
    BY <1>1, <1>2
  <1> HIDE DEF e, q
  <1>9. peek(t, p) = "(" /\ p \in Offsets(t) /\ peek(t, e) = ")" /\ e \in Offsets(t)
    BY <1>5, <1>7, <1>8, HeldOne
  <1>10. ItemsAt(t, p + 1, x.items, e, Ch)
    BY <1>7, <1>9, ItemsWritten DEF ListW, e, i
  <1>11. skipSP(t, e) = e
    BY <1>9, SkipSpaces, DelimitersDiffer
  <1>12. ParamsAt(t, e + 1, x.params, q, Ch)
    BY <1>2, <1>3, <1>8, ParamsWritten DEF ListW, c
  <1>13. ListAt(t, p, x, q, Ch)
    BY <1>9, <1>10, <1>11, <1>12 DEF ListAt, ListW
  <1> QED
    BY <1>13 DEF q

-----------------------------------------------------------------------------
(* Members of lists and of dictionaries.                                   *)

MemberW(x, Ch) == ItemW(x, Ch) \/ ListW(x, Ch)
EntryW(x, Ch)  == x = [key |-> x.key, member |-> x.member] /\ IsToken(x.key) /\ MemberW(x.member, Ch)

LEMMA WriteMemberIs ==
    ASSUME NEW Ch, NEW x
    PROVE  /\ ItemW(x, Ch) => writeMember(x) = writeItem(x)
           /\ ListW(x, Ch) => writeMember(x) = writeInnerList(x)
  <1>1. ItemW(x, Ch) => "items" \notin DOMAIN x
    BY MemberKinds DEF ItemW
  <1>2. ListW(x, Ch) => "items" \in DOMAIN x
    BY MemberKinds DEF ListW
  <1> QED
    BY <1>1, <1>2 DEF writeMember

LEMMA MemberTyped ==
    ASSUME NEW Ch, Full(Ch), NEW x, MemberW(x, Ch)
    PROVE  writeMember(x) \in Seq(Ch) /\ Len(writeMember(x)) \in Nat \ {0}
  <1>1. CASE ItemW(x, Ch)
    BY <1>1, WriteMemberIs, ItemTyped
  <1>2. CASE ListW(x, Ch)
    BY <1>2, WriteMemberIs, ListTyped
  <1> QED
    BY <1>1, <1>2 DEF MemberW

LEMMA MemberWritten ==
    ASSUME NEW Ch, Full(Ch), NEW t, Text(t, Ch), NEW p, NEW x, MemberW(x, Ch),
           Holds(t, p, writeMember(x)), Stop(peek(t, p + Len(writeMember(x))))
    PROVE  MemberAt(t, p, x, p + Len(writeMember(x)), Ch) /\ peek(t, p) \notin Blank
  <1>1. CASE ItemW(x, Ch)
    <2>1. ItemAt(t, p, x, p + Len(writeMember(x)), Ch)
      BY <1>1, WriteMemberIs, ItemWritten
    <2>2. PICK m : BareAt(t, p, x.val, m, Ch)
      BY <2>1 DEF ItemAt
    <2> QED
      BY <2>1, <2>2, BareStarts, StarterClasses, Blanks DEF MemberAt
  <1>2. CASE ListW(x, Ch)
    <2>1. ListAt(t, p, x, p + Len(writeMember(x)), Ch)
      BY <1>2, WriteMemberIs, ListWritten
    <2> QED
      BY <2>1, DelimitersDiffer, Blanks DEF MemberAt, ListAt
  <1> QED
    BY <1>1, <1>2 DEF MemberW

\* What is read of each production is what the serializer writes.
LEMMA ParamsAreW ==
    ASSUME NEW Ch, NEW t, NEW p, NEW ps, NEW q, ParamsAt(t, p, ps, q, Ch)
    PROVE  ParamsW(ps, Ch)
  <1>1. PICK at : \A k \in 1..Len(ps) : ParamAt(t, at[k - 1], ps[k], at[k], Ch)
    BY DEF ParamsAt
  <1>2. ASSUME NEW k \in 1..Len(ps) PROVE ParamW(ps[k], Ch)
    <2> DEFINE x == ps[k]
               i == at[k - 1]
               j == at[k]
    <2>1. ParamAt(t, i, x, j, Ch)
      BY <1>1
    <2> HIDE DEF x, i, j
    <2>2. PICK m : /\ KeyAt(t, i + 1, x.key, m)
                   /\ \/ peek(t, m) = "=" /\ BareAt(t, m + 1, x.val, j, Ch)
                      \/ peek(t, m) # "=" /\ x.val = BareTrue /\ j = m
      BY <2>1 DEF ParamAt
    <2>3. BareW(x.val, Ch)
      BY <2>2, TrueIsBare DEF BareAt, BareW
    <2>4. ParamW(x, Ch)
      BY <2>1, <2>2, <2>3 DEF ParamW, ParamAt, KeyAt
    <2> QED
      BY <2>4 DEF x
  <1> QED
    BY <1>2 DEF ParamsW, ParamsAt

LEMMA ItemIsW ==
    ASSUME NEW Ch, NEW t, NEW p, NEW x, NEW q, ItemAt(t, p, x, q, Ch)
    PROVE  ItemW(x, Ch)
  <1>1. PICK m : BareAt(t, p, x.val, m, Ch) /\ ParamsAt(t, m, x.params, q, Ch)
    BY DEF ItemAt
  <1>2. BareW(x.val, Ch)
    BY <1>1 DEF BareAt, BareW
  <1> QED
    BY <1>1, <1>2, ParamsAreW DEF ItemW, ItemAt

LEMMA MemberIsW ==
    ASSUME NEW Ch, NEW t, NEW p, NEW x, NEW q, MemberAt(t, p, x, q, Ch)
    PROVE  MemberW(x, Ch)
  <1>1. CASE ItemAt(t, p, x, q, Ch)
    BY <1>1, ItemIsW DEF MemberW
  <1>2. CASE ListAt(t, p, x, q, Ch)
    <2>1. PICK e : ItemsAt(t, p + 1, x.items, e, Ch) /\ ParamsAt(t, skipSP(t, e) + 1, x.params, q, Ch)
      BY <1>2 DEF ListAt
    <2>2. PICK at : \A k \in 1..Len(x.items) : ItemAt(t, skipSP(t, at[k - 1]), x.items[k], at[k], Ch)
      BY <2>1 DEF ItemsAt
    <2>3. \A k \in 1..Len(x.items) : ItemW(x.items[k], Ch)
      BY <2>2, ItemIsW
    <2>4. Tuple(x.items)
      BY <2>1 DEF ItemsAt
    <2>5. ParamsW(x.params, Ch)
      BY <2>1, ParamsAreW
    <2> QED
      BY <1>2, <2>3, <2>4, <2>5 DEF MemberW, ListW, ListAt, ItemsW
  <1> QED
    BY <1>1, <1>2 DEF MemberAt

LEMMA FlagIsW == \A Ch : MemberW(Flag, Ch)
  <1> TAKE Ch
  <1>1. Tuple(<<>>) /\ Len(<<>>) = 0
    BY DEF Tuple
  <1>2. ParamsW(<<>>, Ch)
    BY <1>1 DEF ParamsW
  <1> QED
    BY <1>2, TrueIsBare, FlagIs DEF MemberW, ItemW, Flag

LEMMA EntryIsW ==
    ASSUME NEW Ch, NEW t, NEW p, NEW x, NEW q, EntryAt(t, p, x, q, Ch)
    PROVE  EntryW(x, Ch)
  <1>1. PICK m : /\ KeyAt(t, p, x.key, m)
                 /\ \/ peek(t, m) = "=" /\ MemberAt(t, m + 1, x.member, q, Ch)
                    \/ peek(t, m) \notin Blank \cup {"="} /\ x.member = Flag /\ q = m
    BY DEF EntryAt
  <1>2. MemberW(x.member, Ch)
    BY <1>1, MemberIsW, FlagIsW
  <1> QED
    BY <1>1, <1>2 DEF EntryW, EntryAt, KeyAt

-----------------------------------------------------------------------------
(* Entries of dictionaries.                                                *)

Marked(x) == IF x = Flag THEN <<>> ELSE <<"=">> \o writeMember(x)
writeEntry(x) == x.key \o Marked(x.member)

LEMMA EntryTyped ==
    ASSUME NEW Ch, Full(Ch), NEW x, EntryW(x, Ch)
    PROVE  /\ x.key \in Seq(Ch) /\ Marked(x.member) \in Seq(Ch) /\ writeEntry(x) \in Seq(Ch)
           /\ Len(writeEntry(x)) = Len(x.key) + Len(Marked(x.member))
           /\ Len(x.key) \in Nat \ {0} /\ Len(Marked(x.member)) \in Nat
           /\ Len(writeEntry(x)) \in Nat \ {0}
  <1> DEFINE k == x.key
             v == Marked(x.member)
  <1>1. k \in Seq(Ch) /\ Len(k) \in Nat \ {0}
    BY TokenTyped DEF EntryW
  <1>2. v \in Seq(Ch)
    <2>1. <<>> \in Seq(Ch) /\ <<"=">> \in Seq(Ch)
      BY SyntaxHas, OneTyped DEF Full
    <2>2. writeMember(x.member) \in Seq(Ch)
      BY MemberTyped DEF EntryW
    <2>3. <<"=">> \o writeMember(x.member) \in Seq(Ch)
      BY <2>1, <2>2, Concats
    <2> QED
      BY <2>1, <2>3 DEF Marked
  <1>3. writeEntry(x) = k \o v
    BY DEF writeEntry
  <1> HIDE DEF k, v
  <1>4. k \o v \in Seq(Ch) /\ Len(k \o v) = Len(k) + Len(v) /\ Len(v) \in Nat
    BY <1>1, <1>2, Concats
  <1>5. Len(k \o v) \in Nat \ {0}
    BY <1>1, <1>4
  <1> QED
    BY <1>1, <1>2, <1>3, <1>4, <1>5 DEF k, v

LEMMA EntryWritten ==
    ASSUME NEW Ch, Full(Ch), NEW t, Text(t, Ch), NEW p, NEW x, EntryW(x, Ch),
           Holds(t, p, writeEntry(x)), peek(t, p + Len(writeEntry(x))) \in {Comma, "EOF"}
    PROVE  EntryAt(t, p, x, p + Len(writeEntry(x)), Ch) /\ peek(t, p) \notin Blank
  <1> DEFINE k == x.key
             v == Marked(x.member)
             m == p + Len(k)
             q == p + Len(writeEntry(x))
  <1>1. /\ k \in Seq(Ch) /\ v \in Seq(Ch) /\ Len(writeEntry(x)) = Len(k) + Len(v)
        /\ Len(k) \in Nat \ {0} /\ Len(v) \in Nat
    BY EntryTyped
  <1>2. Holds(t, p, k \o v) /\ p \in Nat \ {0} /\ peek(t, q) \in {Comma, "EOF"}
    BY DEF writeEntry, Holds
  <1>3. IsToken(k) /\ MemberW(x.member, Ch) /\ x = [key |-> k, member |-> x.member]
    BY DEF EntryW
  <1>4. /\ x.member = Flag => v = <<>>
        /\ x.member # Flag => v = <<"=">> \o writeMember(x.member)
    BY DEF Marked
  <1> HIDE DEF k, v
  <1>5. q = m + Len(v) /\ m \in Nat
    BY <1>1, <1>2
  <1>6. Holds(t, p, k) /\ Holds(t, m, v)
    BY <1>1, <1>2, HoldsParts
  <1>7. p \in Offsets(t) /\ m \in (p + 1)..(Len(t) + 1) /\ SubSeq(t, p, m - 1) = k
    BY <1>1, <1>6, HeldOffsets, HeldText
  <1> HIDE DEF m, q
  <1>8. ASSUME peek(t, m) \notin isTokenChar PROVE KeyAt(t, p, k, m)
    BY <1>3, <1>7, <1>8 DEF KeyAt
  <1>9. peek(t, q) \notin isTokenChar \cup Blank \cup {"="}
    BY <1>2, TokenClasses, Blanks, DelimitersDiffer DEF Ends
  <1>10. CASE x.member = Flag
    <2>1. q = m
      BY <1>4, <1>5, <1>10
    <2>2. EntryAt(t, p, x, q, Ch)
      BY <1>3, <1>7, <1>8, <1>9, <1>10, <2>1 DEF EntryAt, k
    <2>3. KeyAt(t, p, k, m)
      BY <1>8, <1>9, <2>1
    <2> QED
      BY <2>2, <2>3, KeyIsRead, StarterClasses, Blanks DEF q, Starters
  <1>11. CASE x.member # Flag
    <2> DEFINE w == writeMember(x.member)
    <2>1. /\ w \in Seq(Ch) /\ Len(w) \in Nat \ {0} /\ <<"=">> \in Seq(Ch) /\ Len(<<"=">>) = 1
          /\ v = <<"=">> \o w
      BY <1>3, <1>4, <1>11, MemberTyped, SyntaxHas, OneTyped DEF Full
    <2> HIDE DEF w
    <2>2. Holds(t, m, <<"=">>) /\ Holds(t, m + 1, w)
      <3>1. Holds(t, m, <<"=">> \o w)
        BY <1>6, <2>1
      <3>2. Holds(t, m, <<"=">>) /\ Holds(t, m + Len(<<"=">>), w)
        BY <2>1, <3>1, HoldsParts
      <3> QED
        BY <2>1, <3>2
    <2>3. q = (m + 1) + Len(w)
      <3>1. Len(v) = 1 + Len(w)
        BY <2>1, Concats
      <3> QED
        BY <1>5, <2>1, <3>1
    <2>4. peek(t, m) = "="
      BY <2>2, HeldOne
    <2>5. KeyAt(t, p, k, m)
      BY <1>8, <2>4, TokenClasses DEF Ends
    <2>6. Stop(peek(t, q))
      BY <1>2, Stopping
    <2>7. MemberAt(t, m + 1, x.member, q, Ch)
      BY <1>3, <2>2, <2>3, <2>6, MemberWritten DEF w
    <2>8. EntryAt(t, p, x, q, Ch)
      BY <1>3, <1>7, <2>4, <2>5, <2>7 DEF EntryAt, k
    <2> QED
      BY <2>5, <2>8, KeyIsRead, StarterClasses, Blanks DEF q, Starters
  <1> QED
    BY <1>10, <1>11

-----------------------------------------------------------------------------
(* Dictionaries and lists that are written are read again.                 *)

CommaSpace == <<Comma, SP>>

LEMMA CommaSpaceTyped ==
    ASSUME NEW Ch, Full(Ch)
    PROVE  CommaSpace \in Seq(Ch) /\ Len(CommaSpace) = 2
  <1>1. Comma \in Ch /\ SP \in Ch
    BY SyntaxHas DEF Full
  <1> QED
    BY <1>1 DEF CommaSpace

LEMMA CommaSpaceHeld ==
    ASSUME NEW Ch, NEW t, Text(t, Ch), NEW e, Holds(t, e, CommaSpace)
    PROVE  /\ peek(t, e) = Comma /\ peek(t, e + 1) = SP
           /\ e \in Offsets(t) /\ e + 1 \in Offsets(t) /\ e + 2 \in Offsets(t) /\ e \in Nat \ {0}
           /\ e + 1 <= Len(t) /\ t[e + 1] = SP
  <1>1. /\ Len(CommaSpace) = 2 /\ CommaSpace[1] = Comma /\ CommaSpace[2] = SP /\ Len(t) \in Nat
    BY DEF CommaSpace, Text
  <1>2. /\ e \in Nat \ {0} /\ e + 2 <= Len(t) + 1
        /\ \A m \in 1..2 : t[(e - 1) + m] = CommaSpace[m]
    BY <1>1 DEF Holds
  <1>3. (e - 1) + 1 = e /\ (e - 1) + 2 = e + 1 /\ 1 \in 1..2 /\ 2 \in 1..2
    BY <1>2
  <1>4. t[e] = Comma /\ t[e + 1] = SP
    BY <1>1, <1>2, <1>3
  <1>5. e <= Len(t) /\ e + 1 <= Len(t)
    BY <1>1, <1>2
  <1> QED
    BY <1>1, <1>2, <1>4, <1>5 DEF peek, Offsets

\* After each text comes a comma or the end.
LEMMA CommasFollowTexts ==
    ASSUME NEW Ch, NEW t, Text(t, Ch), NEW texts, NEW n \in Nat, Len(texts) = n, NEW b, NEW e,
           JoinedAt(t, 1, texts, CommaSpace, b, e, Len(t) + 1), NEW k \in 1..n
    PROVE  /\ peek(t, e[k]) \in {Comma, "EOF"}
           /\ k = n => peek(t, e[k]) = "EOF" /\ e[k] = Len(t) + 1
           /\ k # n => Holds(t, e[k], CommaSpace) /\ b[k + 1] = e[k] + 2
  <1>1. CASE k = n
    <2>1. e[k] = Len(t) + 1 /\ Len(t) \in Nat
      BY <1>1 DEF JoinedAt, Text
    <2> QED
      BY <1>1, <2>1, PeekAt
  <1>2. CASE k # n
    <2>1. k + 1 \in 2..n /\ (k + 1) - 1 = k
      BY <1>2
    <2>2. Holds(t, e[k], CommaSpace) /\ b[k + 1] = e[k] + Len(CommaSpace)
      BY <2>1 DEF JoinedAt
    <2>3. Len(CommaSpace) = 2
      BY DEF CommaSpace
    <2> QED
      BY <1>2, <2>2, <2>3, CommaSpaceHeld
  <1> QED
    BY <1>1, <1>2

LEMMA RowOfTexts ==
    ASSUME NEW Ch, NEW t, Text(t, Ch), NEW texts \in Seq(Seq(Ch)), NEW xs, Tuple(xs), Len(xs) # 0,
           Len(texts) = Len(xs), NEW b, NEW e,
           JoinedAt(t, 1, texts, CommaSpace, b, e, Len(t) + 1),
           \A k \in 1..Len(xs) : Len(texts[k]) # 0 /\ peek(t, b[k]) \notin Blank
    PROVE  Row(t, xs, b, e, Len(t) + 1)
  <1> DEFINE n == Len(xs)
  <1>1. n \in Nat \ {0} /\ Len(t) \in Nat
    BY DEF Tuple, Text
  <1>2. \A k \in 1..n : Holds(t, b[k], texts[k]) /\ e[k] = b[k] + Len(texts[k]) /\ texts[k] \in Seq(Ch)
    BY Element DEF JoinedAt
  <1> HIDE DEF n
  <1>3. ASSUME NEW k \in 1..n
        PROVE  b[k] \in Offsets(t) /\ e[k] \in Offsets(t) /\ b[k] <= Len(t)
    <2> DEFINE i == b[k]
               j == e[k]
               w == texts[k]
    <2>1. Holds(t, i, w) /\ j = i + Len(w) /\ w \in Seq(Ch) /\ Len(w) # 0
      BY <1>2 DEF n
    <2> HIDE DEF i, j, w
    <2>2. i \in Offsets(t) /\ j \in Offsets(t) /\ j \in (i + 1)..(Len(t) + 1)
      BY <2>1, HeldOffsets
    <2>3. i <= Len(t)
      BY <1>1, <2>2 DEF Offsets
    <2> QED
      BY <2>2, <2>3 DEF i, j
  <1>4. ASSUME NEW k \in 2..n
        PROVE  peek(t, skipOWS(t, e[k - 1])) = Comma /\ b[k] = afterComma(t, e[k - 1])
    <2> DEFINE i == e[k - 1]
    <2>1. k - 1 \in 1..n /\ k - 1 # n /\ (k - 1) + 1 = k /\ k \in 1..n
      BY <1>1
    <2>2. Holds(t, i, CommaSpace) /\ b[k] = i + 2
      BY <1>1, <2>1, CommasFollowTexts DEF n
    <2>3. peek(t, b[k]) \notin Blank
      BY <2>1 DEF n
    <2> HIDE DEF i
    <2>4. /\ peek(t, i) = Comma /\ peek(t, i + 1) = SP
          /\ i \in Offsets(t) /\ i + 1 \in Offsets(t) /\ i + 2 \in Offsets(t) /\ i \in Nat \ {0}
          /\ t[i + 1] = SP
      BY <2>2, CommaSpaceHeld
    <2>5. skipOWS(t, i) = i
      BY <2>4, PastBlanks, Blanks
    <2>6. skipOWS(t, i + 1) = i + 2
      <3>1. i + 2 \in (i + 1)..(Len(t) + 1) /\ \A m \in (i + 1)..((i + 2) - 1) : t[m] \in Blank
        BY <1>1, <2>4, Blanks DEF Offsets
      <3>2. peek(t, i + 2) \notin Blank
        BY <2>2, <2>3
      <3> QED
        BY <2>4, <3>1, <3>2, PastBlanks
    <2>7. afterComma(t, i) = i + 2
      BY <2>5, <2>6 DEF afterComma
    <2> QED
      BY <2>2, <2>4, <2>5, <2>7 DEF i
  <1>5. e[n] = Len(t) + 1 /\ peek(t, e[n]) = "EOF"
    <2>1. n \in 1..n
      BY <1>1
    <2> QED
      BY <1>1, <2>1, CommasFollowTexts DEF n
  <1>6. Len(t) + 1 = skipOWS(t, e[n]) /\ peek(t, Len(t) + 1) # Comma
    <2>1. Len(t) + 1 \in Offsets(t)
      BY <1>1 DEF Offsets
    <2> QED
      BY <1>5, <2>1, PastBlanks, Blanks, DelimitersDiffer
  <1>7. b[1] = 1
    BY DEF JoinedAt
  <1>8. \A k \in 2..n : b[k] <= Len(t)
    BY <1>1, <1>3
  <1> QED
    BY <1>3, <1>4, <1>6, <1>7, <1>8 DEF Row, n

LEMMA WholeHeld ==
    ASSUME NEW Ch, NEW t, Text(t, Ch)
    PROVE  Holds(t, 1, t)
  <1>1. Len(t) \in Nat
    BY DEF Text
  <1> QED
    BY <1>1 DEF Holds

EntryTexts(xs)  == [k \in 1..Len(xs) |-> writeEntry(xs[k])]
MemberTexts(xs) == [k \in 1..Len(xs) |-> writeMember(xs[k])]

LEMMA SerializersAre ==
    /\ \A xs : SerializeDictionary(xs) = Joined(EntryTexts(xs), CommaSpace)
    /\ \A xs : SerializeList(xs) = Joined(MemberTexts(xs), CommaSpace)
  <1>1. \A x : writeEntry(x) = x.key \o (IF x.member = [val |-> BareTrue, params |-> <<>>]
                                         THEN <<>> ELSE <<"=">> \o writeMember(x.member))
    BY DEF writeEntry, Marked, Flag
  <1> QED
    BY <1>1 DEF SerializeDictionary, SerializeList, EntryTexts, MemberTexts, CommaSpace

LEMMA DictionaryWritten ==
    ASSUME NEW Ch, Full(Ch), NEW xs, Tuple(xs), Len(xs) # 0, \A k \in 1..Len(xs) : EntryW(xs[k], Ch)
    PROVE  LET w == SerializeDictionary(xs)
           IN  Text(w, Ch) /\ EntriesIn(w, xs, Len(w) + 1, Ch)
  <1> DEFINE w == SerializeDictionary(xs)
             v == EntryTexts(xs)
             n == Len(xs)
  <1>1. n \in Nat \ {0} /\ v = [k \in 1..n |-> writeEntry(xs[k])] /\ w = Joined(v, CommaSpace)
    BY SerializersAre DEF Tuple, EntryTexts
  <1>2. CommaSpace \in Seq(Ch) /\ "EOF" \notin Ch
    BY CommaSpaceTyped DEF Full
  <1> HIDE DEF w, v
  <1>3. v \in Seq(Seq(Ch)) /\ Len(v) = n /\ \A k \in 1..n : v[k] = writeEntry(xs[k]) /\ Len(v[k]) # 0
    <2>1. \A k \in 1..n : v[k] = writeEntry(xs[k])
      BY <1>1
    <2>2. \A k \in 1..n : v[k] \in Seq(Ch) /\ Len(v[k]) # 0
      BY <2>1, EntryTyped
    <2>3. n \in Nat /\ v = [k \in 1..n |-> v[k]]
      BY <1>1
    <2>4. \A k \in 1..n : v[k] \in Seq(Ch)
      BY <2>2
    <2> HIDE DEF n
    <2>5. v \in Seq(Seq(Ch)) /\ Len(v) = n
      BY ONLY <2>3, <2>4, TextsTyped
    <2> QED
      BY <2>1, <2>2, <2>5
  <1>4. Text(w, Ch)
    BY <1>1, <1>2, <1>3, GappedTyped DEF Text
  <1>5. PICK b, e : JoinedAt(w, 1, v, CommaSpace, b, e, Len(w) + 1)
    <2>1. Holds(w, 1, Joined(v, CommaSpace)) /\ 1 + Len(Joined(v, CommaSpace)) = Len(w) + 1
      BY <1>1, <1>4, WholeHeld DEF Text
    <2>2. \E b, e : JoinedAt(w, 1, v, CommaSpace, b, e, 1 + Len(Joined(v, CommaSpace)))
      BY <1>2, <1>3, <1>4, <2>1, JoinedPlaces
    <2> QED
      BY <2>1, <2>2
  <1>6. ASSUME NEW k \in 1..n
        PROVE  EntryAt(w, b[k], xs[k], e[k], Ch) /\ peek(w, b[k]) \notin Blank
    <2> DEFINE x == xs[k]
               i == b[k]
               j == e[k]
    <2>1. Holds(w, i, v[k]) /\ j = i + Len(v[k])
      BY <1>3, <1>5 DEF JoinedAt
    <2>2. Holds(w, i, writeEntry(x)) /\ j = i + Len(writeEntry(x)) /\ EntryW(x, Ch)
      BY <1>3, <2>1
    <2>3. peek(w, j) \in {Comma, "EOF"}
      BY <1>1, <1>3, <1>4, <1>5, CommasFollowTexts
    <2> HIDE DEF x, i, j
    <2>4. EntryAt(w, i, x, j, Ch) /\ peek(w, i) \notin Blank
      BY <1>4, <2>2, <2>3, EntryWritten
    <2> QED
      BY <2>4 DEF x, i, j
  <1>7. Row(w, xs, b, e, Len(w) + 1)
    BY <1>3, <1>4, <1>5, <1>6, RowOfTexts
  <1>8. EntriesIn(w, xs, Len(w) + 1, Ch)
    BY <1>6, <1>7 DEF EntriesIn
  <1> QED
    BY <1>4, <1>8 DEF w

LEMMA ListsWritten ==
    ASSUME NEW Ch, Full(Ch), NEW xs, Tuple(xs), Len(xs) # 0, \A k \in 1..Len(xs) : MemberW(xs[k], Ch)
    PROVE  LET w == SerializeList(xs)
           IN  Text(w, Ch) /\ MembersIn(w, xs, Len(w) + 1, Ch)
  <1> DEFINE w == SerializeList(xs)
             v == MemberTexts(xs)
             n == Len(xs)
  <1>1. n \in Nat \ {0} /\ v = [k \in 1..n |-> writeMember(xs[k])] /\ w = Joined(v, CommaSpace)
    BY SerializersAre DEF Tuple, MemberTexts
  <1>2. CommaSpace \in Seq(Ch) /\ "EOF" \notin Ch
    BY CommaSpaceTyped DEF Full
  <1> HIDE DEF w, v
  <1>3. v \in Seq(Seq(Ch)) /\ Len(v) = n /\ \A k \in 1..n : v[k] = writeMember(xs[k]) /\ Len(v[k]) # 0
    <2>1. \A k \in 1..n : v[k] = writeMember(xs[k])
      BY <1>1
    <2>2. \A k \in 1..n : v[k] \in Seq(Ch) /\ Len(v[k]) # 0
      BY <2>1, MemberTyped
    <2>3. n \in Nat /\ v = [k \in 1..n |-> v[k]]
      BY <1>1
    <2>4. \A k \in 1..n : v[k] \in Seq(Ch)
      BY <2>2
    <2> HIDE DEF n
    <2>5. v \in Seq(Seq(Ch)) /\ Len(v) = n
      BY ONLY <2>3, <2>4, TextsTyped
    <2> QED
      BY <2>1, <2>2, <2>5
  <1>4. Text(w, Ch)
    BY <1>1, <1>2, <1>3, GappedTyped DEF Text
  <1>5. PICK b, e : JoinedAt(w, 1, v, CommaSpace, b, e, Len(w) + 1)
    <2>1. Holds(w, 1, Joined(v, CommaSpace)) /\ 1 + Len(Joined(v, CommaSpace)) = Len(w) + 1
      BY <1>1, <1>4, WholeHeld DEF Text
    <2>2. \E b, e : JoinedAt(w, 1, v, CommaSpace, b, e, 1 + Len(Joined(v, CommaSpace)))
      BY <1>2, <1>3, <1>4, <2>1, JoinedPlaces
    <2> QED
      BY <2>1, <2>2
  <1>6. ASSUME NEW k \in 1..n
        PROVE  MemberAt(w, b[k], xs[k], e[k], Ch) /\ peek(w, b[k]) \notin Blank
    <2> DEFINE x == xs[k]
               i == b[k]
               j == e[k]
    <2>1. Holds(w, i, v[k]) /\ j = i + Len(v[k])
      BY <1>3, <1>5 DEF JoinedAt
    <2>2. Holds(w, i, writeMember(x)) /\ j = i + Len(writeMember(x)) /\ MemberW(x, Ch)
      BY <1>3, <2>1
    <2>3. peek(w, j) \in {Comma, "EOF"}
      BY <1>1, <1>3, <1>4, <1>5, CommasFollowTexts
    <2> HIDE DEF x, i, j
    <2>5. Stop(peek(w, j))
      BY <2>3, Stopping
    <2>4. MemberAt(w, i, x, j, Ch) /\ peek(w, i) \notin Blank
      BY <1>4, <2>2, <2>5, MemberWritten
    <2> QED
      BY <2>4 DEF x, i, j
  <1>7. Row(w, xs, b, e, Len(w) + 1)
    BY <1>3, <1>4, <1>5, <1>6, RowOfTexts
  <1>8. MembersIn(w, xs, Len(w) + 1, Ch)
    BY <1>6, <1>7 DEF MembersIn
  <1> QED
    BY <1>4, <1>8 DEF w

-----------------------------------------------------------------------------
(* What is read, written and read again.                                   *)

\* The members of a dictionary are entries of its text, and it is the dictionary
\* that they make, with room for every one.
LEMMA DictionaryOf ==
    ASSUME NEW Ch, NEW xs, Tuple(xs), Len(xs) # 0,
           \A k \in 1..Len(xs) : EntryW(xs[k], Ch) /\ EntryWithin(xs[k]), Room(xs)
    PROVE  LET d == Dictionaries(xs)[Len(xs)]
           IN  /\ Tuple(d) /\ Len(d) # 0 /\ Dictionaries(d)[Len(d)] = d /\ Room(d)
               /\ \A i \in 1..Len(d) : EntryW(d[i], Ch) /\ EntryWithin(d[i])
  <1> DEFINE E  == {xs[k] : k \in 1..Len(xs)}
             n  == Len(xs)
             D  == Dictionaries(xs)
             d  == D[n]
             d1 == D[n - 1]
             M  == Limits.MaxDictionaryMembers
  <1>1. xs \in Seq(E) /\ n \in Nat \ {0}
    BY Tuples DEF Tuple
  <1>2. /\ d \in Seq(E) /\ d1 \in Seq(E) /\ d = put(d1, xs[n]) /\ xs[n] \in E
    <2>1. n \in 1..n /\ n - 1 \in 0..n /\ n \in 0..n
      BY <1>1
    <2> HIDE DEF E
    <2> QED
      BY <1>1, <2>1, DictionarySteps
  <1>3. Merged(d, xs, n)
    <2>1. n \in 0..n
      BY <1>1
    <2> HIDE DEF E
    <2> QED
      BY <1>1, <2>1, EntriesMerge
  <1>4. ~Exceeds(Len(d1) + 1, M)
    <2>1. n \in 1..n
      BY <1>1
    <2> QED
      BY <2>1 DEF Room
  <1>5. M \in Nat
    BY FieldsAssumption
  <1> HIDE DEF E, d, d1, D, M
  <1>6. Len(d) <= Len(d1) + 1 /\ Len(d1) \in Nat /\ Len(d) \in Nat
    <2>1. CASE \E i \in 1..Len(d1) : d1[i].key = xs[n].key
      BY <1>2, <2>1, PutKnown
    <2>2. CASE \A i \in 1..Len(d1) : d1[i].key # xs[n].key
      BY <1>2, <2>2, PutNew
    <2> QED
      BY <2>1, <2>2
  <1>7. Len(d) # 0
    <2>1. n \in 1..n
      BY <1>1
    <2>2. \E i \in 1..Len(d) : d[i].key = xs[n].key
      BY <1>3, <2>1 DEF Merged
    <2> QED
      BY <1>6, <2>2
  <1>8. ASSUME NEW i \in 1..Len(d)
        PROVE  EntryW(d[i], Ch) /\ EntryWithin(d[i])
    <2>1. PICK m \in 1..n : d[i] = xs[m]
      BY <1>3 DEF Merged
    <2> QED
      BY <2>1
  <1>9. /\ \A m \in 0..Len(d) : Len(Dictionaries(d)[m]) = m
        /\ Dictionaries(d)[Len(d)] = d
    BY <1>2, <1>3, DistinctEntries DEF Merged
  <1>10. Room(d)
    <2>1. ASSUME NEW m \in 1..Len(d)
          PROVE  ~Exceeds(Len(Dictionaries(d)[m - 1]) + 1, Limits.MaxDictionaryMembers)
      <3>1. m - 1 \in 0..Len(d)
        BY <1>6
      <3>2. Len(Dictionaries(d)[m - 1]) = m - 1
        BY <1>9, <3>1
      <3>3. ~Exceeds((m - 1) + 1, M)
        BY <1>4, <1>5, <1>6 DEF Exceeds
      <3> QED
        BY <3>2, <3>3 DEF M
    <2> QED
      BY <2>1 DEF Room
  <1>11. Tuple(d)
    BY <1>2, Tuples
  <1> QED
    BY <1>7, <1>8, <1>9, <1>10, <1>11 DEF d, D

\* The text w of a value v is read as v, to its end, or is too long to be read.
Again(r, v, w) == Exceeds(Len(w), Limits.MaxInputLength) \/ r = Got(v, Len(w) + 1)

\* The empty text.
LEMMA NothingAgain ==
    /\ SerializeDictionary(<<>>) = <<>> /\ Again(ParseDictionary(<<>>), <<>>, <<>>)
    /\ SerializeList(<<>>) = <<>> /\ Again(ParseList(<<>>), <<>>, <<>>)
  <1>1. /\ EntryTexts(<<>>) = <<>> /\ MemberTexts(<<>>) = <<>> /\ Len(<<>>) = 0
    BY DEF EntryTexts, MemberTexts
  <1>2. Joined(<<>>, CommaSpace) = <<>>
    <2> DEFINE none == <<>>
               Ch   == {Comma, SP}
    <2>1. none \in Seq(Seq(Ch)) /\ CommaSpace \in Seq(Ch) /\ Len(none) = 0
      BY DEF CommaSpace
    <2> HIDE DEF none, Ch
    <2>2. Joined(none, CommaSpace) = <<>>
      BY ONLY <2>1, GappedTyped
    <2> QED
      BY <2>2 DEF none
  <1>3. ~checkInputLength(<<>>) => Exceeds(Len(<<>>), Limits.MaxInputLength)
    BY DEF checkInputLength
  <1>4. checkInputLength(<<>>) => /\ ParseDictionary(<<>>) = Got(<<>>, 1)
                                  /\ ParseList(<<>>) = Got(<<>>, 1)
    BY ParseDictionaryIs, ParseListIs
  <1>5. Len(<<>>) + 1 = 1
    OBVIOUS
  <1>6. SerializeDictionary(<<>>) = <<>> /\ SerializeList(<<>>) = <<>>
    BY <1>1, <1>2, SerializersAre
  <1> QED
    BY <1>3, <1>4, <1>5, <1>6 DEF Again

LEMMA DictionaryAgain ==
    ASSUME NEW Ch, Full(Ch), NEW s, Text(s, Ch), ParseDictionary(s).ok
    PROVE  LET v == ParseDictionary(s).val
               w == SerializeDictionary(v)
           IN  Again(ParseDictionary(w), v, w)
  <1> DEFINE v == ParseDictionary(s).val
             w == SerializeDictionary(v)
  <1>1. CASE ParseDictionary(s) = Got(<<>>, 1)
    BY <1>1, Results, NothingAgain
  <1>2. CASE \E xs, q : /\ ParseDictionary(s) = Got(Dictionaries(xs)[Len(xs)], q)
                        /\ EntriesIn(s, xs, q, Ch) /\ EntriesWithin(s, xs)
    <2>1. PICK xs, q : /\ ParseDictionary(s) = Got(Dictionaries(xs)[Len(xs)], q)
                       /\ EntriesIn(s, xs, q, Ch) /\ EntriesWithin(s, xs)
      BY <1>2
    <2>2. v = Dictionaries(xs)[Len(xs)]
      BY <2>1, Results
    <2>3. Tuple(xs) /\ Len(xs) # 0
      BY <2>1, RowBegins
    <2>4. \A k \in 1..Len(xs) : EntryW(xs[k], Ch) /\ EntryWithin(xs[k])
      <3>1. \A k \in 1..Len(xs) : EntryW(xs[k], Ch)
        BY <2>1, EntryIsW DEF EntriesIn
      <3> QED
        BY <2>1, <3>1 DEF EntriesWithin
    <2>5. Room(xs)
      BY <2>1 DEF EntriesWithin
    <2>6. /\ Tuple(v) /\ Len(v) # 0 /\ Dictionaries(v)[Len(v)] = v /\ Room(v)
          /\ \A i \in 1..Len(v) : EntryW(v[i], Ch) /\ EntryWithin(v[i])
      BY <2>2, <2>3, <2>4, <2>5, DictionaryOf
    <2> HIDE DEF v
    <2>7. Text(w, Ch) /\ EntriesIn(w, v, Len(w) + 1, Ch)
      BY <2>6, DictionaryWritten
    <2> HIDE DEF w
    <2>8. CASE checkInputLength(w)
      <3>1. EntriesWithin(w, v)
        BY <2>6, <2>8 DEF EntriesWithin
      <3>2. ParseDictionary(w) = Got(v, Len(w) + 1)
        BY <2>6, <2>7, <3>1, DictionaryIsRead
      <3> QED
        BY <3>2 DEF Again, v, w
    <2>9. CASE ~checkInputLength(w)
      BY <2>9 DEF Again, checkInputLength, v, w
    <2> QED
      BY <2>8, <2>9
  <1> QED
    BY <1>1, <1>2, DictionaryReturns, Results

LEMMA ListAgain ==
    ASSUME NEW Ch, Full(Ch), NEW s, Text(s, Ch), ParseList(s).ok
    PROVE  LET v == ParseList(s).val
               w == SerializeList(v)
           IN  Again(ParseList(w), v, w)
  <1> DEFINE v == ParseList(s).val
             w == SerializeList(v)
  <1>1. CASE ParseList(s) = Got(<<>>, 1)
    BY <1>1, Results, NothingAgain
  <1>2. CASE \E xs, q : ParseList(s) = Got(xs, q) /\ MembersIn(s, xs, q, Ch) /\ MembersWithin(s, xs)
    <2>1. PICK xs, q : ParseList(s) = Got(xs, q) /\ MembersIn(s, xs, q, Ch) /\ MembersWithin(s, xs)
      BY <1>2
    <2>2. v = xs
      BY <2>1, Results
    <2>3. Tuple(v) /\ Len(v) # 0
      BY <2>1, <2>2, RowBegins
    <2>4. \A k \in 1..Len(v) : MemberW(v[k], Ch)
      BY <2>1, <2>2, MemberIsW DEF MembersIn
    <2> HIDE DEF v
    <2>5. Text(w, Ch) /\ MembersIn(w, v, Len(w) + 1, Ch)
      BY <2>3, <2>4, ListsWritten
    <2> HIDE DEF w
    <2>6. CASE checkInputLength(w)
      <3>1. MembersWithin(w, v)
        BY <2>1, <2>2, <2>6 DEF MembersWithin
      <3>2. ParseList(w) = Got(v, Len(w) + 1)
        BY <2>5, <3>1, ListsAreRead
      <3> QED
        BY <3>2 DEF Again, v, w
    <2>7. CASE ~checkInputLength(w)
      BY <2>7 DEF Again, checkInputLength, v, w
    <2> QED
      BY <2>6, <2>7
  <1> QED
    BY <1>1, <1>2, ListsReturn, Results

LEMMA ItemAgain ==
    ASSUME NEW Ch, Full(Ch), NEW s, Text(s, Ch), ParseItem(s, 1).ok
    PROVE  LET v == ParseItem(s, 1).val
               w == writeItem(v)
           IN  Again(ParseItem(w, 1), v, w)
  <1> DEFINE v == ParseItem(s, 1).val
             w == writeItem(v)
  <1>1. 1 \in Offsets(s)
    BY DEF Offsets, Text
  <1>2. PICK j : ItemAt(s, 1, v, j, Ch) /\ ItemWithin(v)
    <2>1. PICK x, j : ParseItem(s, 1) = Got(x, j) /\ ItemAt(s, 1, x, j, Ch) /\ ItemWithin(x)
      BY <1>1, ItemReturns, Results
    <2> QED
      BY <2>1, Results
  <1>3. ItemW(v, Ch)
    BY <1>2, ItemIsW
  <1> HIDE DEF v
  <1>4. Text(w, Ch) /\ Len(w) \in Nat
    BY <1>3, ItemTyped DEF Full, Text
  <1>5. Holds(w, 1, w) /\ 1 + Len(w) = Len(w) + 1
    BY <1>4, WholeHeld
  <1>6. Stop(peek(w, 1 + Len(w)))
    <2>1. 1 + Len(w) \in Nat \ {0} /\ 1 + Len(w) > Len(w)
      BY <1>4
    <2>2. peek(w, 1 + Len(w)) = "EOF"
      BY <1>4, <2>1, PeekAt
    <2> QED
      BY <2>2, Stopping
  <1>7. ItemAt(w, 1, v, 1 + Len(w), Ch)
    BY <1>3, <1>4, <1>5, <1>6, ItemWritten
  <1>8. ParseItem(w, 1) = Got(v, 1 + Len(w))
    BY <1>2, <1>4, <1>7, ItemIsRead DEF Read
  <1> QED
    BY <1>5, <1>8 DEF Again, v, w

\* Whatever was read from a field is read again from what is written for it, as the
\* same value and to its end, if the limit on the input allows.
THEOREM ReadAgain == XSpec => []WrittenIsReread
  <1>1. ASSUME FieldTyped PROVE WrittenIsReread
    <2>1. Text(text, FieldChars) /\ Full(FieldChars)
      BY <1>1, TextIsText, FieldCharsFull
    <2>2. Rereads(ParseDictionary(text), SerializeDictionary, ParseDictionary)
      BY <2>1, DictionaryAgain DEF Rereads, Again
    <2>3. Rereads(ParseList(text), SerializeList, ParseList)
      BY <2>1, ListAgain DEF Rereads, Again
    <2>4. Rereads(ParseItem(text, 1), writeItem, LAMBDA s : ParseItem(s, 1))
      BY <2>1, ItemAgain DEF Rereads, Again
    <2> QED
      BY <2>2, <2>3, <2>4 DEF WrittenIsReread
  <1> QED
    BY <1>1, FieldLines, PTL
=============================================================================
