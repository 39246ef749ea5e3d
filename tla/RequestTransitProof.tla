-------------------------- MODULE RequestTransitProof --------------------------
(***************************************************************************)
(* What reaches the server of a request: its header fields, from the       *)
(* characters of their lines to the signature base, the components that    *)
(* are covered, and the body with its digest.  For lines, requests and     *)
(* bodies of any size, all algorithms and all lists of required ones, and  *)
(* however the stream of the body is cut into pieces.                      *)
(*                                                                         *)
(* The scan of normalizeLineFolding goes forward over the line and is      *)
(* defined backward, from the end of the line; what it returns is proved   *)
(* from the last position at which a claim about it could fail.  The       *)
(* digests of a body are sorted by counting (Sorted), so their lemmas are  *)
(* about ranks: every name has a rank of its own, and every rank is taken. *)
(***************************************************************************)
EXTENDS RequestTransit, FieldCanonicalization, ContentDigest, SignatureBaseProof

-----------------------------------------------------------------------------
(* The scan and the definition position by position.                       *)

\* The newline at position i folds nothing.
BareAt(s, i) ==
    \/ s[i] = CR /\ (i = Len(s) \/ s[i + 1] # LF)
    \/ s[i] = LF /\ (i = Len(s) \/ s[i + 1] \notin Blank)

\* x and a character, and the rest of the line after both.
LEMMA Appended ==
    ASSUME NEW T, NEW x \in Seq(T), NEW c \in T, NEW y \in Seq(T)
    PROVE  x \o (<<c>> \o y) = (x \o <<c>>) \o y
  OBVIOUS

\* Positions that contribute nothing, as the ones a fold takes in.
NothingIn(v, a, b) == \A m \in a..b : v[m] = <<>>

LEMMA FoldedFlat ==
    ASSUME NEW T, NEW h, NEW v \in Seq(Seq(T)), Flattens(h, v),
           \A n \in 0..Len(v) : h[n] \in Seq(T),
           NEW a \in 0..Len(v), NEW b \in a..Len(v), NothingIn(v, a + 1, b)
    PROVE  h[b] = h[a]
  <1> DEFINE wrong == {m \in 1..Len(v) : m \in a..b /\ h[m] # h[a]}
  <1>1. Len(v) \in Nat /\ wrong \subseteq 1..Len(v)
    OBVIOUS
  <1>2. wrong = {}
    <2> SUFFICES ASSUME wrong # {} PROVE FALSE
      OBVIOUS
    <2>1. PICK m \in wrong : \A k \in wrong : m <= k
      BY <1>1, FirstPosition
    <2>2. m \in (a + 1)..b /\ m \in 1..Len(v) /\ h[m] # h[a]
      BY <1>1
    <2>3. h[m - 1] = h[a]
      <3>1. m - 1 \notin wrong /\ m - 1 \in a..b
        BY <1>1, <2>1, <2>2
      <3>2. m - 1 = a \/ m - 1 \in 1..Len(v)
        <4>1. a \in Nat /\ m \in Nat /\ a + 1 <= m /\ m <= Len(v)
          BY <1>1, <2>2
        <4> QED
          BY <1>1, <4>1
      <3> QED
        BY <3>1, <3>2
    <2>4. h[m] = h[m - 1] \o <<>>
      BY <2>2 DEF Flattens, NothingIn
    <2>5. h[m - 1] \in Seq(T)
      BY <1>1, <2>2
    <2>6. h[m - 1] \o <<>> = h[m - 1]
      BY <2>5
    <2> QED
      BY <2>2, <2>3, <2>4, <2>6
  <1>3. b = a \/ b \in 1..Len(v)
    BY <1>1
  <1>4. CASE b = a
    BY <1>4
  <1>5. CASE b \in 1..Len(v)
    <2>1. b \notin wrong
      BY <1>2
    <2>2. b \in a..b
      BY <1>1
    <2> QED
      BY <1>5, <2>1, <2>2
  <1> QED
    BY <1>3, <1>4, <1>5

\* normalizeLineFolding goes over the line once; that it may also be said of each
\* position by itself is proved from the end of the line.
LEMMA ScanIsUnfolding ==
    ASSUME NEW S, "invalid" \notin S, NEW s \in Seq(S)
    PROVE  normalizeLineFolding(s) = IF BareNewline(s) THEN Invalid ELSE Unfolded(s)
  <1> DEFINE n == Len(s)
             T == S \cup {SP}
             u == [i \in 1..n |-> UnfoldedAt(s, i)]
             Bare(i) == \E k \in i..n : BareAt(s, k)
  <1>1. n \in Nat /\ \A i \in 1..n : s[i] \in S
    OBVIOUS
  <1>2. PICK f : Scans(f, s) /\ normalizeLineFolding(s) = f[1]
    BY <1>1, ScanSteps
  <1>3. \A i \in 1..n : UnfoldedAt(s, i) \in Seq(T)
    <2>1. \A x : x \in T => <<x>> \in Seq(T) /\ <<>> \in Seq(T)
      OBVIOUS
    <2> QED
      BY <1>1, <2>1 DEF UnfoldedAt
  <1>4. u \in Seq(Seq(T)) /\ Len(u) = n /\ \A i \in 1..n : u[i] = UnfoldedAt(s, i)
    <2>1. u \in Seq(Seq(T))
      BY <1>1, <1>3
    <2>2. Len(u) = n
      BY <1>1, LenOf
    <2> QED
      BY <2>1, <2>2
  <1>5. Unfolded(s) = FlattenSeq(u)
    BY DEF Unfolded
  <1>6. "invalid" \notin T
    BY DEF SP
  <1> HIDE DEF u, T
  <1>7. ASSUME NEW x \in Seq(T) PROVE x # Invalid
    <2> SUFFICES ASSUME x = <<"invalid">> PROVE FALSE
      BY DEF Invalid
    <2>1. Len(x) = 1 /\ x[1] = "invalid"
      OBVIOUS
    <2>2. x[1] \in T
      BY ONLY <2>1, x \in Seq(T)
    <2> QED
      BY <1>6, <2>1, <2>2
  <1>8. PICK h : /\ Flattens(h, u) /\ FlattenSeq(u) = h[n]
                 /\ \A i \in 0..n : h[i] \in Seq(T)
    BY <1>4, FlatSteps
  <1> DEFINE Scanned(i) == IF Bare(i) THEN f[i] = Invalid
                           ELSE f[i] \in Seq(T) /\ h[i - 1] \o f[i] = h[n]
             Good(i) == (i <= n /\ InFold(s, i)) \/ Scanned(i)
             wrong   == {i \in 1..(n + 1) : ~Good(i)}
  <1>9. \A i \in 1..n : h[i] = h[i - 1] \o u[i]
    BY <1>4, <1>8 DEF Flattens
  \* The step from i to next, over positions of which no newline is bare and that
  \* together contribute the character c.
  <1>10. ASSUME NEW i \in 1..n, NEW next \in (i + 1)..(n + 1), NEW c \in T,
                Scanned(next), f[i] = Prepend(c, f[next]),
                \A k \in i..(next - 1) : ~BareAt(s, k),
                h[next - 1] = h[i - 1] \o <<c>>
         PROVE  Scanned(i)
    <2>1. Bare(i) <=> Bare(next)
      <3>1. \A k \in i..n : k \in i..(next - 1) \/ k \in next..n
        BY <1>1
      <3>2. \A k \in next..n : k \in i..n
        BY <1>1
      <3> QED
        BY <1>10, <3>1, <3>2
    <2>2. CASE Bare(i)
      <3>1. f[next] = Invalid
        BY <1>10, <2>1, <2>2
      <3>2. f[i] = Invalid
        BY <1>10, <3>1 DEF Prepend
      <3> QED
        BY <2>2, <3>2
    <2>3. CASE ~Bare(i)
      <3> DEFINE x == h[i - 1]
                 y == f[next]
      <3>1. y \in Seq(T) /\ h[next - 1] \o y = h[n]
        BY <1>10, <2>1, <2>3
      <3>2. y # Invalid /\ x \in Seq(T)
        BY <1>1, <1>7, <1>8, <3>1
      <3>3. f[i] = <<c>> \o y
        BY <1>10, <3>2 DEF Prepend
      <3> HIDE DEF x, y
      <3>4. <<c>> \o y \in Seq(T)
        BY <3>1
      <3>5. x \o (<<c>> \o y) = (x \o <<c>>) \o y
        BY <3>1, <3>2, Appended
      <3>6. x \o f[i] = h[n]
        BY <1>10, <3>1, <3>3, <3>5 DEF x
      <3> HIDE DEF Bare
      <3> QED
        BY <2>3, <3>3, <3>4, <3>6 DEF x
    <2> QED
      BY <2>2, <2>3
  <1>11. ASSUME NEW i \in 1..n, s[i] \notin Newline, ~InFold(s, i), Good(i + 1)
         PROVE  Scanned(i)
    <2>1. i + 1 <= n => ~InFold(s, i + 1)
      <3> SUFFICES ASSUME i + 1 <= n, InFold(s, i + 1) PROVE FALSE
        OBVIOUS
      <3>1. PICK k \in 1..((i + 1) - 1) : s[k] = LF /\ \A m \in (k + 1)..(i + 1) : s[m] \in Blank
        BY DEF InFold
      <3>2. k # i
        BY <1>11, <3>1 DEF Newline
      <3>3. k \in 1..(i - 1) /\ \A m \in (k + 1)..i : s[m] \in Blank
        BY <1>1, <3>1, <3>2
      <3>4. s[i] \in Blank
        BY <1>1, <3>3
      <3> QED
        BY <1>11, <3>1, <3>3, <3>4 DEF InFold
    <2>2. Scanned(i + 1)
      BY <1>11, <2>1
    <2>3. f[i] = Prepend(s[i], f[i + 1]) /\ s[i] \in T
      <3>1. f[i] = ScanStep(s, i, f)
        BY <1>1, <1>2 DEF Scans
      <3>2. ~(i > Len(s))
        BY <1>1
      <3> QED
        BY <1>1, <1>11, <3>1, <3>2 DEF ScanStep, T
    <2>4. h[i] = h[i - 1] \o <<s[i]>>
      <3>1. u[i] = <<s[i]>>
        BY <1>4, <1>11 DEF UnfoldedAt, Newline
      <3> QED
        BY <1>9, <3>1
    <2>5. ~BareAt(s, i)
      BY <1>11 DEF BareAt, Newline
    <2>6. i + 1 \in (i + 1)..(n + 1) /\ (i + 1) - 1 = i /\ \A k \in i..i : k = i
      BY <1>1
    <2> HIDE DEF Scanned
    <2> QED
      BY <1>10, <2>2, <2>3, <2>4, <2>5, <2>6
  <1>12. ASSUME NEW i \in 1..n, s[i] \in Newline, skipObsFold(s, i) = 0
         PROVE  Scanned(i)
    <2>1. f[i] = Invalid
      <3>1. f[i] = ScanStep(s, i, f)
        BY <1>1, <1>2 DEF Scans
      <3>2. ~(i > Len(s))
        BY <1>1
      <3> QED
        BY <1>12, <3>1, <3>2 DEF ScanStep
    <2> DEFINE l == LFAt(s, i)
    <2>3. l \in i..(i + 1)
      BY DEF LFAt
    <2>2. \/ s[i] = CR /\ (i = n \/ s[i + 1] # LF)
          \/ l <= n /\ s[l] = LF /\ (l = n \/ s[l + 1] \notin Blank)
      <3>1. 0 \notin (l + 2)..(n + 1)
        BY <1>1, <2>3
      <3> HIDE DEF Bare
      <3> QED
        BY <1>1, <1>12, <3>1, FoldAt
    <2> HIDE DEF l
    <2>4. BareAt(s, i) \/ (l \in i..n /\ BareAt(s, l))
      BY <1>1, <2>2, <2>3 DEF BareAt
    <2>5. Bare(i)
      BY <1>1, <2>4
    <2> HIDE DEF Bare
    <2> QED
      BY <2>1, <2>5
  <1>13. ASSUME NEW i \in 1..n, s[i] \in Newline, skipObsFold(s, i) # 0,
                \A j \in (i + 1)..(n + 1) : Good(j)
         PROVE  Scanned(i)
    <2> DEFINE next == skipObsFold(s, i)
               l    == LFAt(s, i)
    <2>1. /\ next \in (l + 2)..(n + 1) /\ l + 1 <= n /\ s[l] = LF
          /\ \A m \in (l + 1)..(next - 1) : s[m] \in Blank
          /\ next <= n => s[next] \notin Blank
      BY <1>1, <1>13, FoldAt
    <2>2. /\ l \in i..(i + 1) /\ (l = i \/ s[i] = CR)
      BY DEF LFAt
    <2>3. f[i] = Prepend(SP, f[next]) /\ SP \in T
      <3>1. f[i] = ScanStep(s, i, f)
        BY <1>1, <1>2 DEF Scans
      <3>2. ~(i > Len(s))
        BY <1>1
      <3> QED
        BY <1>13, <3>1, <3>2 DEF ScanStep, T
    <2> HIDE DEF next, l
    <2>4. next \in (i + 1)..(n + 1) /\ l \in 1..n
      BY <1>1, <2>1, <2>2
    <2>5. Scanned(next)
      <3>1. next <= n => ~InFold(s, next)
        BY <2>1 DEF InFold
      <3>2. Good(next)
        BY <1>13, <2>4
      <3> HIDE DEF Scanned
      <3> QED
        BY <3>1, <3>2
    <2>6. \A k \in i..(next - 1) : ~BareAt(s, k)
      <3>1. ASSUME NEW k \in i..(next - 1) PROVE ~BareAt(s, k)
        <4>1. CASE k = l
          <5>1. s[l + 1] \in Blank /\ l # n
            BY <1>1, <2>1, <2>4
          <5> QED
            BY <2>1, <4>1, <5>1 DEF BareAt, LF, CR
        <4>2. CASE k = i /\ k # l
          <5>1. l = i + 1 /\ s[i] = CR /\ i # n
            BY <1>1, <2>2, <2>4, <4>2
          <5> QED
            BY <2>1, <4>2, <5>1 DEF BareAt, LF, CR
        <4>3. CASE k \in (l + 1)..(next - 1)
          BY <2>1, <4>3 DEF BareAt, Blank, SP, HT, LF, CR
        <4>4. k = l \/ (k = i /\ k # l) \/ k \in (l + 1)..(next - 1)
          BY <1>1, <2>1, <2>2, <2>4
        <4> QED
          BY <4>1, <4>2, <4>3, <4>4
      <3> QED
        BY <3>1
    <2>7. h[next - 1] = h[l]
      <3>1. l \in 0..n /\ next - 1 \in l..n
        BY <1>1, <2>1, <2>4
      <3>2. ASSUME NEW m \in (l + 1)..(next - 1) PROVE u[m] = <<>>
        <4>1. m \in 1..n /\ s[m] \in Blank
          BY <1>1, <2>1, <2>4
        <4>2. l \in 1..(m - 1) /\ \A k \in (l + 1)..m : s[k] \in Blank
          BY <1>1, <2>1, <2>4
        <4>3. InFold(s, m)
          BY <2>1, <4>1, <4>2 DEF InFold
        <4>4. s[m] # LF
          BY <4>1 DEF Blank, SP, HT, LF
        <4> QED
          BY <1>4, <4>1, <4>3, <4>4 DEF UnfoldedAt
      <3>3. \A m \in (l + 1)..(next - 1) : u[m] = <<>>
        BY <3>2
      <3>4. /\ u \in Seq(Seq(T)) /\ Flattens(h, u)
            /\ \A k \in 0..Len(u) : h[k] \in Seq(T)
            /\ l \in 0..Len(u) /\ next - 1 \in l..Len(u)
        BY <1>4, <1>8, <3>1
      <3> DEFINE b == next - 1
      <3>5. b \in l..Len(u) /\ NothingIn(u, l + 1, b)
        BY <3>3, <3>4 DEF NothingIn
      <3> HIDE DEF b
      <3>6. h[b] = h[l]
        BY ONLY <3>4, <3>5, FoldedFlat
      <3> QED
        BY <3>6 DEF b
    <2>8. h[l] = h[i - 1] \o <<SP>>
      <3>1. u[l] = <<SP>>
        <4>1. u[l] = UnfoldedAt(s, l) /\ s[l] = LF
          BY <1>4, <2>1, <2>4
        <4>2. UnfoldedAt(s, l) = <<SP>>
          BY <4>1 DEF UnfoldedAt, InFold, Blank, SP, HT, CR, LF
        <4> QED
          BY <4>1, <4>2
      <3>2. h[l] = h[l - 1] \o <<SP>>
        BY <1>9, <2>4, <3>1
      <3>3. CASE l = i
        BY <3>2, <3>3
      <3>4. CASE l # i
        <4>1. l - 1 = i /\ s[i] = CR
          BY <1>1, <2>2, <2>4, <3>4
        <4>2. u[i] = <<>>
          BY <1>4, <4>1 DEF UnfoldedAt, CR, LF
        <4>5. i - 1 \in 0..n
          BY <1>1
        <4>3. h[i] = h[i - 1] \o <<>> /\ h[i - 1] \in Seq(T)
          BY <1>8, <1>9, <4>2, <4>5
        <4>4. h[i] = h[i - 1]
          BY <4>3
        <4> QED
          BY <3>2, <4>1, <4>4
      <3> QED
        BY <3>3, <3>4
    <2> HIDE DEF Scanned
    <2> QED
      BY <1>10, <2>3, <2>4, <2>5, <2>6, <2>7, <2>8
  <1>14. Good(n + 1)
    <2>1. f[n + 1] = <<>>
      <3>1. f[n + 1] = ScanStep(s, n + 1, f)
        BY <1>1, <1>2 DEF Scans
      <3> QED
        BY <1>1, <3>1 DEF ScanStep
    <2>2. ~Bare(n + 1)
      BY <1>1
    <2>3. h[n] \in Seq(T) /\ (n + 1) - 1 = n
      BY <1>1, <1>8
    <2>4. h[n] \o <<>> = h[n] /\ <<>> \in Seq(T)
      BY <2>3
    <2> HIDE DEF Bare
    <2> QED
      BY <2>1, <2>2, <2>3, <2>4
  <1> HIDE DEF Scanned
  <1>15. wrong = {}
    <2> SUFFICES ASSUME wrong # {} PROVE FALSE
      OBVIOUS
    <2>1. wrong \subseteq 1..(n + 1) /\ n + 1 \in Nat
      BY <1>1
    <2>2. /\ \A i \in wrong : i \in 1..(n + 1) /\ ~Good(i)
          /\ \A i \in 1..(n + 1) : i \notin wrong => Good(i)
      OBVIOUS
    <2> HIDE DEF wrong
    <2>3. PICK i \in wrong : \A j \in wrong : j <= i
      BY <2>1, LastPosition
    <2> HIDE DEF Good
    <2>4. i \in 1..(n + 1) /\ ~Good(i)
      BY <2>2
    <2>5. i \in 1..n
      BY <1>1, <1>14, <2>4
    <2>6. \A j \in (i + 1)..(n + 1) : Good(j)
      <3>1. ASSUME NEW j \in (i + 1)..(n + 1) PROVE Good(j)
        <4>1. j \in 1..(n + 1) /\ ~(j <= i)
          BY <1>1, <2>5
        <4> QED
          BY <2>2, <2>3, <4>1
      <3> QED
        BY <3>1
    <2>7. ~InFold(s, i) /\ ~Scanned(i)
      BY <1>1, <2>4, <2>5 DEF Good
    <2>8. i + 1 \in (i + 1)..(n + 1)
      BY <1>1, <2>5
    <2> QED
      BY <1>11, <1>12, <1>13, <2>5, <2>6, <2>7, <2>8
  <1>16. Scanned(1)
    <2>1. Good(1)
      BY <1>1, <1>15
    <2>2. ~InFold(s, 1)
      BY DEF InFold
    <2> QED
      BY <2>1, <2>2
  <1>17. BareNewline(s) <=> Bare(1)
    BY DEF BareNewline, BareAt
  <1>18. CASE BareNewline(s)
    BY <1>2, <1>16, <1>17, <1>18 DEF Scanned
  <1>19. CASE ~BareNewline(s)
    <2>1. f[1] \in Seq(T) /\ h[1 - 1] \o f[1] = h[n]
      BY <1>16, <1>17, <1>19 DEF Scanned
    <2>2. h[1 - 1] = <<>>
      BY <1>8 DEF Flattens
    <2>3. <<>> \o f[1] = f[1]
      BY <2>1
    <2> QED
      BY <1>2, <1>5, <1>8, <1>19, <2>1, <2>2, <2>3
  <1> QED
    BY <1>18, <1>19

-----------------------------------------------------------------------------
(* A field that is built up.                                               *)

AllChars == Chars \cup Blank \cup Newline

FInv == /\ lines \in Seq(Seq(AllChars)) /\ lines # <<>>
        /\ canonical \in {<<>>, canonicalizeFieldValues(lines)}

\* What FieldCanonicalization computes is the canonical value of the lines there
\* are.
THEOREM FieldInvariant == FSpec => []FInv
  <1>1. FInit => FInv
    <2> SUFFICES ASSUME FInit PROVE FInv
      OBVIOUS
    <2>1. \A T : << <<>> >> \in Seq(Seq(T)) /\ << <<>> >> # <<>>
      OBVIOUS
    <2> QED
      BY <2>1 DEF FInit, FInv
  <1>2. FInv /\ [FNext]_fvars => FInv'
    <2> SUFFICES ASSUME FInv, [FNext]_fvars PROVE FInv'
      OBVIOUS
    <2>1. CASE AppendChar
      <3>1. PICK c \in AllChars : lines' = [lines EXCEPT ![Len(lines)] = Append(@, c)]
        BY <2>1 DEF AppendChar, AllChars
      <3>2. ASSUME NEW T, NEW v \in Seq(Seq(T)), v # <<>>, NEW x \in T
            PROVE  LET w == [v EXCEPT ![Len(v)] = Append(@, x)]
                   IN  w \in Seq(Seq(T)) /\ w # <<>>
        <4>1. Len(v) \in 1..Len(v) /\ v[Len(v)] \in Seq(T)
          BY <3>2
        <4>2. Append(v[Len(v)], x) \in Seq(T)
          BY <4>1
        <4> QED
          BY <3>2, <4>1, <4>2
      <3>3. lines' \in Seq(Seq(AllChars)) /\ lines' # <<>>
        BY <3>1, <3>2 DEF FInv
      <3> QED
        BY <2>1, <3>3 DEF AppendChar, FInv
    <2>2. CASE AddLine
      <3>1. ASSUME NEW T, NEW v \in Seq(Seq(T))
            PROVE  Append(v, <<>>) \in Seq(Seq(T)) /\ Append(v, <<>>) # <<>>
        <4>1. ASSUME NEW U, NEW x \in U, NEW w \in Seq(U)
              PROVE  Append(w, x) \in Seq(U) /\ Len(Append(w, x)) > 0
          OBVIOUS
        <4>2. <<>> \in Seq(T) /\ Len(<<>>) = 0
          OBVIOUS
        <4>3. Append(v, <<>>) \in Seq(Seq(T)) /\ Len(Append(v, <<>>)) > 0
          BY <3>1, <4>1, <4>2
        <4> QED
          BY <4>2, <4>3
      <3>2. lines' \in Seq(Seq(AllChars)) /\ lines' # <<>>
        BY <2>2, <3>1 DEF AddLine, FInv
      <3> QED
        BY <2>2, <3>2 DEF AddLine, FInv
    <2>3. CASE Canonicalize
      BY <2>3 DEF Canonicalize, FInv
    <2>4. CASE UNCHANGED fvars
      BY <2>4 DEF FInv, fvars
    <2> QED
      BY <2>1, <2>2, <2>3, <2>4 DEF FNext
  <1> QED
    BY <1>1, <1>2, PTL DEF FSpec

\* normalizeLineFolding, which copies, folds or refuses in one pass over the line,
\* does to a line of any length what its definition says of each position by itself.
THEOREM ScanIsPositional == FSpec => []ScanMatchesReference
  <1>1. FInv => ScanMatchesReference
    <2> SUFFICES ASSUME FInv, NEW n \in 1..Len(lines)
                 PROVE  normalizeLineFolding(lines[n]) =
                          IF BareNewline(lines[n]) THEN Invalid ELSE Unfolded(lines[n])
      BY DEF ScanMatchesReference
    <2>1. lines[n] \in Seq(AllChars)
      BY DEF FInv
    <2>2. "invalid" \notin AllChars
      BY FieldAssumption DEF AllChars, Blank, Newline, SP, HT, CR, LF
    <2> QED
      BY <2>1, <2>2, ScanIsUnfolding
  <1> QED
    BY <1>1, FieldInvariant, PTL

\* Whatever characters a field has, in whatever order and on however many lines: no
\* newline is in the value that canonicalizeFieldValues puts into the base.
THEOREM ValuesStayOnTheirLine == FSpec => []NoLineBreakInBase
  <1>1. FInv => NoLineBreakInBase
    <2> SUFFICES ASSUME FInv, NEW i \in 1..Len(canonical), canonical[i] \in Newline PROVE FALSE
      BY DEF NoLineBreakInBase
    <2> DEFINE once == canonicalizeFieldValues(lines)
    <2>1. canonical \in {<<>>, once} /\ lines \in Seq(Seq(AllChars))
      BY DEF FInv
    <2>2. once # Invalid => once \in Seq(Canonical(AllChars))
      BY <2>1, CanonicalEnds
    <2>3. Canonical(AllChars) \cap Newline = {}
      BY DEF Canonical, Newline, SP, CR, LF
    <2> HIDE DEF once
    <2>4. CASE canonical = <<>>
      BY <2>4
    <2>5. CASE canonical = Invalid
      <3>1. \A x : Len(<<x>>) = 1 /\ <<x>>[1] = x /\ 1..1 = {1}
        OBVIOUS
      <3>2. canonical[i] = "invalid"
        BY <2>5, <3>1 DEF Invalid
      <3> QED
        BY <3>2 DEF Newline, CR, LF
    <2>6. CASE canonical \in Seq(Canonical(AllChars))
      BY <2>3, <2>6
    <2> QED
      BY <2>1, <2>2, <2>4, <2>5, <2>6
  <1> QED
    BY <1>1, FieldInvariant, PTL

\* The lines of a field may be combined on the way: the value of visible lines and
\* the value of the line they make are the same.
THEOREM CombinedLinesKeepTheirValue == FSpec => []CombiningLinesKeepsValue
  <1>1. FInv => CombiningLinesKeepsValue
    <2> SUFFICES ASSUME FInv PROVE CombiningLinesKeepsValue
      OBVIOUS
    <2>1. lines \in Seq(Seq(AllChars)) /\ lines # <<>>
      BY DEF FInv
    <2>2. "invalid" \notin AllChars
      BY FieldAssumption DEF AllChars, Blank, Newline, SP, HT, CR, LF
    <2> QED
      BY <2>1, <2>2, CanonicalAgain DEF CombiningLinesKeepsValue
  <1> QED
    BY <1>1, FieldInvariant, PTL

-----------------------------------------------------------------------------
(* A request on its way.                                                   *)

\* Lines without newlines have the value of the line an intermediary makes of them.
LEMMA CombinedValue ==
    ASSUME NEW S, S \cap (Newline \cup {"invalid"}) = {}, NEW v \in Seq(Seq(S)), v # <<>>,
           canonicalizeFieldValues(v) # Invalid,
           \A i \in 1..Len(v) : \E k \in 1..Len(v[i]) : v[i][k] \notin Blank
    PROVE  canonicalizeFieldValues(<<Combined(v)>>) = canonicalizeFieldValues(v)
  <1> DEFINE normalized == [i \in 1..Len(v) |-> normalizeLineFolding(v[i])]
  <1>1. S \cap Newline = {} /\ "invalid" \notin S
    OBVIOUS
  <1>2. Len(v) \in Nat /\ \A i \in 1..Len(v) : v[i] \in Seq(S)
    OBVIOUS
  <1>3. \A i \in 1..Len(v) : normalized[i] = v[i]
    BY <1>1, <1>2, PlainLine
  <1>4. canonicalizeFieldValues(v) = JoinComma([i \in 1..Len(v) |-> TrimSpace(normalized[i])])
    <2> DEFINE joined == JoinComma([i \in 1..Len(v) |-> TrimSpace(normalized[i])])
    <2>1. canonicalizeFieldValues(v) =
            IF \E i \in 1..Len(v) : normalized[i] = Invalid THEN Invalid ELSE joined
      BY DEF canonicalizeFieldValues
    <2> HIDE DEF normalized, joined
    <2> QED
      BY <2>1 DEF joined
  <1> HIDE DEF normalized
  <1>5. [i \in 1..Len(v) |-> TrimSpace(normalized[i])] = [i \in 1..Len(v) |-> TrimSpace(v[i])]
    BY <1>3
  <1>6. canonicalizeFieldValues(v) = Combined(v)
    BY <1>4, <1>5 DEF Combined
  <1>7. \A i \in 1..Len(v) : \E k \in 1..Len(v[i]) : v[i][k] \notin Blank \cup Newline
    <2> SUFFICES ASSUME NEW i \in 1..Len(v)
                 PROVE  \E k \in 1..Len(v[i]) : v[i][k] \notin Blank \cup Newline
      OBVIOUS
    <2>1. PICK k \in 1..Len(v[i]) : v[i][k] \notin Blank
      OBVIOUS
    <2>2. v[i] \in Seq(S)
      BY <1>2
    <2>3. v[i][k] \in S
      BY <2>1, <2>2
    <2> QED
      BY <1>1, <2>1, <2>3
  <1>8. canonicalizeFieldValues(<<canonicalizeFieldValues(v)>>) = canonicalizeFieldValues(v)
    BY <1>1, <1>7, CanonicalAgain
  <1> QED
    BY <1>6, <1>8

\* resolveRequestURL on the server.
LEMMA ServerResolves ==
    ASSUME NEW q, NEW w, q.url = ServerURL(w)
    PROVE  LET u == resolveRequestURL(q)
           IN  /\ u.scheme = (IF q.tls THEN "https" ELSE "http") /\ u.host = q.Host
               /\ u.path = ServerURL(w).path /\ u.query = w.query /\ u.fragment = ""
               /\ u.opaque = "" /\ u.user = "" /\ ~u.forceQuery
  <1> DEFINE s == ServerURL(w)
             u == resolveRequestURL(q)
             scheme == IF q.tls THEN "https" ELSE "http"
  <1>1. s.scheme = "" /\ s.host = "" /\ s.query = w.query /\ s.fragment = ""
    BY DEF ServerURL
  <1> HIDE DEF s
  <1>2. q.url = s
    BY DEF s
  <1>3. u = URLFrom(s, scheme, q.Host)
    BY <1>1, <1>2 DEF resolveRequestURL
  <1> HIDE DEF u, scheme
  <1>4. /\ u.scheme = scheme /\ u.host = q.Host
        /\ u.path = s.path /\ u.query = s.query /\ u.fragment = s.fragment
        /\ u.opaque = "" /\ u.user = "" /\ ~u.forceQuery
    BY <1>3 DEF URLFrom
  <1> QED
    BY <1>1, <1>4 DEF u, s, scheme

\* What a derived component reads of a server's request.
LEMMA SameOnServer ==
    ASSUME NEW a, NEW b, NEW w, NEW c, a.url = ServerURL(w), b.url = ServerURL(w),
           ServerURL(w) # NoURL, a.kind = "request", b.kind = "request",
           a.method = b.method, a.Host = b.Host,
           a.tls = b.tls \/ c.name \notin {"@scheme", "@target-uri"}
    PROVE  extractDerivedComponentValue(a, c) = extractDerivedComponentValue(b, c)
  <1> DEFINE u == resolveRequestURL(a)
             x == resolveRequestURL(b)
  <1>1. /\ u.host = x.host /\ u.path = x.path /\ u.query = x.query /\ u.fragment = x.fragment
        /\ u.opaque = x.opaque /\ u.user = x.user /\ ~u.forceQuery /\ ~x.forceQuery
        /\ PathOrSlash(u) = PathOrSlash(x)
        /\ a.tls = b.tls => u.scheme = x.scheme
    <2>1. /\ u.scheme = (IF a.tls THEN "https" ELSE "http") /\ u.host = a.Host
          /\ u.path = ServerURL(w).path /\ u.query = w.query /\ u.fragment = ""
          /\ u.opaque = "" /\ u.user = "" /\ ~u.forceQuery
      BY ServerResolves
    <2>2. /\ x.scheme = (IF b.tls THEN "https" ELSE "http") /\ x.host = b.Host
          /\ x.path = ServerURL(w).path /\ x.query = w.query /\ x.fragment = ""
          /\ x.opaque = "" /\ x.user = "" /\ ~x.forceQuery
      BY ServerResolves
    <2> HIDE DEF u, x
    <2> QED
      BY <2>1, <2>2 DEF PathOrSlash
  <1>2. a.url = b.url /\ IsRequest(a) /\ IsRequest(b) /\ ~IsResponse(a) /\ ~IsResponse(b)
    BY DEF IsRequest, IsResponse
  <1>3. a.url # NoURL /\ b.url # NoURL
    OBVIOUS
  <1> HIDE DEF u, x
  <1>4. extractMethod(a) = extractMethod(b) /\ extractStatus(a) = extractStatus(b)
    BY <1>2 DEF extractMethod, extractStatus
  <1>5. extractAuthority(a) = extractAuthority(b) /\ extractPath(a) = extractPath(b)
    BY <1>1, <1>2, <1>3 DEF extractAuthority, extractPath, FromURL, u, x
  <1>6. extractQuery(a) = extractQuery(b) /\ extractRequestTarget(a) = extractRequestTarget(b)
    BY <1>1, <1>2, <1>3 DEF extractQuery, extractRequestTarget, FromURL, u, x
  <1>7. extractQueryParam(a, c) = extractQueryParam(b, c)
    BY <1>2 DEF extractQueryParam
  <1>8. a.tls = b.tls => /\ extractScheme(a) = extractScheme(b)
                         /\ extractTargetURI(a) = extractTargetURI(b)
    <2> SUFFICES ASSUME a.tls = b.tls
                 PROVE  /\ extractScheme(a) = extractScheme(b)
                        /\ extractTargetURI(a) = extractTargetURI(b)
      OBVIOUS
    <2>1. /\ u.scheme = x.scheme /\ Hierarchy(u) = Hierarchy(x) /\ QueryPart(u) = QueryPart(x)
          /\ FragmentPart(u) = FragmentPart(x)
      BY <1>1 DEF Hierarchy, QueryPart, FragmentPart
    <2> QED
      BY <1>2, <1>3, <2>1 DEF extractScheme, extractTargetURI, FromURL, u, x
  <1> QED
    BY <1>4, <1>5, <1>6, <1>7, <1>8 DEF extractDerivedComponentValue

\* What has become of the request after it was sent: its URL, method, Host and
\* trailer are the ones the server reads; a field has its lines or the line they make.
Travelled ==
    LET v == ServerView(sent)
    IN  /\ sent.url # NoURL
        /\ seen = RequestOf(v.method, v.url, v.Host, seen.tls, seen.header, v.trailer)
        /\ seen.tls = v.tls \/ proxyTLS
        /\ DOMAIN sent.header \subseteq DOMAIN seen.header
        /\ \A name \in DOMAIN sent.header :
             seen.header[name] \in {sent.header[name], <<Combined(sent.header[name])>>}

TInv == /\ sent \in Requests
        /\ stage = "client" => seen = sent
        /\ stage # "client" => Travelled

\* One field of a request is written.
LEMMA FieldSet ==
    ASSUME NEW q, NEW method, NEW url, NEW host, NEW tls, NEW fields, NEW trailer,
           q = RequestOf(method, url, host, tls, fields, trailer)
    PROVE  /\ \A h : [q EXCEPT !.header = h] = RequestOf(method, url, host, tls, h, trailer)
           /\ \A t : [q EXCEPT !.tls = t] = RequestOf(method, url, host, t, fields, trailer)
  BY DEF RequestOf

LEMMA TStep == TInv /\ [TNext]_tvars => TInv'
  <1> SUFFICES ASSUME TInv, [TNext]_tvars PROVE TInv'
    OBVIOUS
  <1> DEFINE v == ServerView(sent)
  <1>1. CASE Send
    <2>1. stage' = "wire" /\ seen' = v /\ sent' = sent /\ sent.url # NoURL
      BY <1>1 DEF Send, TInv
    <2>2. RequestShape(sent)
      BY TransitAssumption DEF TInv
    <2>3. v = RequestOf(v.method, v.url, v.Host, v.tls, v.header, v.trailer)
      <3> DEFINE method == IF sent.method = "" THEN "GET" ELSE sent.method
                 host   == IF sent.Host # "" THEN sent.Host ELSE sent.url.host
                 tls    == sent.url.scheme = "https"
                 url    == ServerURL(sent.url)
      <3>1. v = RequestOf(method, url, host, tls, sent.header, sent.trailer)
        BY <2>2, ServerViewIs, Zenon
      <3> HIDE DEF v, method, host, tls, url
      <3> QED
        BY <3>1, RequestFields
    <2>4. v.header = sent.header
      BY <2>2, ServerKeepsHeader
    <2> HIDE DEF v
    <2>5. Travelled'
      BY <2>1, <2>3, <2>4 DEF Travelled, v
    <2> QED
      BY <2>1, <2>5 DEF TInv
  <1>2. ASSUME stage = "wire", sent' = sent, stage' # "client", Travelled => Travelled' PROVE TInv'
    BY <1>2 DEF TInv
  <1>3. CASE CombineLines
    <2>1. PICK name \in DOMAIN seen.header :
            /\ Len(seen.header[name]) > 1
            /\ seen' = [seen EXCEPT !.header[name] = <<Combined(@)>>]
      BY <1>3 DEF CombineLines
    <2>2. stage = "wire" /\ UNCHANGED <<sent, stage, proxyTLS>>
      BY <1>3 DEF CombineLines
    <2> DEFINE h == [seen.header EXCEPT ![name] = <<Combined(seen.header[name])>>]
    <2>3. Travelled
      BY <2>2 DEF TInv
    <2>4. seen' = [seen EXCEPT !.header = h]
      BY <2>1
    <2> HIDE DEF h, v
    <2>5. seen' = RequestOf(v.method, v.url, v.Host, seen.tls, h, v.trailer)
      BY <2>3, <2>4, FieldSet DEF Travelled, v
    <2>6. seen'.header = h /\ seen'.tls = seen.tls
      BY <2>5, RequestFields
    <2>7. /\ DOMAIN h = DOMAIN seen.header
          /\ \A n \in DOMAIN h : h[n] = IF n = name THEN <<Combined(seen.header[name])>>
                                        ELSE seen.header[n]
      BY <2>1 DEF h
    <2>8. ASSUME NEW n \in DOMAIN sent.header
          PROVE  h[n] \in {sent.header[n], <<Combined(sent.header[n])>>}
      <3>1. /\ n \in DOMAIN seen.header
            /\ seen.header[n] \in {sent.header[n], <<Combined(sent.header[n])>>}
        BY <2>3 DEF Travelled
      <3>2. \A x : ~(Len(<<x>>) > 1)
        OBVIOUS
      <3>3. n = name => seen.header[n] = sent.header[n]
        BY <2>1, <3>1, <3>2
      <3> QED
        BY <2>7, <3>1, <3>3
    <2>9. Travelled'
      BY <2>2, <2>3, <2>5, <2>6, <2>7, <2>8 DEF Travelled, v
    <2> QED
      BY <1>2, <2>2, <2>9
  <1>4. CASE AddField
    <2> DEFINE h == [n \in DOMAIN seen.header \cup {"Via"} |->
                       IF n = "Via" THEN << <<"p">> >> ELSE seen.header[n]]
    <2>1. /\ seen' = [seen EXCEPT !.header = h] /\ "Via" \notin DOMAIN seen.header
          /\ stage = "wire" /\ UNCHANGED <<sent, stage, proxyTLS>>
      BY <1>4 DEF AddField
    <2>2. Travelled
      BY <2>1 DEF TInv
    <2>3. /\ DOMAIN seen.header \subseteq DOMAIN h
          /\ \A n \in DOMAIN seen.header : h[n] = seen.header[n]
      BY <2>1
    <2> HIDE DEF h, v
    <2>4. seen' = RequestOf(v.method, v.url, v.Host, seen.tls, h, v.trailer)
      BY <2>1, <2>2, FieldSet DEF Travelled, v
    <2>5. seen'.header = h /\ seen'.tls = seen.tls
      BY <2>4, RequestFields
    <2>6. Travelled'
      BY <2>1, <2>2, <2>3, <2>4, <2>5 DEF Travelled, v
    <2> QED
      BY <1>2, <2>1, <2>6
  <1>5. CASE TerminateTLS
    <2>1. /\ seen' = [seen EXCEPT !.tls = FALSE] /\ proxyTLS' = TRUE
          /\ stage = "wire" /\ UNCHANGED <<sent, stage>>
      BY <1>5 DEF TerminateTLS
    <2>2. Travelled
      BY <2>1 DEF TInv
    <2> HIDE DEF v
    <2> DEFINE r == RequestOf(v.method, v.url, v.Host, FALSE, seen.header, v.trailer)
    <2>3. seen' = r
      <3>1. seen = RequestOf(v.method, v.url, v.Host, seen.tls, seen.header, v.trailer)
        BY <2>2 DEF Travelled, v
      <3>2. \A t : [seen EXCEPT !.tls = t] =
                    RequestOf(v.method, v.url, v.Host, t, seen.header, v.trailer)
        <4> DEFINE method == v.method
                   url == v.url
                   host == v.Host
                   tls == seen.tls
                   fields == seen.header
                   trailer == v.trailer
        <4>1. seen = RequestOf(method, url, host, tls, fields, trailer)
          BY <3>1
        <4> HIDE DEF method, url, host, tls, fields, trailer
        <4>2. \A t : [seen EXCEPT !.tls = t] = RequestOf(method, url, host, t, fields, trailer)
          BY ONLY <4>1, FieldSet
        <4> QED
          BY <4>2 DEF method, url, host, tls, fields, trailer
      <3> QED
        BY <2>1, <3>2
    <2>4. r.header = seen.header /\ r.tls = FALSE
      BY DEF RequestOf
    <2> HIDE DEF r
    <2>5. Travelled'
      BY <2>1, <2>2, <2>3, <2>4 DEF Travelled, v, r
    <2> QED
      BY <1>2, <2>1, <2>5
  <1>6. CASE Receive
    BY <1>2, <1>6 DEF Receive, Travelled
  <1>7. CASE UNCHANGED tvars
    BY <1>7 DEF tvars, TInv, Travelled
  <1> QED
    BY <1>1, <1>3, <1>4, <1>5, <1>6, <1>7 DEF TNext

\* Whatever intermediaries do, the server sees the request the client sent, in the
\* form that a server has it.
THEOREM TransitInvariant == TSpec => []TInv
  <1>1. TInit => TInv
    BY DEF TInit, TInv
  <1> QED
    BY <1>1, TStep, PTL DEF TSpec

\* A field that the client could extract has the same value on the server.
LEMMA FieldArrives ==
    ASSUME TInv, stage # "client", NoBlankLine(sent), NEW c,
           extractHTTPFieldValue(sent, c).ok
    PROVE  extractHTTPFieldValue(seen, c) = extractHTTPFieldValue(sent, c)
  <1> DEFINE v == ServerView(sent)
             p == parseHTTPFieldParams(c.params)
             name == CanonicalHeaderKey(c.name)
             raw == sent.header[name]
             S == Symbols(raw)
  <1>1. /\ v.header = sent.header /\ v.trailer = sent.trailer
        /\ seen.trailer = v.trailer
    <2>1. RequestShape(sent) /\ Travelled
      BY TransitAssumption DEF TInv
    <2>2. sent.url # NoURL
      BY <2>1 DEF Travelled
    <2>3. v.trailer = sent.trailer
      <3> DEFINE method == IF sent.method = "" THEN "GET" ELSE sent.method
                 host   == IF sent.Host # "" THEN sent.Host ELSE sent.url.host
                 tls    == sent.url.scheme = "https"
                 url    == ServerURL(sent.url)
      <3>1. v = RequestOf(method, url, host, tls, sent.header, sent.trailer)
        BY <2>1, ServerViewIs, Zenon
      <3> HIDE DEF v, method, host, tls, url
      <3> QED
        BY <3>1, RequestFields
    <2>4. v.header = sent.header
      BY <2>1, ServerKeepsHeader
    <2> HIDE DEF v
    <2>5. seen = RequestOf(v.method, v.url, v.Host, seen.tls, seen.header, v.trailer)
      BY <2>1 DEF Travelled, v
    <2>6. seen.trailer = v.trailer
      BY <2>5, RequestFields
    <2> QED
      BY <2>3, <2>4, <2>6
  <1>2. CASE p.isTrailer
    BY <1>1, <1>2 DEF extractHTTPFieldValue, TrailerValues
  <1>3. CASE ~p.isTrailer
    <2> HIDE DEF v, p
    <2> USE DEF p
    <2>1. /\ ~(p.useSF /\ p.useBS) /\ ~(p.keyName # "" /\ ~p.useSF)
          /\ Lines(sent.header, name) # <<>>
          /\ FieldText(p, canonicalizeFieldValues(Lines(sent.header, name))).ok
          /\ extractHTTPFieldValue(sent, c) =
               FieldText(p, canonicalizeFieldValues(Lines(sent.header, name)))
      <3> HIDE DEF p
      <3> DEFINE bad == \/ p.useSF /\ p.useBS
                        \/ p.keyName # "" /\ ~p.useSF
                        \/ Lines(sent.header, name) = <<>>
                 text == FieldText(p, canonicalizeFieldValues(Lines(sent.header, name)))
      <3>1. extractHTTPFieldValue(sent, c) = IF bad THEN Error ELSE text
        BY <1>3 DEF extractHTTPFieldValue, HeaderValues, p
      <3>2. ~Error.ok
        BY DEF Error
      <3> QED
        BY <3>1, <3>2
    <2>2. name \in DOMAIN sent.header /\ Lines(sent.header, name) = raw /\ raw # <<>>
      BY <2>1 DEF Lines
    <2>3. canonicalizeFieldValues(raw) # Invalid
      BY <2>1, <2>2 DEF FieldText, Error
    <2>4. /\ name \in DOMAIN seen.header
          /\ seen.header[name] \in {raw, <<Combined(raw)>>}
      BY <2>2 DEF TInv, Travelled
    <2>5. canonicalizeFieldValues(<<Combined(raw)>>) = canonicalizeFieldValues(raw)
      <3>1. raw \in Seq(Seq(S)) /\ S \cap (Newline \cup {"invalid"}) = {}
        BY <2>2, TransitAssumption DEF TInv
      <3>2. \A i \in 1..Len(raw) : \E k \in 1..Len(raw[i]) : raw[i][k] \notin Blank
        BY <2>2 DEF NoBlankLine
      <3> HIDE DEF raw, S
      <3> QED
        BY <2>2, <2>3, <3>1, <3>2, CombinedValue
    <2>6. /\ Lines(seen.header, name) = seen.header[name]
          /\ seen.header[name] # <<>>
          /\ canonicalizeFieldValues(seen.header[name]) = canonicalizeFieldValues(raw)
      <3>1. <<Combined(raw)>> # <<>>
        OBVIOUS
      <3> QED
        BY <2>2, <2>4, <2>5, <3>1 DEF Lines
    <2> HIDE DEF p, raw
    <2>7. extractHTTPFieldValue(seen, c) =
            FieldText(p, canonicalizeFieldValues(Lines(seen.header, name)))
      <3> DEFINE bad == \/ p.useSF /\ p.useBS
                        \/ p.keyName # "" /\ ~p.useSF
                        \/ Lines(seen.header, name) = <<>>
                 text == FieldText(p, canonicalizeFieldValues(Lines(seen.header, name)))
      <3>1. extractHTTPFieldValue(seen, c) = IF bad THEN Error ELSE text
        BY <1>3 DEF extractHTTPFieldValue, HeaderValues, p
      <3>2. ~bad
        BY <2>1, <2>6
      <3> QED
        BY <3>1, <3>2
    <2> QED
      BY <2>1, <2>2, <2>6, <2>7
  <1> QED
    BY <1>2, <1>3

\* A derived component has the value the client's request has.
LEMMA DerivedArrives ==
    ASSUME TInv, stage # "client", Portable(sent), NEW c, SchemeSafe(c), URISafe(c, sent),
           c.type = "derived"
    PROVE  extractDerivedComponentValue(seen, c) = extractDerivedComponentValue(sent, c)
  <1> DEFINE v == ServerView(sent)
  <1>1. RequestShape(sent) /\ Travelled
    BY TransitAssumption DEF TInv
  <1>2. /\ v.kind = "request" /\ v.url = ServerURL(sent.url) /\ ServerURL(sent.url) # NoURL
    <2>1. v.kind = "request" /\ v.url = ServerURL(sent.url)
      BY <1>1, ResolvedURL
    <2>2. ServerURL(sent.url) # NoURL
      BY <1>1 DEF RequestShape, Portable
    <2> QED
      BY <2>1, <2>2
  <1>3. ExtractHere(v, c) = ExtractHere(sent, c)
    BY <1>1, SameAtServer
  <1> HIDE DEF v
  <1>4. /\ seen.kind = "request" /\ seen.url = v.url /\ seen.method = v.method
        /\ seen.Host = v.Host
    <2>1. seen = RequestOf(v.method, v.url, v.Host, seen.tls, seen.header, v.trailer)
      BY <1>1 DEF Travelled, v
    <2> QED
      BY <2>1, RequestFields
  <1>5. seen.tls = v.tls \/ c.name \notin {"@scheme", "@target-uri"}
    BY <1>1 DEF Travelled, SchemeSafe, v
  <1>6. extractDerivedComponentValue(seen, c) = extractDerivedComponentValue(v, c)
    BY <1>2, <1>4, <1>5, SameOnServer
  <1>7. \A m : ExtractHere(m, c) = extractDerivedComponentValue(m, c)
    BY DEF ExtractHere
  <1> QED
    BY <1>3, <1>6, <1>7

\* Every component of a portable request that the client could extract is extracted
\* from the server's request with the same value (WrapRequest, resolveRequestURL).
THEOREM ComponentsArrive == TSpec => []ComponentsSurvive
  <1>1. TInv => ComponentsSurvive
    <2> SUFFICES ASSUME TInv, NEW c \in Components, stage = "server", Portable(sent),
                        NoBlankLine(sent), SchemeSafe(c), URISafe(c, sent),
                        extractComponentValue(sent, c).ok
                 PROVE  extractComponentValue(seen, c) = extractComponentValue(sent, c)
      BY DEF ComponentsSurvive
    <2>1. sent.kind = "request"
      <3>1. sent = RequestOf(sent.method, sent.url, sent.Host, sent.tls, sent.header, sent.trailer)
        BY TransitAssumption DEF TInv, RequestShape, RequestOf
      <3> QED
        BY <3>1, RequestFields
    <2>2. ~Error.ok
      BY DEF Error
    <2>3. ~hasReqParameter(c)
      BY <2>1, <2>2 DEF extractComponentValue, extractFromRelatedRequest, IsResponse
    <2>4. ExtractHere(sent, c).ok
      BY <2>3 DEF extractComponentValue
    <2>5. CASE c.type = "field"
      BY <2>3, <2>4, <2>5, FieldArrives DEF ExtractHere, extractComponentValue
    <2>6. CASE c.type = "derived"
      BY <2>3, <2>6, DerivedArrives DEF ExtractHere, extractComponentValue
    <2>7. c.type = "field" \/ c.type = "derived"
      BY <2>2, <2>4 DEF ExtractHere
    <2> QED
      BY <2>5, <2>6, <2>7
  <1> QED
    BY <1>1, TransitInvariant, PTL

-----------------------------------------------------------------------------
(* What a covered @target-uri covers.                                      *)

\* The query string of a URL is made of its atoms.
QueryTokens(q) == Atoms(q) \cup {"&", "=", "?"}

LEMMA RawQueryTokens ==
    ASSUME NEW q, q \in Seq(Atoms(q) \X Atoms(q))
    PROVE  RawQuery(q) \in Seq(QueryTokens(q))
  <1> DEFINE T == QueryTokens(q)
             pair(i) == (IF i = 1 THEN <<>> ELSE <<"&">>) \o <<q[i][1], "=", q[i][2]>>
             v == [i \in 1..Len(q) |-> pair(i)]
  <1>1. ASSUME NEW i \in 1..Len(q) PROVE pair(i) \in Seq(T)
    <2>1. q[i][1] \in T /\ q[i][2] \in T /\ "=" \in T /\ "&" \in T
      BY DEF QueryTokens
    <2>2. \A a, b, c \in T : <<a, b, c>> \in Seq(T) /\ <<b>> \in Seq(T)
      OBVIOUS
    <2> HIDE DEF T
    <2>3. <<>> \in Seq(T)
      OBVIOUS
    <2>4. \A x, y \in Seq(T) : x \o y \in Seq(T)
      OBVIOUS
    <2> QED
      BY <2>1, <2>2, <2>3, <2>4
  <1> HIDE DEF T, pair
  <1>2. v \in Seq(Seq(T)) /\ Len(v) = Len(q)
    BY <1>1
  <1>3. RawQuery(q) = FlattenSeq(v)
    BY DEF RawQuery, pair
  <1> HIDE DEF v
  <1>4. PICK h : /\ FlattenSeq(v) = h[Len(v)]
                 /\ \A n \in 0..Len(v) : h[n] \in Seq(T)
    BY <1>2, FlatSteps
  <1>5. Len(v) \in 0..Len(v)
    BY <1>2
  <1>6. h[Len(v)] \in Seq(T)
    BY <1>4, <1>5
  <1> QED
    BY <1>3, <1>4, <1>6 DEF T

\* s followed by x, position by position.
Joint(s, x) ==
    /\ Len(s) \in Nat /\ Len(x) \in Nat /\ Len(s \o x) = Len(s) + Len(x)
    /\ \A i \in 1..Len(s) : (s \o x)[i] = s[i]
    /\ \A i \in 1..Len(x) : (s \o x)[Len(s) + i] = x[i]

LEMMA Joining ==
    ASSUME NEW S, NEW s \in Seq(S), NEW x \in Seq(S)
    PROVE  Joint(s, x)
  BY DEF Joint

LEMMA JointFirst ==
    ASSUME NEW s, NEW x, Joint(s, x), Len(x) > 0
    PROVE  (s \o x)[Len(s) + 1] = x[1]
  <1>1. 1 \in 1..Len(x)
    BY DEF Joint
  <1> QED
    BY <1>1 DEF Joint

\* A text ends before the first mark in it.
Marked(x, mark) == x = <<>> \/ \E f : x = <<mark, f>>

LEMMA EndsAtMark ==
    ASSUME NEW T, NEW mark, mark \notin T, NEW a \in Seq(T), NEW b \in Seq(T),
           NEW x, Marked(x, mark), NEW y, Marked(y, mark), a \o x = b \o y
    PROVE  a = b
  <1>a. PICK f : x = <<>> \/ x = <<mark, f>>
    BY DEF Marked
  <1>b. PICK g : y = <<>> \/ y = <<mark, g>>
    BY DEF Marked
  <1> DEFINE S == T \cup {mark, f, g}
  <1>1. a \in Seq(S) /\ b \in Seq(S) /\ Len(a) \in Nat /\ Len(b) \in Nat
    BY SeqMonotonic
  <1>2. x \in Seq(S) /\ y \in Seq(S)
    <2>1. \A p, q \in S : <<p, q>> \in Seq(S)
      OBVIOUS
    <2>2. <<>> \in Seq(S) /\ mark \in S /\ f \in S /\ g \in S
      OBVIOUS
    <2> HIDE DEF S
    <2> QED
      BY <2>1, <2>2, <1>a, <1>b
  <1>3. /\ \A i \in 1..Len(a) : a[i] \in T
        /\ \A i \in 1..Len(b) : b[i] \in T
    OBVIOUS
  <1>4. /\ Len(x) > 0 => x[1] = mark
        /\ Len(y) > 0 => y[1] = mark
    BY <1>a, <1>b
  <1> HIDE DEF S
  <1>5. /\ \A i \in 1..Len(a) : (a \o x)[i] = a[i]
        /\ \A i \in 1..Len(b) : (b \o y)[i] = b[i]
        /\ Len(a \o x) = Len(a) + Len(x) /\ Len(b \o y) = Len(b) + Len(y)
        /\ Len(x) > 0 => (a \o x)[Len(a) + 1] = x[1]
        /\ Len(y) > 0 => (b \o y)[Len(b) + 1] = y[1]
        /\ Len(x) \in Nat /\ Len(y) \in Nat
    <2>1. Joint(a, x) /\ Joint(b, y)
      BY <1>1, <1>2, Joining
    <2>2. /\ Len(x) > 0 => (a \o x)[Len(a) + 1] = x[1]
          /\ Len(y) > 0 => (b \o y)[Len(b) + 1] = y[1]
      BY ONLY <2>1, JointFirst
    <2>3. /\ \A i \in 1..Len(a) : (a \o x)[i] = a[i]
          /\ Len(a \o x) = Len(a) + Len(x) /\ Len(x) \in Nat
      BY ONLY <2>1, Zenon DEF Joint
    <2>4. /\ \A i \in 1..Len(b) : (b \o y)[i] = b[i]
          /\ Len(b \o y) = Len(b) + Len(y) /\ Len(y) \in Nat
      BY ONLY <2>1, Zenon DEF Joint
    <2> QED
      BY ONLY <2>2, <2>3, <2>4
  <1>6. ~(Len(a) < Len(b))
    <2> SUFFICES ASSUME Len(a) < Len(b) PROVE FALSE
      OBVIOUS
    <2>1. Len(x) > 0 /\ Len(a) + 1 \in 1..Len(b)
      BY <1>1, <1>5
    <2> QED
      BY <2>1, <1>3, <1>4, <1>5
  <1>7. ~(Len(b) < Len(a))
    <2> SUFFICES ASSUME Len(b) < Len(a) PROVE FALSE
      OBVIOUS
    <2>1. Len(y) > 0 /\ Len(b) + 1 \in 1..Len(a)
      BY <1>1, <1>5
    <2> QED
      BY <2>1, <1>3, <1>4, <1>5
  <1>8. Len(a) = Len(b) /\ \A i \in 1..Len(a) : a[i] = b[i]
    BY <1>1, <1>5, <1>6, <1>7
  <1> QED
    BY <1>8, SeqEqual

\* A fixed start is cut off both sides.
LEMMA SameStart ==
    ASSUME NEW S, NEW x \in Seq(S), NEW y \in Seq(S), NEW s \in Seq(S), NEW t \in Seq(S),
           Len(s) = Len(t), s \o x = t \o y
    PROVE  s = t /\ x = y
  <1>1. Joint(s, x) /\ Joint(t, y)
    BY Joining
  <1>2. Len(x) = Len(y)
    BY <1>1 DEF Joint
  <1>3. /\ \A i \in 1..Len(s) : (s \o x)[i] = s[i] /\ (t \o y)[i] = t[i]
        /\ \A i \in 1..Len(x) : (s \o x)[Len(s) + i] = x[i] /\ (t \o y)[Len(t) + i] = y[i]
    BY <1>1, <1>2 DEF Joint
  <1>4. \A i \in 1..Len(s) : s[i] = t[i]
    BY <1>3
  <1>5. \A i \in 1..Len(x) : x[i] = y[i]
    BY <1>2, <1>3
  <1> QED
    BY <1>2, <1>4, <1>5, SeqEqual

LEMMA QueryPartTokens ==
    ASSUME NEW u, u.query \in Seq(Atoms(u.query) \X Atoms(u.query))
    PROVE  QueryPart(u) \in Seq(QueryTokens(u.query))
  <1> DEFINE T == QueryTokens(u.query)
             r == RawQuery(u.query)
  <1>1. r \in Seq(T)
    BY RawQueryTokens
  <1>2. "?" \in T
    BY DEF QueryTokens
  <1> HIDE DEF r, T
  <1>3. <<"?">> \o r \in Seq(T) /\ <<>> \in Seq(T)
    BY <1>1, <1>2
  <1> QED
    BY <1>3 DEF QueryPart, r, T

LEMMA ValueOf ==
    ASSUME NEW m
    PROVE  /\ Value(m, "@target-uri") = extractTargetURI(m)
           /\ Value(m, "@scheme") = extractScheme(m)
           /\ Value(m, "@authority") = extractAuthority(m)
           /\ Value(m, "@path") = extractPath(m)
           /\ Value(m, "@query") = extractQuery(m)
           /\ Value(m, "@request-target") = extractRequestTarget(m)
  <1>1. \A name : ~hasReqParameter(DerivedComponent(name))
    BY DEF hasReqParameter, DerivedComponent
  <1>2. \A name : Value(m, name) = extractDerivedComponentValue(m, DerivedComponent(name))
    BY <1>1 DEF Value, extractComponentValue, ExtractHere, DerivedComponent
  <1>3. \A name : DerivedComponent(name).name = name
    BY DEF DerivedComponent
  <1> QED
    BY <1>2, <1>3 DEF extractDerivedComponentValue

\* What is extracted of a request with a URL.
URIText(u)    == (Hierarchy(u) \o QueryPart(u)) \o FragmentPart(u)
TargetText(u) == <<PathOrSlash(u)>> \o QueryPart(u)

LEMMA URLValues ==
    ASSUME NEW m, m.kind = "request", m.url # NoURL
    PROVE  LET u == resolveRequestURL(m)
           IN  /\ extractTargetURI(m) = Ok(URIText(u))
               /\ extractScheme(m) = Ok(<<u.scheme>>)
               /\ extractAuthority(m) = Ok(<<u.host>>)
               /\ extractPath(m) = Ok(<<PathOrSlash(u)>>)
               /\ extractQuery(m) = Ok(<<"?">> \o RawQuery(u.query))
               /\ u.query = <<>> => extractRequestTarget(m) = Ok(<<PathOrSlash(u)>>)
               /\ u.query # <<>> =>
                    extractRequestTarget(m) = Ok(<<PathOrSlash(u), "?">> \o RawQuery(u.query))
  BY DEF extractTargetURI, extractScheme, extractAuthority, extractPath, extractQuery,
         extractRequestTarget, FromURL, IsRequest, URIText

LEMMA TextOf == \A x, y : Ok(x) = Ok(y) => x = y
  BY DEF Ok

\* RawQuery of no pairs.
LEMMA NoQuery == RawQuery(<<>>) = <<>>
  BY DEF RawQuery, FlattenSeq

\* RawQuery of pairs.
LEMMA SomeQuery ==
    ASSUME NEW q, q \in Seq(Atoms(q) \X Atoms(q)), q # <<>>
    PROVE  RawQuery(q) # <<>>
  <1> DEFINE T == QueryTokens(q)
             pair(i) == (IF i = 1 THEN <<>> ELSE <<"&">>) \o <<q[i][1], "=", q[i][2]>>
             v == [i \in 1..Len(q) |-> pair(i)]
  <1>1. ASSUME NEW i \in 1..Len(q) PROVE pair(i) \in Seq(T) /\ Len(pair(i)) > 0
    <2>1. q[i][1] \in T /\ q[i][2] \in T /\ "=" \in T /\ "&" \in T
      BY DEF QueryTokens
    <2>2. \A a, b, c \in T : <<a, b, c>> \in Seq(T) /\ <<b>> \in Seq(T) /\ Len(<<a, b, c>>) = 3
      OBVIOUS
    <2> HIDE DEF T
    <2>3. <<>> \in Seq(T)
      OBVIOUS
    <2>4. \A x, y \in Seq(T) : x \o y \in Seq(T) /\ Len(x \o y) = Len(x) + Len(y)
      OBVIOUS
    <2>5. \A x \in Seq(T) : Len(x) >= 0
      OBVIOUS
    <2> QED
      BY <2>1, <2>2, <2>3, <2>4, <2>5
  <1> HIDE DEF T, pair
  <1>2. /\ v \in Seq(Seq(T)) /\ Len(v) = Len(q) /\ Len(q) \in Nat \ {0}
        /\ \A i \in 1..Len(v) : Len(v[i]) > 0
    BY <1>1
  <1>3. RawQuery(q) = FlattenSeq(v)
    BY DEF RawQuery, pair
  <1> HIDE DEF v
  <1>4. PICK h : /\ Flattens(h, v) /\ FlattenSeq(v) = h[Len(v)]
                 /\ \A n \in 0..Len(v) : h[n] \in Seq(T)
    BY <1>2, FlatSteps
  <1> DEFINE n == Len(v)
  <1>5. n \in 1..Len(v) /\ n \in 0..Len(v) /\ n - 1 \in 0..Len(v)
    BY <1>2
  <1>6. h[n] = h[n - 1] \o v[n] /\ h[n - 1] \in Seq(T) /\ v[n] \in Seq(T) /\ Len(v[n]) > 0
    <2>1. h[n] = h[n - 1] \o v[n]
      BY <1>4, <1>5 DEF Flattens
    <2>2. h[n - 1] \in Seq(T)
      BY <1>4, <1>5
    <2> HIDE DEF n
    <2>3. v[n] \in Seq(T) /\ Len(v[n]) > 0
      BY <1>2, <1>5
    <2> QED
      BY <2>1, <2>2, <2>3
  <1>7. \A x, y \in Seq(T) : Len(y) > 0 => x \o y # <<>>
    OBVIOUS
  <1> HIDE DEF n
  <1>8. h[n] # <<>>
    BY <1>6, <1>7
  <1> QED
    BY <1>3, <1>4, <1>8 DEF n

\* The part of a URL after the path says what the query is.
LEMMA QueryOf ==
    ASSUME NEW u, u.query \in Seq(Atoms(u.query) \X Atoms(u.query)),
           NEW x, x.query \in Seq(Atoms(x.query) \X Atoms(x.query)),
           QueryPart(u) = QueryPart(x)
    PROVE  /\ u.query = <<>> <=> x.query = <<>>
           /\ RawQuery(u.query) = RawQuery(x.query)
  <1> DEFINE r == RawQuery(u.query)
             s == RawQuery(x.query)
             S == QueryTokens(u.query) \cup QueryTokens(x.query)
  <1>1. r \in Seq(S) /\ s \in Seq(S) /\ <<"?">> \in Seq(S)
    <2>1. r \in Seq(QueryTokens(u.query)) /\ s \in Seq(QueryTokens(x.query))
      BY RawQueryTokens
    <2>2. "?" \in S
      BY DEF QueryTokens
    <2>3. QueryTokens(u.query) \subseteq S /\ QueryTokens(x.query) \subseteq S
      OBVIOUS
    <2> HIDE DEF r, s, S
    <2> QED
      BY <2>1, <2>2, <2>3, SeqMonotonic
  <1>2. /\ u.query = <<>> <=> r = <<>>
        /\ x.query = <<>> <=> s = <<>>
        /\ (QueryPart(u) = <<>> /\ r = <<>>) \/ QueryPart(u) = <<"?">> \o r
        /\ (QueryPart(x) = <<>> /\ s = <<>>) \/ QueryPart(x) = <<"?">> \o s
    BY NoQuery, SomeQuery DEF QueryPart
  <1> HIDE DEF r, s, S
  <1>3. /\ Joint(<<"?">>, r) /\ Joint(<<"?">>, s)
    BY <1>1, Joining
  <1>4. <<"?">> \o r # <<>> /\ <<"?">> \o s # <<>>
    BY <1>3 DEF Joint
  <1>5. ASSUME <<"?">> \o r = <<"?">> \o s PROVE r = s
    BY <1>1, <1>5, SameStart
  <1>6. r = s
    BY <1>2, <1>4, <1>5
  <1> QED
    BY <1>2, <1>6 DEF r, s

\* Short texts, and texts in one.
LEMMA ShortTexts ==
    ASSUME NEW S
    PROVE  /\ <<>> \in Seq(S)
           /\ \A c, d \in S : <<c, d>> \in Seq(S)
           /\ \A c, d, e, h, i \in S : <<c, d, e, h, i>> \in Seq(S)
           /\ \A v, w \in Seq(S) : v \o w \in Seq(S)
  OBVIOUS

\* extractTargetURI: the text says where each piece of the URL ends.
LEMMA URITextComplete ==
    ASSUME NEW u, u.query \in Seq(Atoms(u.query) \X Atoms(u.query)),
           NEW x, x.query \in Seq(Atoms(x.query) \X Atoms(x.query)),
           "#" \notin Atoms(u.query), "#" \notin Atoms(x.query),
           u.opaque = "", x.opaque = "", URIText(u) = URIText(x)
    PROVE  /\ u.scheme = x.scheme /\ u.host = x.host /\ u.path = x.path
           /\ QueryPart(u) = QueryPart(x)
  <1> DEFINE T == QueryTokens(u.query) \cup QueryTokens(x.query)
             P == {u.scheme, u.user, u.host, u.path, x.scheme, x.user, x.host, x.path, "://"}
             S == T \cup P \cup {"#", u.fragment, x.fragment}
             s == <<u.scheme, "://", u.user, u.host, u.path>>
             t == <<x.scheme, "://", x.user, x.host, x.path>>
             a == QueryPart(u)
             b == QueryPart(x)
             f == FragmentPart(u)
             g == FragmentPart(x)
  <1>1. a \in Seq(T) /\ b \in Seq(T)
    <2>1. a \in Seq(QueryTokens(u.query)) /\ b \in Seq(QueryTokens(x.query))
      BY QueryPartTokens
    <2> HIDE DEF a, b
    <2> QED
      BY <2>1, SeqMonotonic
  <1>2. "#" \notin T
    BY DEF QueryTokens
  <1>3. /\ f = <<>> \/ f = <<"#", u.fragment>>
        /\ g = <<>> \/ g = <<"#", x.fragment>>
    BY DEF FragmentPart
  <1>4. s \in Seq(S) /\ t \in Seq(S) /\ Len(s) = Len(t)
    <2>1. {u.scheme, u.user, u.host, u.path, x.scheme, x.user, x.host, x.path, "://"} \subseteq S
      OBVIOUS
    <2> HIDE DEF S
    <2>2. \A c, d, e, h, i \in S : <<c, d, e, h, i>> \in Seq(S)
      BY ONLY ShortTexts
    <2>3. Len(s) = 5 /\ Len(t) = 5
      OBVIOUS
    <2> QED
      BY <2>1, <2>2, <2>3
  <1>5. f \in Seq(S) /\ g \in Seq(S)
    <2>1. {"#", u.fragment, x.fragment} \subseteq S
      OBVIOUS
    <2> HIDE DEF S, f, g
    <2>2. /\ \A c, d \in S : <<c, d>> \in Seq(S)
          /\ <<>> \in Seq(S)
      BY ONLY ShortTexts
    <2> QED
      BY ONLY <2>1, <2>2, <1>3
  <1>6. T \subseteq S
    OBVIOUS
  <1>7. (s \o a) \o f = (t \o b) \o g
    BY DEF URIText, Hierarchy
  <1>8. s = t => u.scheme = x.scheme /\ u.host = x.host /\ u.path = x.path
    OBVIOUS
  <1> HIDE DEF T, S, P, s, t, a, b, f, g
  <1>9. a \in Seq(S) /\ b \in Seq(S)
    BY <1>1, <1>6, SeqMonotonic
  <1>10. s \o (a \o f) = t \o (b \o g)
    <2>1. \A c, d, e \in Seq(S) : (c \o d) \o e = c \o (d \o e)
      BY ONLY ConcatAssociative
    <2>2. (s \o a) \o f = s \o (a \o f) /\ (t \o b) \o g = t \o (b \o g)
      BY ONLY <1>4, <1>5, <1>9, <2>1
    <2> QED
      BY <1>7, <2>2
  <1>11. a \o f \in Seq(S) /\ b \o g \in Seq(S)
    BY ONLY <1>5, <1>9, ShortTexts
  <1>12. s = t /\ a \o f = b \o g
    <2> DEFINE k == a \o f
               l == b \o g
    <2>1. k \in Seq(S) /\ l \in Seq(S) /\ s \o k = t \o l
      BY <1>10, <1>11
    <2> HIDE DEF k, l
    <2>2. s = t /\ k = l
      BY ONLY <1>4, <2>1, SameStart
    <2> QED
      BY <2>2 DEF k, l
  <1>13. a = b
    <2>1. Marked(f, "#") /\ Marked(g, "#")
      BY <1>3 DEF Marked
    <2> QED
      BY <1>1, <1>2, <2>1, <1>12, EndsAtMark
  <1> QED
    BY <1>8, <1>12, <1>13 DEF a, b

\* extractRequestTarget writes the path and the query part.
Reach(u) == QueryTokens(u.query) \cup {PathOrSlash(u)}

LEMMA TargetIs ==
    ASSUME NEW u, u.query \in Seq(Atoms(u.query) \X Atoms(u.query)), ~u.forceQuery, NEW m,
           u.query = <<>> => extractRequestTarget(m) = Ok(<<PathOrSlash(u)>>),
           u.query # <<>> =>
             extractRequestTarget(m) = Ok(<<PathOrSlash(u), "?">> \o RawQuery(u.query))
    PROVE  /\ extractRequestTarget(m) = Ok(TargetText(u)) /\ TargetText(u) \in Seq(Reach(u))
           /\ QueryPart(u) \in Seq(Reach(u)) /\ PathOrSlash(u) \in Reach(u)
  <1> DEFINE p == PathOrSlash(u)
             S == Reach(u)
             r == RawQuery(u.query)
             k == QueryPart(u)
  <1>1. r \in Seq(S) /\ k \in Seq(S)
    <2>1. r \in Seq(QueryTokens(u.query)) /\ k \in Seq(QueryTokens(u.query))
      BY RawQueryTokens, QueryPartTokens
    <2>2. QueryTokens(u.query) \subseteq S
      BY DEF Reach
    <2> HIDE DEF r, k, S
    <2> QED
      BY <2>1, <2>2, SeqMonotonic
  <1>2. p \in S /\ "?" \in S
    BY DEF Reach, QueryTokens
  <1>3. /\ u.query = <<>> => k = <<>>
        /\ u.query # <<>> => k = <<"?">> \o r
    BY DEF QueryPart
  <1>4. TargetText(u) = <<p>> \o k
    BY DEF TargetText
  <1> HIDE DEF p, S, r, k
  <1>5. <<p>> \in Seq(S) /\ <<"?">> \in Seq(S)
    BY <1>2
  <1>6. <<p>> \o <<>> = <<p>> /\ <<p>> \o <<"?">> = <<p, "?">>
    <2> DEFINE s == <<p>>
               t == <<"?">>
               z == <<p, "?">>
    <2>1. /\ s \in Seq(S) /\ Len(s) = 1 /\ s[1] = p
          /\ t \in Seq(S) /\ Len(t) = 1 /\ t[1] = "?"
          /\ Len(z) = 2 /\ z[1] = p /\ z[2] = "?"
      BY <1>5
    <2>2. z \in Seq(S)
      BY <1>2
    <2> HIDE DEF s, t, z
    <2>3. s \o <<>> = s
      BY <2>1, ConcatEmptySeq
    <2>4. /\ \A i \in 1..Len(s) : z[i] = s[i]
          /\ \A i \in 1..Len(t) : z[Len(s) + i] = t[i]
          /\ Len(z) = Len(s) + Len(t)
      BY <2>1
    <2>5. s \o t = z
      BY <2>1, <2>2, <2>4, Concatenation
    <2> QED
      BY <2>3, <2>5 DEF s, t, z
  <1>7. <<p, "?">> \o r = <<p>> \o (<<"?">> \o r)
    <2> DEFINE s == <<p>>
               t == <<"?">>
    <2>1. s \in Seq(S) /\ t \in Seq(S) /\ s \o t = <<p, "?">>
      BY <1>5, <1>6
    <2> HIDE DEF s, t
    <2>2. \A c, d, e \in Seq(S) : (c \o d) \o e = c \o (d \o e)
      BY ONLY ConcatAssociative
    <2>3. (s \o t) \o r = s \o (t \o r)
      BY ONLY <1>1, <2>1, <2>2
    <2> QED
      BY <2>1, <2>3 DEF s, t
  <1>8. <<p>> \o k \in Seq(S)
    BY <1>1, <1>5
  <1>9. /\ u.query = <<>> => extractRequestTarget(m) = Ok(<<p>> \o k)
        /\ u.query # <<>> => extractRequestTarget(m) = Ok(<<p>> \o k)
    <2>1. /\ u.query = <<>> => extractRequestTarget(m) = Ok(<<p>>)
          /\ u.query # <<>> => extractRequestTarget(m) = Ok(<<p, "?">> \o r)
      BY DEF p, r
    <2> QED
      BY <2>1, <1>3, <1>6, <1>7
  <1> QED
    BY <1>1, <1>2, <1>4, <1>8, <1>9 DEF p, S, r, k

LEMMA PathAgain == \A u, x : u.path = ServerURL(x).path => PathOrSlash(u) = u.path
  BY DEF PathOrSlash, ServerURL

\* A request with a URL: what resolveRequestURL keeps of it.
LEMMA ResolvedQuery ==
    ASSUME NEW q \in Requests, q.url # NoURL
    PROVE  LET u == resolveRequestURL(q)
           IN  /\ q.kind = "request" /\ u.query = q.url.query
               /\ q.url.opaque = "" => u.opaque = ""
               /\ u.query \in Seq(Atoms(u.query) \X Atoms(u.query))
               /\ "#" \notin Atoms(u.query)
  <1> DEFINE w == q.url
             u == resolveRequestURL(q)
  <1>1. q.kind = "request"
    <2>1. q = RequestOf(q.method, q.url, q.Host, q.tls, q.header, q.trailer)
      BY TransitAssumption DEF RequestShape, RequestOf
    <2> QED
      BY <2>1, RequestFields
  <1>2. u = w \/ \E scheme, host : u = URLFrom(w, scheme, host)
    BY DEF resolveRequestURL
  <1>3. w.query \in Seq(Atoms(w.query) \X Atoms(w.query)) /\ "#" \notin Atoms(w.query)
    BY TransitAssumption
  <1> HIDE DEF w, u
  <1>4. u.query = w.query /\ (w.opaque = "" => u.opaque = "")
    <2>1. \A scheme, host : /\ URLFrom(w, scheme, host).query = w.query
                            /\ URLFrom(w, scheme, host).opaque = ""
      BY DEF URLFrom
    <2> QED
      BY <1>2, <2>1
  <1>5. /\ u.query \in Seq(Atoms(u.query) \X Atoms(u.query))
        /\ "#" \notin Atoms(u.query)
    BY <1>3, <1>4
  <1> QED
    BY <1>1, <1>4, <1>5 DEF u, w

\* Two requests with the same @target-uri.
LEMMA SameTargetURI ==
    ASSUME NEW a \in Requests, a.url # NoURL, NEW b \in Requests, b.url # NoURL,
           a.url.opaque = "", b.url.opaque = "", extractTargetURI(a) = extractTargetURI(b)
    PROVE  /\ extractScheme(a) = extractScheme(b)
           /\ extractAuthority(a) = extractAuthority(b)
           /\ extractPath(a) = extractPath(b)
           /\ extractQuery(a) = extractQuery(b)
           /\ extractRequestTarget(a) = extractRequestTarget(b)
  <1> DEFINE u == resolveRequestURL(a)
             x == resolveRequestURL(b)
  <1>1. /\ a.kind = "request" /\ u.query \in Seq(Atoms(u.query) \X Atoms(u.query))
        /\ "#" \notin Atoms(u.query) /\ u.opaque = ""
        /\ b.kind = "request" /\ x.query \in Seq(Atoms(x.query) \X Atoms(x.query))
        /\ "#" \notin Atoms(x.query) /\ x.opaque = ""
    BY ResolvedQuery
  <1>2. /\ extractTargetURI(a) = Ok(URIText(u)) /\ extractScheme(a) = Ok(<<u.scheme>>)
        /\ extractAuthority(a) = Ok(<<u.host>>) /\ extractPath(a) = Ok(<<PathOrSlash(u)>>)
        /\ extractQuery(a) = Ok(<<"?">> \o RawQuery(u.query))
        /\ u.query = <<>> => extractRequestTarget(a) = Ok(<<PathOrSlash(u)>>)
        /\ u.query # <<>> =>
             extractRequestTarget(a) = Ok(<<PathOrSlash(u), "?">> \o RawQuery(u.query))
    BY <1>1, URLValues
  <1>3. /\ extractTargetURI(b) = Ok(URIText(x)) /\ extractScheme(b) = Ok(<<x.scheme>>)
        /\ extractAuthority(b) = Ok(<<x.host>>) /\ extractPath(b) = Ok(<<PathOrSlash(x)>>)
        /\ extractQuery(b) = Ok(<<"?">> \o RawQuery(x.query))
        /\ x.query = <<>> => extractRequestTarget(b) = Ok(<<PathOrSlash(x)>>)
        /\ x.query # <<>> =>
             extractRequestTarget(b) = Ok(<<PathOrSlash(x), "?">> \o RawQuery(x.query))
    BY <1>1, URLValues
  <1> HIDE DEF u, x
  <1>4. URIText(u) = URIText(x)
    BY <1>2, <1>3, TextOf
  <1>5. /\ u.scheme = x.scheme /\ u.host = x.host /\ u.path = x.path
        /\ QueryPart(u) = QueryPart(x)
    BY <1>1, <1>4, URITextComplete
  <1>6. /\ u.query = <<>> <=> x.query = <<>>
        /\ RawQuery(u.query) = RawQuery(x.query)
    BY <1>1, <1>5, QueryOf
  <1>7. PathOrSlash(u) = PathOrSlash(x)
    BY <1>5 DEF PathOrSlash
  <1> QED
    BY <1>2, <1>3, <1>5, <1>6, <1>7

\* The pieces of two requests on the server.
LEMMA SamePieces ==
    ASSUME NEW a \in Requests, a.url # NoURL, NEW b \in Requests, b.url # NoURL,
           LET v == ServerView(a)
               w == ServerView(b)
           IN  /\ extractScheme(v) = extractScheme(w)
               /\ extractAuthority(v) = extractAuthority(w)
               /\ extractRequestTarget(v) = extractRequestTarget(w)
    PROVE  extractTargetURI(ServerView(a)) = extractTargetURI(ServerView(b))
  <1> DEFINE v == ServerView(a)
             w == ServerView(b)
             u == resolveRequestURL(v)
             x == resolveRequestURL(w)
  <1>1. ASSUME NEW q \in Requests, q.url # NoURL
        PROVE  LET m == ServerView(q)
                   y == resolveRequestURL(m)
               IN  /\ m.kind = "request" /\ m.url # NoURL
                   /\ y.query \in Seq(Atoms(y.query) \X Atoms(y.query))
                   /\ PathOrSlash(y) = y.path /\ y.fragment = ""
                   /\ y.opaque = "" /\ y.user = "" /\ ~y.forceQuery
    <2> DEFINE m == ServerView(q)
               y == resolveRequestURL(m)
    <2>1. m.kind = "request" /\ m.url = ServerURL(q.url)
      <3> DEFINE method == IF q.method = "" THEN "GET" ELSE q.method
                 host   == IF q.Host # "" THEN q.Host ELSE q.url.host
                 tls    == q.url.scheme = "https"
                 url    == ServerURL(q.url)
      <3>1. RequestShape(q)
        BY TransitAssumption
      <3>2. m = RequestOf(method, url, host, tls, q.header, q.trailer)
        BY <3>1, ServerViewIs, Zenon
      <3> HIDE DEF m, method, host, tls, url
      <3>3. m.kind = "request" /\ m.url = url
        BY <3>2, RequestFields
      <3> QED
        BY <3>3 DEF url
    <2>2. ServerURL(q.url) # NoURL
      BY <1>1, TransitAssumption DEF RequestShape
    <2> HIDE DEF m
    <2>3. /\ y.path = ServerURL(q.url).path /\ y.query = q.url.query /\ y.fragment = ""
          /\ y.opaque = "" /\ y.user = "" /\ ~y.forceQuery
      BY <2>1, ServerResolves
    <2>4. q.url.query \in Seq(Atoms(q.url.query) \X Atoms(q.url.query))
      BY <1>1, TransitAssumption
    <2> HIDE DEF y
    <2>5. PathOrSlash(y) = y.path
      BY <2>3, PathAgain
    <2>6. y.query \in Seq(Atoms(y.query) \X Atoms(y.query))
      BY <2>3, <2>4
    <2> QED
      BY <2>1, <2>2, <2>3, <2>5, <2>6 DEF m, y
  <1>2. /\ v.kind = "request" /\ v.url # NoURL
        /\ u.query \in Seq(Atoms(u.query) \X Atoms(u.query))
        /\ PathOrSlash(u) = u.path /\ u.fragment = ""
        /\ u.opaque = "" /\ u.user = "" /\ ~u.forceQuery
        /\ w.kind = "request" /\ w.url # NoURL
        /\ x.query \in Seq(Atoms(x.query) \X Atoms(x.query))
        /\ PathOrSlash(x) = x.path /\ x.fragment = ""
        /\ x.opaque = "" /\ x.user = "" /\ ~x.forceQuery
    BY <1>1
  <1>3. /\ extractScheme(v) = extractScheme(w) /\ extractAuthority(v) = extractAuthority(w)
        /\ extractRequestTarget(v) = extractRequestTarget(w)
    OBVIOUS
  <1> HIDE DEF v, w
  <1>4. /\ extractTargetURI(v) = Ok(URIText(u)) /\ extractScheme(v) = Ok(<<u.scheme>>)
        /\ extractAuthority(v) = Ok(<<u.host>>)
        /\ u.query = <<>> => extractRequestTarget(v) = Ok(<<PathOrSlash(u)>>)
        /\ u.query # <<>> =>
             extractRequestTarget(v) = Ok(<<PathOrSlash(u), "?">> \o RawQuery(u.query))
    BY <1>2, URLValues
  <1>5. /\ extractTargetURI(w) = Ok(URIText(x)) /\ extractScheme(w) = Ok(<<x.scheme>>)
        /\ extractAuthority(w) = Ok(<<x.host>>)
        /\ x.query = <<>> => extractRequestTarget(w) = Ok(<<PathOrSlash(x)>>)
        /\ x.query # <<>> =>
             extractRequestTarget(w) = Ok(<<PathOrSlash(x), "?">> \o RawQuery(x.query))
    BY <1>2, URLValues
  <1> HIDE DEF u, x
  <1>6. u.scheme = x.scheme /\ u.host = x.host
    <2>1. <<u.scheme>> = <<x.scheme>> /\ <<u.host>> = <<x.host>>
      BY <1>3, <1>4, <1>5, TextOf
    <2> QED
      BY <2>1
  <1>7. PathOrSlash(u) = PathOrSlash(x) /\ QueryPart(u) = QueryPart(x)
    <2>1. /\ extractRequestTarget(v) = Ok(TargetText(u)) /\ TargetText(u) \in Seq(Reach(u))
          /\ QueryPart(u) \in Seq(Reach(u)) /\ PathOrSlash(u) \in Reach(u)
      BY <1>2, <1>4, TargetIs
    <2>2. /\ extractRequestTarget(w) = Ok(TargetText(x)) /\ TargetText(x) \in Seq(Reach(x))
          /\ QueryPart(x) \in Seq(Reach(x)) /\ PathOrSlash(x) \in Reach(x)
      BY <1>2, <1>5, TargetIs
    <2> DEFINE S == Reach(u) \cup Reach(x)
               s == <<PathOrSlash(u)>>
               t == <<PathOrSlash(x)>>
               k == QueryPart(u)
               l == QueryPart(x)
    <2>3. s \in Seq(S) /\ t \in Seq(S) /\ Len(s) = Len(t)
      <3>1. \A c \in S : <<c>> \in Seq(S)
        OBVIOUS
      <3>2. PathOrSlash(u) \in S /\ PathOrSlash(x) \in S
        BY <2>1, <2>2
      <3>3. Len(s) = 1 /\ Len(t) = 1
        OBVIOUS
      <3> HIDE DEF S
      <3> QED
        BY <3>1, <3>2, <3>3
    <2>4. k \in Seq(S) /\ l \in Seq(S)
      BY <2>1, <2>2, SeqMonotonic
    <2>5. s \o k = t \o l
      BY <1>3, <2>1, <2>2, TextOf DEF TargetText
    <2>6. s = t => PathOrSlash(u) = PathOrSlash(x)
      OBVIOUS
    <2> HIDE DEF S, s, t, k, l
    <2>7. s = t /\ k = l
      BY <2>3, <2>4, <2>5, SameStart
    <2> QED
      BY <2>6, <2>7 DEF k, l
  <1>8. URIText(u) = URIText(x)
    BY <1>2, <1>6, <1>7 DEF URIText, Hierarchy, FragmentPart
  <1>9. extractTargetURI(v) = extractTargetURI(w)
    BY <1>4, <1>5, <1>8
  <1> QED
    BY <1>9 DEF v, w

\* extract.go: @target-uri covers every component taken from the URL, and on the
\* server the three pieces of it cover as much.
THEOREM TargetURICovers == TSpec => []TargetURIIsComplete
  <1>1. TInv => TargetURIIsComplete
    <2> SUFFICES ASSUME TInv, sent.url # NoURL, sent.url.opaque = "",
                        NEW other \in Requests, other.url # NoURL, other.url.opaque = ""
                 PROVE  /\ Value(sent, "@target-uri") = Value(other, "@target-uri") =>
                             \A n \in {"@scheme", "@authority", "@path", "@query",
                                       "@request-target"} : Value(sent, n) = Value(other, n)
                        /\ (\A n \in {"@scheme", "@authority", "@request-target"} :
                              Value(ServerView(sent), n) = Value(ServerView(other), n)) =>
                           Value(ServerView(sent), "@target-uri") =
                             Value(ServerView(other), "@target-uri")
      BY DEF TargetURIIsComplete
    <2>1. sent \in Requests
      BY DEF TInv
    <2>2. ASSUME Value(sent, "@target-uri") = Value(other, "@target-uri")
          PROVE  \A n \in {"@scheme", "@authority", "@path", "@query", "@request-target"} :
                   Value(sent, n) = Value(other, n)
      <3>1. extractTargetURI(sent) = extractTargetURI(other)
        BY <2>2, ValueOf
      <3>2. /\ extractScheme(sent) = extractScheme(other)
            /\ extractAuthority(sent) = extractAuthority(other)
            /\ extractPath(sent) = extractPath(other)
            /\ extractQuery(sent) = extractQuery(other)
            /\ extractRequestTarget(sent) = extractRequestTarget(other)
        BY <2>1, <3>1, SameTargetURI
      <3> QED
        BY <3>2, ValueOf
    <2>3. ASSUME \A n \in {"@scheme", "@authority", "@request-target"} :
                   Value(ServerView(sent), n) = Value(ServerView(other), n)
          PROVE  Value(ServerView(sent), "@target-uri") = Value(ServerView(other), "@target-uri")
      <3> DEFINE v == ServerView(sent)
                 w == ServerView(other)
      <3>1. /\ extractScheme(v) = extractScheme(w) /\ extractAuthority(v) = extractAuthority(w)
            /\ extractRequestTarget(v) = extractRequestTarget(w)
        BY <2>3, ValueOf
      <3>2. extractTargetURI(v) = extractTargetURI(w)
        BY <2>1, <3>1, SamePieces
      <3> QED
        BY <3>2, ValueOf
    <2> QED
      BY <2>2, <2>3
  <1> QED
    BY <1>1, TransitInvariant, PTL

-----------------------------------------------------------------------------
(* Sorting names.                                                          *)

LEMMA PositionOf ==
    ASSUME NEW a \in AllNames
    PROVE  Position(a) \in 1..Len(Names) /\ Names[Position(a)] = a
  BY DEF AllNames, Position

LEMMA NamesFinite ==
    ASSUME NEW S \in SUBSET AllNames
    PROVE  IsFiniteSet(S)
  <1> DEFINE n == Len(Names)
             f == [a \in S |-> Position(a)]
  <1>1. n \in Nat
    BY DigestAssumption
  <1>2. f \in Injection(S, 1..n)
    <2>1. \A a \in S : f[a] \in 1..n /\ Names[f[a]] = a
      BY PositionOf
    <2>2. f \in [S -> 1..n] /\ \A a, b \in S : f[a] = f[b] => a = b
      BY <2>1
    <2> QED
      BY <2>2 DEF Injection, IsInjective
  <1>3. IsFiniteSet(1..n)
    BY <1>1, FS_Interval
  <1> QED
    BY <1>2, <1>3, FS_Injection

\* The ranks of the names in S are 1 to the size of S, each taken by one name.
LEMMA Ranks ==
    ASSUME NEW S \in SUBSET AllNames
    PROVE  /\ \A a, b \in S : Cardinality(UpTo(a, S)) = Cardinality(UpTo(b, S)) => a = b
           /\ \A k \in 1..Cardinality(S) : \E a \in S : Cardinality(UpTo(a, S)) = k
           /\ \A a \in S : Cardinality(UpTo(a, S)) \in 1..Cardinality(S)
  <1> DEFINE rank == [a \in S |-> Cardinality(UpTo(a, S))]
  <1>1. IsFiniteSet(S) /\ Cardinality(S) \in Nat
    BY NamesFinite, FS_CardinalityType
  <1>2. ASSUME NEW a \in S
        PROVE  /\ UpTo(a, S) \in SUBSET S /\ a \in UpTo(a, S)
               /\ IsFiniteSet(UpTo(a, S))
               /\ Cardinality(UpTo(a, S)) \in 1..Cardinality(S)
    <2>1. Position(a) \in Nat
      BY PositionOf, DigestAssumption
    <2>2. UpTo(a, S) \in SUBSET S /\ a \in UpTo(a, S)
      BY <2>1 DEF UpTo
    <2>3. /\ IsFiniteSet(UpTo(a, S))
          /\ Cardinality(UpTo(a, S)) <= Cardinality(S)
      BY <1>1, <2>2, FS_Subset
    <2>4. Cardinality(UpTo(a, S)) \in Nat /\ Cardinality(UpTo(a, S)) # 0
      BY <2>2, <2>3, FS_CardinalityType, FS_EmptySet
    <2> QED
      BY <1>1, <2>2, <2>3, <2>4
  <1>3. ASSUME NEW a \in S, NEW b \in S, Position(a) < Position(b)
        PROVE  Cardinality(UpTo(a, S)) # Cardinality(UpTo(b, S))
    <2>1. Position(a) \in Nat /\ Position(b) \in Nat /\ \A c \in S : Position(c) \in Nat
      BY PositionOf, DigestAssumption
    <2>2. UpTo(a, S) \in SUBSET UpTo(b, S)
      BY <1>3, <2>1 DEF UpTo
    <2>3. b \notin UpTo(a, S)
      BY <1>3, <2>1 DEF UpTo
    <2>4. UpTo(a, S) # UpTo(b, S)
      BY <1>2, <2>3
    <2> QED
      BY <1>2, <2>2, <2>4, FS_Subset
  <1>4. ASSUME NEW a \in S, NEW b \in S, rank[a] = rank[b] PROVE a = b
    <2>1. /\ Position(a) \in 1..Len(Names) /\ Names[Position(a)] = a
          /\ Position(b) \in 1..Len(Names) /\ Names[Position(b)] = b
      BY PositionOf
    <2>2. Position(a) = Position(b)
      BY <1>3, <1>4, <2>1, DigestAssumption
    <2> QED
      BY <2>1, <2>2
  <1>5. rank \in Injection(S, 1..Cardinality(S))
    <2>1. rank \in [S -> 1..Cardinality(S)]
      BY <1>2
    <2> QED
      BY <1>4, <2>1 DEF Injection, IsInjective
  <1>6. IsFiniteSet(1..Cardinality(S)) /\ Cardinality(1..Cardinality(S)) = Cardinality(S)
    BY <1>1, FS_Interval
  <1>7. rank \in Surjection(S, 1..Cardinality(S))
    BY <1>5, <1>6, FS_Injection
  <1>8. \A k \in 1..Cardinality(S) : \E a \in S : rank[a] = k
    BY <1>7 DEF Surjection
  <1> QED
    BY <1>2, <1>4, <1>8

\* Sorted(S) has every name in S once.
LEMMA SortedNames ==
    ASSUME NEW S \in SUBSET AllNames
    PROVE  /\ \A k \in 1..Cardinality(S) : Sorted(S)[k] \in S
           /\ \A a \in S : \E k \in 1..Cardinality(S) : Sorted(S)[k] = a
           /\ \A j, k \in 1..Cardinality(S) : Sorted(S)[j] = Sorted(S)[k] => j = k
  <1>1. \A k \in 1..Cardinality(S) :
          Sorted(S)[k] \in S /\ Cardinality(UpTo(Sorted(S)[k], S)) = k
    BY Ranks DEF Sorted
  <1>2. ASSUME NEW a \in S PROVE \E k \in 1..Cardinality(S) : Sorted(S)[k] = a
    <2> DEFINE k == Cardinality(UpTo(a, S))
    <2>1. k \in 1..Cardinality(S)
      BY Ranks
    <2>2. Sorted(S)[k] = a
      BY <1>1, <2>1, Ranks
    <2> QED
      BY <2>1, <2>2
  <1> QED
    BY <1>1, <1>2

-----------------------------------------------------------------------------
(* The header.                                                             *)

\* A header of the package's own has each name once, and is read as what was
\* written.
LEMMA WrittenHeader ==
    ASSUME NEW d, DOMAIN d \in SUBSET AllNames, d = [a \in DOMAIN d |-> d[a]],
           \A a \in DOMAIN d : d[a] # NotBytes
    PROVE  ParseDictionary(FormatContentDigest(d)) = d
  <1> DEFINE S == DOMAIN d
             n == Cardinality(S)
             h == FormatContentDigest(d)
             Taken == {i \in 1..Len(h) : \A j \in 1..i : h[j] # Junk}
             At(key) == CHOOSE i \in Taken : /\ h[i].key = key
                                             /\ \A j \in Taken : j > i => h[j].key # key
  <1>1. n \in Nat
    BY NamesFinite, FS_CardinalityType
  <1>2. h = [k \in 1..n |-> [key |-> Sorted(S)[k], value |-> d[Sorted(S)[k]]]]
    BY DEF FormatContentDigest
  <1>3. h \in Seq({h[k] : k \in 1..n}) /\ DOMAIN h = 1..n
    BY <1>1, <1>2
  <1>4. Len(h) = n
    BY <1>1, <1>3, LenProperties
  <1>5. \A k \in 1..n : h[k].key = Sorted(S)[k] /\ h[k].value = d[Sorted(S)[k]]
    BY <1>2
  <1> HIDE DEF h
  <1>9. Taken = 1..n
    <2>1. \A k \in 1..n : h[k].value # NotBytes
      BY <1>5, SortedNames
    <2>2. Junk.value = NotBytes
      BY DEF Junk
    <2>3. \A k \in 1..n : h[k] # Junk
      BY <2>1, <2>2, Zenon
    <2>4. \A i \in 1..n : \A j \in 1..i : j \in 1..n
      BY <1>1
    <2> QED
      BY <1>4, <2>3, <2>4
  <1>6. {h[i].key : i \in Taken} = S
    <2>1. /\ \A k \in 1..n : h[k].key \in S
          /\ \A a \in S : \E k \in 1..n : h[k].key = a
      BY <1>5, SortedNames
    <2> HIDE DEF S, n, Taken
    <2> QED
      BY <1>9, <2>1
  <1>7. ASSUME NEW key \in S PROVE h[At(key)].value = d[key]
    <2>1. PICK k \in 1..n : Sorted(S)[k] = key
      BY SortedNames
    <2>2. h[k].key = key /\ \A j \in 1..n : j > k => h[j].key # key
      <3>1. \A j \in 1..n : j > k => j # k
        BY <1>1
      <3> QED
        BY <1>5, <2>1, <3>1, SortedNames
    <2>3. At(key) \in 1..n /\ h[At(key)].key = key
      <3> HIDE DEF Taken
      <3> QED
        BY <1>9, <2>2
    <2> QED
      BY <1>5, <2>3
  <1>8. ParseDictionary(h) = [key \in S |-> d[key]]
    <2>1. ParseDictionary(h) = [key \in {h[i].key : i \in Taken} |-> h[At(key)].value]
      BY DEF ParseDictionary
    <2> HIDE DEF Taken, At
    <2> QED
      BY <1>6, <1>7, <2>1
  <1> QED
    BY <1>8 DEF h

\* The tables agree: a hash function has the length that is expected of it.
LEMMA TablesAgree ==
    ASSUME NEW a \in DOMAIN Hashes
    PROVE  /\ a \in SupportedAlgorithms
           /\ Hashes[a] = getExpectedDigestLength(a)
           /\ Hashes[a] # 0
  BY DEF Hashes, SupportedAlgorithms, getExpectedDigestLength,
         Sums256, Sums512

\* Computed(algs, b): the digests of a body.
Computed(algs, b) == [a \in algs |-> Sum(a, b)]

LEMMA ComputedIsRead ==
    ASSUME NEW b, NEW algs \in SUBSET AllNames, algs \subseteq DOMAIN Hashes, algs # {}
    PROVE  ParseContentDigest(FormatContentDigest(Computed(algs, b))) =
             [ok |-> TRUE, digests |-> Computed(algs, b)]
  <1> DEFINE d == Computed(algs, b)
             h == FormatContentDigest(d)
  <1>1. DOMAIN d = algs /\ d = [a \in DOMAIN d |-> d[a]]
    BY DEF Computed
  <1>2. ParseDictionary(h) = d
    <2>1. \A a \in DOMAIN d : d[a] # NotBytes
      BY TablesAgree DEF Computed, Sum, NotBytes
    <2> QED
      BY <1>1, <2>1, WrittenHeader
  <1>3. \A a \in algs : /\ d[a] # NotBytes /\ a \in SupportedAlgorithms
                        /\ d[a].len = getExpectedDigestLength(a)
    BY TablesAgree DEF Computed, Sum, NotBytes
  <1> QED
    BY <1>1, <1>2, <1>3 DEF ParseContentDigest

-----------------------------------------------------------------------------
(* The invariant.                                                          *)

Named     == {required[i] : i \in 1..Len(required)}
Accepting == ParseContentDigest(header)

\* The stream is a sequence, and only a running verification has read of it.
Streamed ==
    /\ body \in Seq(Octets) /\ input \in Seq(Octets) /\ received \in Seq(Octets)
    /\ required \in Seq(STRING)
    /\ outcome \in {"none", "reading", "accepted", "refused", "failed"}
    /\ outcome = "none" => received = <<>>

\* A verification that reads has found all it requires, and all its hashes have
\* what was read.
Hashing ==
    outcome \in {"reading", "accepted"} =>
      /\ required # <<>> /\ Accepting.ok
      /\ \A a \in Named : a \in DOMAIN Accepting.digests /\ NewDigesterOk(a)
      /\ hashers = [a \in Named |-> received]

Concluded ==
    /\ outcome = "accepted" =>
         input = <<>> /\ \A a \in Named : Sum(a, received) = Accepting.digests[a]
    /\ outcome = "refused" => ~VerifyContentDigestBytes(received \o input, header, required)

\* Where nobody forged it the header has the digests of the body.
Genuine ==
    ~forged => \E algs \in SUBSET AllNames :
                 /\ algs \subseteq DOMAIN Hashes /\ algs # {}
                 /\ header = FormatContentDigest(Computed(algs, body))

DInv == Streamed /\ Hashing /\ Concluded /\ Genuine

LEMMA DInitHolds == DInit => DInv
  <1> SUFFICES ASSUME DInit PROVE DInv
    OBVIOUS
  <1>1. Streamed
    BY DigestAssumption DEF DInit, Streamed
  <1>2. Genuine
    <2>1. PICK algs \in (SUBSET {a \in AllNames : NewDigesterOk(a)}) \ {{}} :
            header = FormatContentDigest([a \in algs |-> Sum(a, body)])
      BY DEF DInit
    <2>2. algs \in SUBSET AllNames /\ algs \subseteq DOMAIN Hashes /\ algs # {}
      BY <2>1 DEF NewDigesterOk
    <2> QED
      BY <2>1, <2>2 DEF Genuine, Computed
  <1> QED
    BY <1>1, <1>2 DEF DInit, DInv, Hashing, Concluded

LEMMA RewriteBodyKeeps == DInv /\ RewriteBody => DInv'
  <1> SUFFICES ASSUME DInv, RewriteBody PROVE DInv'
    OBVIOUS
  <1>1. input' \in Seq(Octets)
    <2>1. ASSUME NEW n \in 0..Len(input) PROVE SubSeq(input, 1, n) \in Seq(Octets)
      <3>1. Len(input) \in Nat /\ \A i \in 1..n : input[i] \in Octets
        BY DEF DInv, Streamed
      <3> QED
        BY <3>1, SubSeqProperties
    <2> QED
      BY <2>1, DigestAssumption DEF RewriteBody
  <1>2. Streamed'
    BY <1>1 DEF DInv, Streamed, RewriteBody
  <1>3. Genuine'
    BY DEF DInv, Genuine, RewriteBody
  <1> QED
    BY <1>2, <1>3 DEF DInv, Hashing, Concluded, RewriteBody

LEMMA RewriteHeaderKeeps == DInv /\ RewriteHeader => DInv'
  BY DEF DInv, RewriteHeader, Streamed, Hashing, Concluded, Genuine

\* Up to the copy the two functions check the same.
LEMMA StartKeeps == DInv /\ VerifyContentDigest => DInv'
  <1> SUFFICES ASSUME DInv, VerifyContentDigest PROVE DInv'
    OBVIOUS
  <1> DEFINE able == /\ required' # <<>> /\ Accepting.ok
                     /\ \A a \in Named' : a \in DOMAIN Accepting.digests /\ NewDigesterOk(a)
  <1>1. /\ required' \in Seq(STRING) /\ outcome = "none" /\ received = <<>>
        /\ UNCHANGED <<body, header, input, received, forged>>
    BY DigestAssumption DEF VerifyContentDigest, DInv, Streamed
  <1>2. CASE able
    <2>1. outcome' = "reading" /\ hashers' = [a \in Named' |-> <<>>]
      BY <1>2 DEF VerifyContentDigest, Named, Accepting
    <2>2. Hashing'
      BY <1>1, <1>2, <2>1 DEF Hashing, Accepting
    <2> QED
      BY <1>1, <2>1, <2>2 DEF DInv, Streamed, Concluded, Genuine
  <1>3. CASE ~able
    <2>1. outcome' = "refused"
      BY <1>3 DEF VerifyContentDigest, Named, Accepting
    <2>2. ~VerifyContentDigestBytes(received' \o input', header', required')
      BY <1>1, <1>3 DEF VerifyContentDigestBytes, Named, Accepting
    <2> QED
      BY <1>1, <2>1, <2>2 DEF DInv, Streamed, Hashing, Concluded, Genuine
  <1> QED
    BY <1>2, <1>3

\* Every hash gets the piece that was delivered.
LEMMA ReadKeeps == DInv /\ Read => DInv'
  <1> SUFFICES ASSUME DInv, Read PROVE DInv'
    OBVIOUS
  <1>1. PICK n \in 1..Len(input) :
          /\ hashers' = [a \in DOMAIN hashers |-> hashers[a] \o SubSeq(input, 1, n)]
          /\ received' = received \o SubSeq(input, 1, n)
          /\ input' = SubSeq(input, n + 1, Len(input))
    BY DEF Read
  <1>2. /\ outcome = "reading"
        /\ UNCHANGED <<body, header, required, outcome, forged>>
    BY DEF Read
  <1>3. received' \in Seq(Octets) /\ input' \in Seq(Octets)
    <2>1. SubSeq(input, 1, n) \in Seq(Octets) /\ SubSeq(input, n + 1, Len(input)) \in Seq(Octets)
      BY SubSeqProperties DEF DInv, Streamed
    <2> QED
      BY <1>1, <2>1 DEF DInv, Streamed
  <1>4. hashers = [a \in Named |-> received]
    BY <1>2 DEF DInv, Hashing
  <1>5. hashers' = [a \in Named |-> received']
    BY <1>1, <1>4
  <1>6. Hashing'
    BY <1>2, <1>5 DEF DInv, Hashing, Named, Accepting
  <1> QED
    BY <1>2, <1>3, <1>6 DEF DInv, Streamed, Concluded, Genuine

LEMMA ReadErrorKeeps == DInv /\ ReadError => DInv'
  BY DEF DInv, ReadError, Streamed, Hashing, Concluded, Genuine

\* At the end of the stream the hashes are those of the bytes.
LEMMA CompareKeeps == DInv /\ Compare => DInv'
  <1> SUFFICES ASSUME DInv, Compare PROVE DInv'
    OBVIOUS
  <1>1. /\ outcome = "reading" /\ input = <<>>
        /\ UNCHANGED <<body, header, input, received, required, hashers, forged>>
        /\ outcome' \in {"accepted", "refused"}
    BY DEF Compare
  <1>2. DOMAIN hashers = Named /\ \A a \in Named : hashers[a] = received
    BY <1>1 DEF DInv, Hashing
  <1>3. outcome' = "accepted" <=> \A a \in Named : Sum(a, received) = Accepting.digests[a]
    BY <1>2 DEF Compare, Accepting
  <1>4. received \o input = received
    BY <1>1 DEF DInv, Streamed
  <1>5. outcome' = "refused" => ~VerifyContentDigestBytes(received, header, required)
    BY <1>1, <1>3 DEF VerifyContentDigestBytes, Named, Accepting
  <1>6. Concluded'
    BY <1>1, <1>3, <1>4, <1>5 DEF Concluded, Named, Accepting
  <1>7. Hashing'
    BY <1>1 DEF DInv, Hashing, Named, Accepting
  <1> QED
    BY <1>1, <1>6, <1>7 DEF DInv, Streamed, Genuine

LEMMA DNextKeeps == DInv /\ [DNext]_dvars => DInv'
  <1>1. DInv /\ UNCHANGED dvars => DInv'
    BY DEF dvars, DInv, Streamed, Hashing, Concluded, Genuine, Named, Accepting
  <1> QED
    BY <1>1, RewriteBodyKeeps, RewriteHeaderKeeps, StartKeeps, ReadKeeps, ReadErrorKeeps,
       CompareKeeps DEF DNext

\* Bodies, headers, pieces and verdicts are related as DInv says.
THEOREM DigestInvariant == DSpec => []DInv
  BY DInitHolds, DNextKeeps, PTL DEF DSpec

-----------------------------------------------------------------------------
(* The properties.                                                         *)

\* VerifyContentDigest and VerifyContentDigestBytes accept the same.
THEOREM StreamsAgree == DSpec => []StreamingAgrees
  <1>1. DInv => StreamingAgrees
    <2> SUFFICES ASSUME DInv, outcome = "accepted"
                 PROVE  VerifyContentDigestBytes(received, header, required)
      BY DEF DInv, Concluded, StreamingAgrees
    <2> QED
      BY DEF DInv, Hashing, Concluded, VerifyContentDigestBytes, Named, Accepting
  <1> QED
    BY <1>1, DigestInvariant, PTL

\* The genuine header has digests of the body, and only the body has those.
THEOREM AcceptedBodyIsIntact == DSpec => []BodyIntact
  <1>1. DInv => BodyIntact
    <2> SUFFICES ASSUME DInv, outcome = "accepted", ~forged PROVE received = body
      BY DEF BodyIntact
    <2>1. PICK algs \in SUBSET AllNames :
            /\ algs \subseteq DOMAIN Hashes /\ algs # {}
            /\ header = FormatContentDigest(Computed(algs, body))
      BY DEF DInv, Genuine
    <2>2. Accepting.digests = Computed(algs, body)
      BY <2>1, ComputedIsRead DEF Accepting
    <2>3. required[1] \in Named
      BY DEF DInv, Hashing, Streamed, Named
    <2>4. /\ required[1] \in algs
          /\ Sum(required[1], received) = Sum(required[1], body)
      BY <2>2, <2>3 DEF DInv, Hashing, Concluded, Computed
    <2> QED
      BY <2>4 DEF Sum
  <1> QED
    BY <1>1, DigestInvariant, PTL

\* Formatting, parsing and the tables of algorithms fit together.
THEOREM WrittenDigestsAreRead == DSpec => []WrittenIsRead
  <1>1. DInv => WrittenIsRead
    <2> SUFFICES ASSUME DInv, ~forged PROVE WrittenIsRead
      BY DEF WrittenIsRead
    <2>1. PICK algs \in SUBSET AllNames :
            /\ algs \subseteq DOMAIN Hashes /\ algs # {}
            /\ header = FormatContentDigest(Computed(algs, body))
      BY DEF DInv, Genuine
    <2> QED
      BY <2>1, ComputedIsRead DEF WrittenIsRead
  <1> QED
    BY <1>1, DigestInvariant, PTL
=============================================================================
