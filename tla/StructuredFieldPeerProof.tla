---------------------- MODULE StructuredFieldPeerProof ----------------------
(***************************************************************************)
(* Dictionaries others have written, on several lines or with the spaces   *)
(* and spellings of their own, as pkg/sfv reads them: for texts of any     *)
(* length, any number of lines and any limits.                             *)
(*                                                                         *)
(* A text that is part of another one is read there as it is alone, up to  *)
(* its end and what follows (Part, Tells); the field lines of a dictionary *)
(* are runs of entries (Run) that the commas between the lines join.       *)
(*                                                                         *)
(* A peer writes its field one production at a time.  PeerInv says that    *)
(* the text so far has the members so far: the last one may still be open. *)
(***************************************************************************)
EXTENDS StructuredFieldProof

-----------------------------------------------------------------------------
(* A text that is part of another one, with a character of F, or the end,  *)
(* after it.  What it has is there, shifted by d.                          *)

Part(s, t, d, F) ==
    /\ d \in Nat /\ d + Len(s) <= Len(t)
    /\ \A m \in 1..Len(s) : t[d + m] = s[m]
    /\ peek(t, d + Len(s) + 1) \in F

\* What comes at an offset is of the class C in the one text if it is in the other.
Tells(s, k, F, C) == "EOF" \notin C /\ (k <= Len(s) \/ F \cap C = {})

\* The classes that end tokens, parameters and items.
AfterParam == isTokenChar \cup {"="}
AfterItem  == isTokenChar \cup {Semicolon, "="}
AfterEntry == AfterItem \cup Blank

LEMMA PartPeeks ==
    ASSUME NEW Ch, NEW s, Text(s, Ch), NEW t, Text(t, Ch), NEW d, NEW F, Part(s, t, d, F), NEW k \in Offsets(s)
    PROVE  /\ d + k \in Offsets(t) /\ d + k \in Nat \ {0}
           /\ peek(s, k) # "EOF" => peek(t, d + k) = peek(s, k)
           /\ \A C : Tells(s, k, F, C) => (peek(t, d + k) \in C <=> peek(s, k) \in C)
  <1>1. Len(s) \in Nat /\ Len(t) \in Nat /\ d \in Nat /\ k \in 1..(Len(s) + 1) /\ d + Len(s) <= Len(t)
    BY DEF Text, Part, Offsets
  <1>2. d + k \in Offsets(t) /\ d + k \in Nat \ {0} /\ k \in Nat \ {0}
    BY <1>1 DEF Offsets
  <1>3. CASE k <= Len(s)
    <2>1. k \in 1..Len(s) /\ d + k <= Len(t)
      BY <1>1, <1>3
    <2>2. t[d + k] = s[k]
      BY <2>1 DEF Part
    <2>3. peek(t, d + k) = peek(s, k)
      BY <1>3, <2>1, <2>2 DEF peek
    <2> QED
      BY <1>2, <2>3
  <1>4. CASE k > Len(s)
    <2>1. k = Len(s) + 1 /\ d + k = d + Len(s) + 1
      BY <1>1, <1>4
    <2>2. peek(s, k) = "EOF"
      BY <1>2, <1>4, PeekAt
    <2>3. peek(t, d + k) \in F
      BY <2>1 DEF Part
    <2>4. ~(k <= Len(s))
      BY <1>1, <1>4
    <2> QED
      BY <1>2, <2>2, <2>3, <2>4 DEF Tells
  <1> QED
    BY <1>1, <1>3, <1>4

Cut(s, i, j) == SubSeq(s, i, j - 1)

LEMMA PartChars ==
    ASSUME NEW Ch, NEW s, Text(s, Ch), NEW t, Text(t, Ch), NEW d, NEW F, Part(s, t, d, F),
           NEW i \in Offsets(s), NEW j \in i..(Len(s) + 1)
    PROVE  /\ j \in Offsets(s) /\ d + i \in Offsets(t) /\ d + j \in (d + i)..(Len(t) + 1)
           /\ j # i => d + j \in ((d + i) + 1)..(Len(t) + 1)
           /\ \A m \in (d + i)..((d + j) - 1) : m - d \in i..(j - 1) /\ t[m] = s[m - d]
           /\ Cut(t, d + i, d + j) = Cut(s, i, j)
  <1>1. Len(s) \in Nat /\ Len(t) \in Nat /\ d \in Nat /\ i \in 1..(Len(s) + 1) /\ d + Len(s) <= Len(t)
    BY DEF Text, Part, Offsets
  <1>2. /\ j \in Offsets(s) /\ d + i \in Offsets(t) /\ d + j \in (d + i)..(Len(t) + 1)
        /\ j # i => d + j \in ((d + i) + 1)..(Len(t) + 1)
    BY <1>1 DEF Offsets
  <1>3. ASSUME NEW m \in (d + i)..((d + j) - 1) PROVE m - d \in i..(j - 1) /\ t[m] = s[m - d]
    <2>1. m - d \in i..(j - 1) /\ m - d \in 1..Len(s) /\ d + (m - d) = m
      BY <1>1
    <2> QED
      BY <2>1 DEF Part
  <1>4. Cut(t, d + i, d + j) = Cut(s, i, j)
    <2> DEFINE a == SubSeq(t, d + i, (d + j) - 1)
               b == SubSeq(s, i, j - 1)
    <2>1. /\ a \in Seq(Ch) /\ Len(a) = (d + j) - (d + i)
          /\ \A m \in 1..((d + j) - (d + i)) : a[m] = t[((d + i) - 1) + m]
      <3> DEFINE p == d + i
                 q == d + j
      <3>1. p \in Offsets(t) /\ q \in p..(Len(t) + 1)
        BY <1>2
      <3> HIDE DEF p, q
      <3>2. /\ SubSeq(t, p, q - 1) \in Seq(Ch) /\ Len(SubSeq(t, p, q - 1)) = q - p
            /\ \A m \in 1..(q - p) : SubSeq(t, p, q - 1)[m] = t[(p - 1) + m]
        BY <3>1, Between
      <3> QED
        BY <3>2 DEF p, q
    <2>2. /\ b \in Seq(Ch) /\ Len(b) = j - i
          /\ \A m \in 1..(j - i) : b[m] = s[(i - 1) + m]
      BY Between
    <2> HIDE DEF a, b
    <2>3. (d + j) - (d + i) = j - i
      BY <1>1
    <2>4. ASSUME NEW m \in 1..Len(a) PROVE a[m] = b[m]
      <3>1. m \in 1..(j - i)
        BY <2>1, <2>3
      <3>2. /\ ((d + i) - 1) + m \in (d + i)..((d + j) - 1)
            /\ (((d + i) - 1) + m) - d = (i - 1) + m
        BY <1>1, <3>1
      <3>3. t[((d + i) - 1) + m] = s[(i - 1) + m]
        BY <1>3, <3>2
      <3> QED
        BY <2>1, <2>2, <2>3, <3>1, <3>3
    <2>5. a = b
      BY <2>1, <2>2, <2>3, <2>4, SameText
    <2> QED
      BY <2>5 DEF a, b, Cut
  <1> QED
    BY <1>2, <1>3, <1>4

LEMMA PartText ==
    ASSUME NEW Ch, NEW s, Text(s, Ch), NEW t, Text(t, Ch), NEW d, NEW F, Part(s, t, d, F),
           NEW i \in Offsets(s), NEW j \in (i + 1)..(Len(s) + 1)
    PROVE  /\ j \in Offsets(s) /\ d + i \in Offsets(t) /\ d + j \in ((d + i) + 1)..(Len(t) + 1)
           /\ Cut(t, d + i, d + j) = Cut(s, i, j)
  <1>1. j \in i..(Len(s) + 1) /\ j # i
    BY DEF Offsets, Text
  <1> QED
    BY <1>1, PartChars

LEMMA PartSpans ==
    ASSUME NEW Ch, NEW s, Text(s, Ch), NEW t, Text(t, Ch), NEW d, NEW F, Part(s, t, d, F),
           NEW C, NEW i \in Offsets(s), Tells(s, Span(s, i, C), F, C)
    PROVE  Span(t, d + i, C) = d + Span(s, i, C) /\ Span(s, i, C) \in Offsets(s)
  <1> DEFINE j == Span(s, i, C)
  <1>1. /\ j \in i..(Len(s) + 1) /\ (\A m \in i..(j - 1) : s[m] \in C) /\ peek(s, j) \notin C
        /\ "EOF" \notin C /\ Tells(s, j, F, C)
    BY SpanPeeks DEF Tells
  <1> HIDE DEF j
  <1>2. /\ j \in Offsets(s) /\ d + i \in Offsets(t) /\ d + j \in (d + i)..(Len(t) + 1)
        /\ \A m \in (d + i)..((d + j) - 1) : m - d \in i..(j - 1) /\ t[m] = s[m - d]
    BY <1>1, PartChars
  <1>3. peek(t, d + j) \notin C
    BY <1>1, <1>2, PartPeeks
  <1>4. \A m \in (d + i)..((d + j) - 1) : t[m] \in C
    BY <1>1, <1>2
  <1>5. Span(t, d + i, C) = d + j
    BY <1>1, <1>2, <1>3, <1>4, SpanPeeks
  <1> QED
    BY <1>2, <1>5 DEF j

LEMMA ClassesEnd ==
    /\ "EOF" \notin AfterEntry
    /\ isTokenChar \subseteq AfterParam /\ isDigit \subseteq isTokenChar
    /\ AfterParam \subseteq AfterItem /\ AfterItem \subseteq AfterEntry
    /\ {SP} \subseteq AfterEntry /\ Blank \subseteq AfterEntry
    /\ {"="} \subseteq AfterParam /\ {Semicolon} \subseteq AfterItem
    /\ Blank \cup {"="} \subseteq AfterEntry
  <1>1. "EOF" \in Ends
    BY DEF Ends
  <1>2. "EOF" \notin AfterEntry
    BY <1>1, TokenClasses, DelimitersDiffer DEF AfterEntry, AfterItem, Blank
  <1> QED
    BY <1>2, TokenClasses DEF AfterEntry, AfterItem, AfterParam, Blank

\* Which of two classes tells what comes, and where every class does.
LEMMA Telling ==
    ASSUME NEW Ch, NEW s, Text(s, Ch), NEW F, NEW k \in Offsets(s)
    PROVE  /\ \A C, D : Tells(s, k, F, C) /\ D \subseteq C => Tells(s, k, F, D)
           /\ peek(s, k) # "EOF" => Tells(s, k, F, AfterEntry) /\ k <= Len(s)
           /\ k <= Len(s) => Tells(s, k, F, AfterEntry)
  <1>1. k \in Nat \ {0} /\ Len(s) \in Nat
    BY DEF Offsets, Text
  <1>2. peek(s, k) # "EOF" => k <= Len(s)
    BY <1>1, PeekAt
  <1> QED
    BY <1>2, ClassesEnd DEF Tells

LEMMA AtPlaces ==
    ASSUME NEW Ch, NEW s, Text(s, Ch), NEW i, NEW j
    PROVE  /\ \A key : KeyAt(s, i, key, j) => i \in Offsets(s) /\ j \in Offsets(s)
           /\ \A v : BareAt(s, i, v, j, Ch) => i \in Offsets(s) /\ j \in Offsets(s)
  BY DEF KeyAt, BareAt, Offsets, Text

LEMMA KeyPart ==
    ASSUME NEW Ch, NEW s, Text(s, Ch), NEW t, Text(t, Ch), NEW d, NEW F, Part(s, t, d, F),
           NEW i, NEW key, NEW j, KeyAt(s, i, key, j), Tells(s, j, F, isTokenChar)
    PROVE  KeyAt(t, d + i, key, d + j) /\ i \in Offsets(s) /\ j \in Offsets(s)
  <1>1. i \in Offsets(s) /\ j \in (i + 1)..(Len(s) + 1)
    BY DEF KeyAt
  <1>2. /\ j \in Offsets(s) /\ d + i \in Offsets(t) /\ d + j \in ((d + i) + 1)..(Len(t) + 1)
        /\ Cut(t, d + i, d + j) = Cut(s, i, j)
    BY <1>1, PartText
  <1>3. peek(t, d + j) \notin isTokenChar
    BY <1>2, PartPeeks DEF KeyAt
  <1> DEFINE p == d + i
             q == d + j
  <1>4. /\ p \in Offsets(t) /\ q \in (p + 1)..(Len(t) + 1) /\ Cut(t, p, q) = key
        /\ IsToken(key) /\ peek(t, q) \notin isTokenChar
    BY <1>2, <1>3 DEF KeyAt, Cut
  <1> HIDE DEF p, q
  <1>5. KeyAt(t, p, key, q)
    BY <1>4 DEF KeyAt, Cut
  <1> QED
    BY <1>1, <1>2, <1>5 DEF p, q

LEMMA BarePart ==
    ASSUME NEW Ch, NEW s, Text(s, Ch), NEW t, Text(t, Ch), NEW d, NEW F, Part(s, t, d, F),
           NEW i, NEW v, NEW j, BareAt(s, i, v, j, Ch), Tells(s, j, F, isTokenChar)
    PROVE  BareAt(t, d + i, v, d + j, Ch) /\ i \in Offsets(s) /\ j \in Offsets(s)
  <1>1. i \in Offsets(s) /\ j \in (i + 1)..(Len(s) + 1)
    BY DEF BareAt
  <1>2. /\ j \in Offsets(s) /\ d + i \in Offsets(t) /\ d + j \in ((d + i) + 1)..(Len(t) + 1)
        /\ Cut(t, d + i, d + j) = Cut(s, i, j)
    BY <1>1, PartText
  <1>3. MayFollow(v, peek(t, d + j))
    <2>1. Tells(s, j, F, isDigit)
      BY <1>2, Telling, ClassesEnd
    <2> QED
      BY <1>2, <2>1, PartPeeks DEF BareAt, MayFollow
  <1> DEFINE p == d + i
             q == d + j
  <1>4. /\ p \in Offsets(t) /\ q \in (p + 1)..(Len(t) + 1) /\ Spelt(Cut(t, p, q), v, Ch)
        /\ MayFollow(v, peek(t, q))
    BY <1>2, <1>3 DEF BareAt, Cut
  <1> HIDE DEF p, q
  <1>5. BareAt(t, p, v, q, Ch)
    BY <1>4 DEF BareAt, Cut
  <1> QED
    BY <1>1, <1>2, <1>5 DEF p, q

\* The offset after one is shifted with it.
LEMMA PartNext ==
    ASSUME NEW s, NEW t, NEW d, NEW F, Part(s, t, d, F), NEW i \in Offsets(s), NEW Ch, Text(s, Ch)
    PROVE  d + (i + 1) = (d + i) + 1
  BY DEF Part, Offsets, Text

LEMMA ParamPart ==
    ASSUME NEW Ch, NEW s, Text(s, Ch), NEW t, Text(t, Ch), NEW d, NEW F, Part(s, t, d, F),
           NEW i, NEW x, NEW j, ParamAt(s, i, x, j, Ch), Tells(s, j, F, AfterParam)
    PROVE  ParamAt(t, d + i, x, d + j, Ch) /\ i \in Offsets(s) /\ j \in Offsets(s)
  <1>1. i \in Offsets(s) /\ peek(s, i) = Semicolon
    BY DEF ParamAt
  <1>2. d + i \in Offsets(t) /\ peek(t, d + i) = Semicolon
    BY <1>1, PartPeeks, DelimitersDiffer
  <1>3. PICK m : /\ KeyAt(s, i + 1, x.key, m)
                 /\ \/ peek(s, m) = "=" /\ BareAt(s, m + 1, x.val, j, Ch)
                    \/ peek(s, m) # "=" /\ x.val = BareTrue /\ j = m
    BY DEF ParamAt
  <1>4. m \in Offsets(s) /\ Tells(s, m, F, AfterParam) /\ Tells(s, m, F, isTokenChar)
        /\ Tells(s, m, F, {"="})
    <2>1. m \in Offsets(s)
      BY <1>3, AtPlaces
    <2>2. Tells(s, m, F, AfterParam)
      <3>1. CASE peek(s, m) = "="
        BY <2>1, <3>1, Telling, ClassesEnd, DelimitersDiffer
      <3>2. CASE peek(s, m) # "="
        BY <1>3, <3>2
      <3> QED
        BY <3>1, <3>2
    <2> QED
      BY <2>1, <2>2, Telling, ClassesEnd
  <1>5. KeyAt(t, (d + i) + 1, x.key, d + m)
    <2>1. KeyAt(t, d + (i + 1), x.key, d + m)
      BY <1>3, <1>4, KeyPart
    <2> QED
      BY <1>1, <2>1, PartNext
  <1>6. peek(t, d + m) = "=" <=> peek(s, m) = "="
    <2>1. peek(t, d + m) \in {"="} <=> peek(s, m) \in {"="}
      BY <1>4, PartPeeks
    <2> QED
      BY <2>1
  <1>7. CASE peek(s, m) = "="
    <2>1. BareAt(s, m + 1, x.val, j, Ch)
      BY <1>3, <1>7
    <2>2. j \in Offsets(s)
      BY <2>1, AtPlaces
    <2>3. Tells(s, j, F, isTokenChar)
      BY <2>2, Telling, ClassesEnd
    <2>4. BareAt(t, d + (m + 1), x.val, d + j, Ch)
      BY <2>1, <2>3, BarePart
    <2>5. BareAt(t, (d + m) + 1, x.val, d + j, Ch)
      BY <1>4, <2>4, PartNext
    <2> QED
      BY <1>1, <1>2, <1>5, <1>6, <1>7, <2>2, <2>5 DEF ParamAt
  <1>8. CASE peek(s, m) # "="
    <2>1. x.val = BareTrue /\ j = m
      BY <1>3, <1>8
    <2> QED
      BY <1>1, <1>2, <1>4, <1>5, <1>6, <1>8, <2>1 DEF ParamAt
  <1> QED
    BY <1>7, <1>8

LEMMA ParamsPart ==
    ASSUME NEW Ch, NEW s, Text(s, Ch), NEW t, Text(t, Ch), NEW d, NEW F, Part(s, t, d, F),
           NEW i, NEW ps, NEW j, ParamsAt(s, i, ps, j, Ch), Tells(s, j, F, AfterItem)
    PROVE  ParamsAt(t, d + i, ps, d + j, Ch) /\ i \in Offsets(s) /\ j \in Offsets(s)
  <1>1. i \in Offsets(s) /\ j \in i..(Len(s) + 1) /\ Tuple(ps) /\ peek(s, j) # Semicolon
    BY DEF ParamsAt
  <1>2. j \in Offsets(s) /\ d + i \in Offsets(t) /\ d + j \in (d + i)..(Len(t) + 1)
    BY <1>1, PartChars
  <1>3. Tells(s, j, F, {Semicolon}) /\ Tells(s, j, F, AfterParam)
    BY <1>2, Telling, ClassesEnd
  <1>4. peek(t, d + j) # Semicolon
    <2>1. peek(t, d + j) \in {Semicolon} <=> peek(s, j) \in {Semicolon}
      BY <1>2, <1>3, PartPeeks
    <2> QED
      BY <1>1, <2>1
  <1>5. PICK at : /\ at[0] = i /\ at[Len(ps)] = j
                  /\ \A k \in 1..Len(ps) : ParamAt(s, at[k - 1], ps[k], at[k], Ch)
    BY DEF ParamsAt
  <1> DEFINE too == [k \in 0..Len(ps) |-> d + at[k]]
  <1>6. Len(ps) \in Nat
    BY <1>1 DEF Tuple
  <1>7. too[0] = d + i /\ too[Len(ps)] = d + j
    BY <1>5, <1>6
  <1>8. ASSUME NEW k \in 1..Len(ps) PROVE ParamAt(t, too[k - 1], ps[k], too[k], Ch)
    <2>1. too[k - 1] = d + at[k - 1] /\ too[k] = d + at[k]
      BY <1>6
    <2>2. Tells(s, at[k], F, AfterParam)
      <3>1. CASE k = Len(ps)
        BY <1>3, <1>5, <3>1
      <3>2. CASE k # Len(ps)
        <4>1. k + 1 \in 1..Len(ps) /\ (k + 1) - 1 = k
          BY <1>6, <3>2
        <4>2. ParamAt(s, at[k], ps[k + 1], at[k + 1], Ch)
          BY <1>5, <4>1
        <4>3. at[k] \in Offsets(s) /\ peek(s, at[k]) = Semicolon
          BY <4>2 DEF ParamAt
        <4> QED
          BY <4>3, Telling, ClassesEnd, DelimitersDiffer
      <3> QED
        BY <3>1, <3>2
    <2>3. ParamAt(t, d + at[k - 1], ps[k], d + at[k], Ch)
      BY <1>5, <2>2, ParamPart
    <2> QED
      BY <2>1, <2>3
  <1> HIDE DEF too
  <1> QED
    BY <1>1, <1>2, <1>4, <1>7, <1>8 DEF ParamsAt

LEMMA ItemPart ==
    ASSUME NEW Ch, NEW s, Text(s, Ch), NEW t, Text(t, Ch), NEW d, NEW F, Part(s, t, d, F),
           NEW i, NEW x, NEW j, ItemAt(s, i, x, j, Ch), Tells(s, j, F, AfterItem)
    PROVE  ItemAt(t, d + i, x, d + j, Ch) /\ i \in Offsets(s) /\ j \in Offsets(s)
  <1>1. PICK m : BareAt(s, i, x.val, m, Ch) /\ ParamsAt(s, m, x.params, j, Ch)
    BY DEF ItemAt
  <1>2. m \in Offsets(s)
    BY <1>1, AtPlaces
  <1>3. Tells(s, m, F, isTokenChar)
    <2>1. CASE peek(s, m) = Semicolon
      BY <1>2, <2>1, Telling, ClassesEnd, DelimitersDiffer
    <2>2. CASE m = j
      BY <1>2, <2>2, Telling, ClassesEnd
    <2> QED
      BY <1>1, <2>1, <2>2, ParamsFollow
  <1>4. BareAt(t, d + i, x.val, d + m, Ch) /\ i \in Offsets(s)
    BY <1>1, <1>3, BarePart
  <1>5. ParamsAt(t, d + m, x.params, d + j, Ch) /\ j \in Offsets(s)
    BY <1>1, ParamsPart
  <1> QED
    BY <1>4, <1>5 DEF ItemAt

LEMMA PartSpaces ==
    ASSUME NEW Ch, NEW s, Text(s, Ch), NEW t, Text(t, Ch), NEW d, NEW F, Part(s, t, d, F),
           NEW i \in Offsets(s)
    PROVE  /\ Tells(s, skipSP(s, i), F, {SP}) =>
                skipSP(t, d + i) = d + skipSP(s, i) /\ skipSP(s, i) \in Offsets(s)
           /\ Tells(s, skipOWS(s, i), F, Blank) =>
                skipOWS(t, d + i) = d + skipOWS(s, i) /\ skipOWS(s, i) \in Offsets(s)
  BY PartSpans DEF skipSP, skipOWS

\* Spaces before something else in the text.
LEMMA SpacesPart ==
    ASSUME NEW Ch, NEW s, Text(s, Ch), NEW t, Text(t, Ch), NEW d, NEW F, Part(s, t, d, F),
           NEW i \in Offsets(s), peek(s, skipSP(s, i)) # "EOF"
    PROVE  /\ skipSP(t, d + i) = d + skipSP(s, i) /\ skipSP(s, i) \in Offsets(s)
           /\ peek(t, skipSP(t, d + i)) = peek(s, skipSP(s, i)) /\ d + i \in Offsets(t)
           /\ skipSP(s, i) \in i..Len(s) /\ Tells(s, i, F, AfterEntry)
  <1> DEFINE k == skipSP(s, i)
  <1>1. k \in Offsets(s) /\ k \in i..(Len(s) + 1) /\ peek(s, k) # "EOF"
    BY SkipSpaces
  <1> HIDE DEF k
  <1>2. Tells(s, k, F, AfterEntry) /\ k <= Len(s)
    BY <1>1, Telling
  <1>3. Tells(s, k, F, {SP})
    BY <1>1, <1>2, Telling, ClassesEnd
  <1>4. skipSP(t, d + i) = d + k
    BY <1>3, PartSpaces DEF k
  <1>5. peek(t, d + k) = peek(s, k) /\ d + i \in Offsets(t)
    BY <1>1, PartPeeks
  <1>6. i <= Len(s) /\ k \in i..Len(s)
    BY <1>1, <1>2 DEF Offsets, Text
  <1>7. Tells(s, i, F, AfterEntry)
    BY <1>6, Telling
  <1> QED
    BY <1>1, <1>4, <1>5, <1>6, <1>7 DEF k

LEMMA ItemBegins ==
    ASSUME NEW Ch, NEW t, Text(t, Ch), NEW p, NEW x, NEW q, ItemAt(t, p, x, q, Ch)
    PROVE  peek(t, p) # "EOF" /\ peek(t, p) \notin {SP, ")"} /\ p \in Offsets(t) /\ q \in Offsets(t)
  <1>1. p \in Offsets(t) /\ q \in (p + 1)..(Len(t) + 1)
    BY ItemIsRead
  <1>2. q \in Offsets(t)
    BY <1>1 DEF Offsets, Text
  <1>3. peek(t, p) \in Starters
    BY BareStarts DEF ItemAt
  <1> QED
    BY <1>1, <1>2, <1>3, StarterClasses

LEMMA ItemsPart ==
    ASSUME NEW Ch, NEW s, Text(s, Ch), NEW t, Text(t, Ch), NEW d, NEW F, Part(s, t, d, F),
           NEW i, NEW xs, NEW j, ItemsAt(s, i, xs, j, Ch)
    PROVE  ItemsAt(t, d + i, xs, d + j, Ch) /\ i \in Offsets(s) /\ j \in Offsets(s)
  <1>1. i \in Offsets(s) /\ j \in i..(Len(s) + 1) /\ Tuple(xs) /\ peek(s, skipSP(s, j)) = ")"
    BY DEF ItemsAt
  <1>2. j \in Offsets(s) /\ d + i \in Offsets(t) /\ d + j \in (d + i)..(Len(t) + 1)
    BY <1>1, PartChars
  <1>3. peek(t, skipSP(t, d + j)) = ")" /\ Tells(s, j, F, AfterEntry)
    BY <1>1, <1>2, SpacesPart, DelimitersDiffer
  <1>4. PICK at : /\ at[0] = i /\ at[Len(xs)] = j
                  /\ \A k \in 1..Len(xs) : /\ at[k - 1] \in Offsets(s)
                                           /\ ItemAt(s, skipSP(s, at[k - 1]), xs[k], at[k], Ch)
    BY DEF ItemsAt
  <1> DEFINE too == [k \in 0..Len(xs) |-> d + at[k]]
  <1>5. Len(xs) \in Nat
    BY <1>1 DEF Tuple
  <1>6. too[0] = d + i /\ too[Len(xs)] = d + j
    BY <1>4, <1>5
  <1>7. \A k \in 1..Len(xs) : /\ at[k - 1] \in Offsets(s) /\ peek(s, skipSP(s, at[k - 1])) # "EOF"
                              /\ ItemAt(s, skipSP(s, at[k - 1]), xs[k], at[k], Ch)
    BY <1>4, ItemBegins
  <1>8. ASSUME NEW k \in 1..Len(xs)
        PROVE  too[k - 1] \in Offsets(t) /\ ItemAt(t, skipSP(t, too[k - 1]), xs[k], too[k], Ch)
    <2>1. too[k - 1] = d + at[k - 1] /\ too[k] = d + at[k]
      BY <1>5
    <2>2. /\ at[k - 1] \in Offsets(s) /\ ItemAt(s, skipSP(s, at[k - 1]), xs[k], at[k], Ch)
          /\ peek(s, skipSP(s, at[k - 1])) # "EOF"
      BY <1>7
    <2>3. at[k] \in Offsets(s) /\ Tells(s, at[k], F, AfterEntry)
      <3>1. CASE k = Len(xs)
        BY <1>2, <1>3, <1>4, <3>1
      <3>2. CASE k # Len(xs)
        <4>1. k + 1 \in 1..Len(xs) /\ (k + 1) - 1 = k
          BY <1>5, <3>2
        <4>2. at[k] \in Offsets(s) /\ peek(s, skipSP(s, at[k])) # "EOF"
          BY <1>7, <4>1
        <4> QED
          BY <4>2, SpacesPart
      <3> QED
        BY <3>1, <3>2
    <2>4. Tells(s, at[k], F, AfterItem)
      BY <2>3, Telling, ClassesEnd
    <2>5. ItemAt(t, d + skipSP(s, at[k - 1]), xs[k], d + at[k], Ch)
      BY <2>2, <2>4, ItemPart
    <2>6. skipSP(t, d + at[k - 1]) = d + skipSP(s, at[k - 1]) /\ d + at[k - 1] \in Offsets(t)
      BY <2>2, SpacesPart
    <2> HIDE DEF too
    <2> QED
      BY <2>1, <2>5, <2>6
  <1> HIDE DEF too
  <1> QED
    BY <1>1, <1>2, <1>3, <1>6, <1>8 DEF ItemsAt

LEMMA ListPart ==
    ASSUME NEW Ch, NEW s, Text(s, Ch), NEW t, Text(t, Ch), NEW d, NEW F, Part(s, t, d, F),
           NEW i, NEW x, NEW j, ListAt(s, i, x, j, Ch), Tells(s, j, F, AfterItem)
    PROVE  ListAt(t, d + i, x, d + j, Ch) /\ i \in Offsets(s) /\ j \in Offsets(s)
  <1>1. i \in Offsets(s) /\ peek(s, i) = "("
    BY DEF ListAt
  <1>2. d + i \in Offsets(t) /\ peek(t, d + i) = "("
    BY <1>1, PartPeeks, DelimitersDiffer
  <1>3. PICK e : ItemsAt(s, i + 1, x.items, e, Ch) /\ ParamsAt(s, skipSP(s, e) + 1, x.params, j, Ch)
    BY DEF ListAt
  <1>4. ItemsAt(t, (d + i) + 1, x.items, d + e, Ch) /\ e \in Offsets(s)
    <2>1. ItemsAt(t, d + (i + 1), x.items, d + e, Ch) /\ e \in Offsets(s)
      BY <1>3, ItemsPart
    <2> QED
      BY <1>1, <2>1, PartNext
  <1>5. skipSP(t, d + e) = d + skipSP(s, e) /\ skipSP(s, e) \in Offsets(s)
    <2>1. peek(s, skipSP(s, e)) = ")"
      BY <1>3 DEF ItemsAt
    <2> QED
      BY <1>4, <2>1, SpacesPart, DelimitersDiffer
  <1>6. ParamsAt(t, skipSP(t, d + e) + 1, x.params, d + j, Ch) /\ j \in Offsets(s)
    <2>1. ParamsAt(t, d + (skipSP(s, e) + 1), x.params, d + j, Ch) /\ j \in Offsets(s)
      BY <1>3, ParamsPart
    <2> QED
      BY <1>5, <2>1, PartNext
  <1> QED
    BY <1>1, <1>2, <1>4, <1>6 DEF ListAt

LEMMA MemberPart ==
    ASSUME NEW Ch, NEW s, Text(s, Ch), NEW t, Text(t, Ch), NEW d, NEW F, Part(s, t, d, F),
           NEW i, NEW x, NEW j, MemberAt(s, i, x, j, Ch), Tells(s, j, F, AfterItem)
    PROVE  MemberAt(t, d + i, x, d + j, Ch) /\ i \in Offsets(s) /\ j \in Offsets(s)
  BY ItemPart, ListPart DEF MemberAt

\* An entry whose key has a value.
MarkedAt(t, p, x, q, Ch) ==
    \E m : KeyAt(t, p, x.key, m) /\ peek(t, m) = "=" /\ MemberAt(t, m + 1, x.member, q, Ch)

LEMMA MarkedPart ==
    ASSUME NEW Ch, NEW s, Text(s, Ch), NEW t, Text(t, Ch), NEW d, NEW F, Part(s, t, d, F),
           NEW i, NEW x, NEW j, MarkedAt(s, i, x, j, Ch), Tells(s, j, F, AfterItem)
    PROVE  MarkedAt(t, d + i, x, d + j, Ch) /\ i \in Offsets(s) /\ j \in Offsets(s)
  <1>1. PICK m : KeyAt(s, i, x.key, m) /\ peek(s, m) = "=" /\ MemberAt(s, m + 1, x.member, j, Ch)
    BY DEF MarkedAt
  <1>2. m \in Offsets(s) /\ i \in Offsets(s)
    BY <1>1, AtPlaces
  <1>3. Tells(s, m, F, isTokenChar)
    BY <1>1, <1>2, Telling, ClassesEnd, DelimitersDiffer
  <1>4. KeyAt(t, d + i, x.key, d + m)
    BY <1>1, <1>3, KeyPart
  <1>5. peek(t, d + m) = "="
    BY <1>1, <1>2, PartPeeks, DelimitersDiffer
  <1>6. MemberAt(t, d + (m + 1), x.member, d + j, Ch) /\ j \in Offsets(s)
    BY <1>1, MemberPart
  <1>7. MemberAt(t, (d + m) + 1, x.member, d + j, Ch)
    BY <1>2, <1>6, PartNext
  <1> QED
    BY <1>2, <1>4, <1>5, <1>6, <1>7 DEF MarkedAt

LEMMA EntryPart ==
    ASSUME NEW Ch, NEW s, Text(s, Ch), NEW t, Text(t, Ch), NEW d, NEW F, Part(s, t, d, F),
           NEW i, NEW x, NEW j, EntryAt(s, i, x, j, Ch), Tells(s, j, F, AfterEntry)
    PROVE  EntryAt(t, d + i, x, d + j, Ch) /\ i \in Offsets(s) /\ j \in Offsets(s)
  <1>1. i \in Offsets(s) /\ x = [key |-> x.key, member |-> x.member]
    BY DEF EntryAt
  <1>2. d + i \in Offsets(t)
    BY <1>1, PartPeeks
  <1>3. CASE MarkedAt(s, i, x, j, Ch)
    <2>1. PICK m : KeyAt(s, i, x.key, m) /\ MemberAt(s, m + 1, x.member, j, Ch)
      BY <1>3 DEF MarkedAt
    <2>2. j \in ((m + 1) + 1)..(Len(s) + 1) /\ m + 1 \in Offsets(s)
      BY <2>1, MemberIsRead
    <2>3. j \in Offsets(s)
      BY <2>2 DEF Offsets, Text
    <2>4. Tells(s, j, F, AfterItem)
      BY <2>3, Telling, ClassesEnd
    <2>5. MarkedAt(t, d + i, x, d + j, Ch) /\ j \in Offsets(s)
      BY <1>3, <2>4, MarkedPart
    <2> QED
      BY <1>1, <1>2, <2>5 DEF EntryAt, MarkedAt
  <1>4. CASE KeyAt(s, i, x.key, j) /\ peek(s, j) \notin Blank \cup {"="} /\ x.member = Flag
    <2>1. j \in Offsets(s)
      BY <1>4, AtPlaces
    <2>2. Tells(s, j, F, isTokenChar) /\ Tells(s, j, F, Blank \cup {"="})
      BY <2>1, Telling, ClassesEnd
    <2>3. KeyAt(t, d + i, x.key, d + j) /\ peek(t, d + j) \notin Blank \cup {"="}
      BY <1>4, <2>1, <2>2, KeyPart, PartPeeks
    <2> QED
      BY <1>1, <1>2, <1>4, <2>1, <2>3 DEF EntryAt
  <1> QED
    BY <1>3, <1>4 DEF EntryAt, MarkedAt

-----------------------------------------------------------------------------
(* Entries with commas between them, from p to q.                          *)

Run(t, p, xs, q, Ch) ==
    /\ Tuple(xs) /\ Len(xs) # 0
    /\ \E st, en : /\ st[1] = p /\ en[Len(xs)] = q
                   /\ \A k \in 1..Len(xs) : EntryAt(t, st[k], xs[k], en[k], Ch)
                   /\ \A k \in 2..Len(xs) : /\ peek(t, skipOWS(t, en[k - 1])) = Comma
                                            /\ st[k] = afterComma(t, en[k - 1]) /\ st[k] <= Len(t)

LEMMA EntryPlaces ==
    ASSUME NEW Ch, NEW t, Text(t, Ch), NEW p, NEW x, NEW q, EntryAt(t, p, x, q, Ch)
    PROVE  /\ p \in Offsets(t) /\ q \in Offsets(t) /\ p <= Len(t) /\ peek(t, p) \notin Blank
  <1>1. p \in Offsets(t) /\ q \in (p + 1)..(Len(t) + 1)
    BY EntryIsRead
  <1>2. p <= Len(t) /\ q \in Offsets(t)
    BY <1>1 DEF Offsets, Text
  <1>3. PICK m : KeyAt(t, p, x.key, m)
    BY DEF EntryAt
  <1>4. peek(t, p) \in isAlpha \cup {"*"}
    BY <1>3, KeyIsRead
  <1>5. \A c \in isAlpha \cup {"*"} : c \in Starters
    BY DEF Starters
  <1>6. peek(t, p) \notin Blank
    BY <1>4, <1>5, StarterClasses DEF Blank
  <1> QED
    BY <1>1, <1>2, <1>6

LEMMA RunOfEntries ==
    ASSUME NEW Ch, NEW t, Text(t, Ch), NEW xs, NEW q
    PROVE  EntriesIn(t, xs, q, Ch) <=>
             \E e : Run(t, 1, xs, e, Ch) /\ q = skipOWS(t, e) /\ peek(t, q) # Comma
  <1>1. ASSUME EntriesIn(t, xs, q, Ch)
        PROVE  \E e : Run(t, 1, xs, e, Ch) /\ q = skipOWS(t, e) /\ peek(t, q) # Comma
    <2>1. PICK st, en : /\ Row(t, xs, st, en, q)
                        /\ \A k \in 1..Len(xs) : EntryAt(t, st[k], xs[k], en[k], Ch)
      BY <1>1 DEF EntriesIn
    <2>2. Run(t, 1, xs, en[Len(xs)], Ch)
      BY <2>1 DEF Run, Row
    <2>3. q = skipOWS(t, en[Len(xs)]) /\ peek(t, q) # Comma
      BY <2>1 DEF Row
    <2> QED
      BY <2>2, <2>3
  <1>2. ASSUME NEW e, Run(t, 1, xs, e, Ch), q = skipOWS(t, e), peek(t, q) # Comma
        PROVE  EntriesIn(t, xs, q, Ch)
    <2>1. PICK st, en : /\ st[1] = 1 /\ en[Len(xs)] = e
                        /\ \A k \in 1..Len(xs) : EntryAt(t, st[k], xs[k], en[k], Ch)
                        /\ \A k \in 2..Len(xs) : /\ peek(t, skipOWS(t, en[k - 1])) = Comma
                                                 /\ st[k] = afterComma(t, en[k - 1]) /\ st[k] <= Len(t)
      BY <1>2 DEF Run
    <2>2. \A k \in 1..Len(xs) : st[k] \in Offsets(t) /\ en[k] \in Offsets(t)
      BY <2>1, EntryPlaces
    <2>3. Tuple(xs) /\ Len(xs) # 0
      BY <1>2 DEF Run
    <2>4. Row(t, xs, st, en, q)
      BY <1>2, <2>1, <2>2, <2>3 DEF Row
    <2> QED
      BY <2>1, <2>4 DEF EntriesIn
  <1> QED
    BY <1>1, <1>2

LEMMA RunPlaces ==
    ASSUME NEW Ch, NEW t, Text(t, Ch), NEW p, NEW xs, NEW q, Run(t, p, xs, q, Ch)
    PROVE  /\ p \in Offsets(t) /\ q \in Offsets(t) /\ p <= Len(t) /\ peek(t, p) \notin Blank
           /\ Tuple(xs) /\ Len(xs) \in Nat \ {0}
  <1>1. PICK st, en : /\ st[1] = p /\ en[Len(xs)] = q
                      /\ \A k \in 1..Len(xs) : EntryAt(t, st[k], xs[k], en[k], Ch)
    BY DEF Run
  <1>2. Tuple(xs) /\ Len(xs) \in Nat \ {0}
    BY DEF Run, Tuple
  <1>3. EntryAt(t, p, xs[1], en[1], Ch) /\ EntryAt(t, st[Len(xs)], xs[Len(xs)], q, Ch)
    BY <1>1, <1>2
  <1> QED
    BY <1>2, <1>3, EntryPlaces

LEMMA CommaAhead ==
    ASSUME NEW Ch, NEW s, Text(s, Ch), NEW F, NEW k \in Offsets(s), peek(s, skipOWS(s, k)) = Comma
    PROVE  k <= Len(s) /\ Tells(s, k, F, AfterEntry)
  <1> DEFINE m == skipOWS(s, k)
  <1>1. m \in k..(Len(s) + 1) /\ m \in Offsets(s) /\ peek(s, m) = Comma
    BY PastBlanks
  <1> HIDE DEF m
  <1>2. m <= Len(s)
    BY <1>1, Telling, DelimitersDiffer
  <1>3. k <= Len(s)
    BY <1>1, <1>2 DEF Offsets, Text
  <1> QED
    BY <1>3, Telling

LEMMA PartComma ==
    ASSUME NEW Ch, NEW s, Text(s, Ch), NEW t, Text(t, Ch), NEW d, NEW F, Part(s, t, d, F),
           NEW k \in Offsets(s), peek(s, skipOWS(s, k)) = Comma, afterComma(s, k) <= Len(s)
    PROVE  /\ peek(t, skipOWS(t, d + k)) = Comma /\ afterComma(t, d + k) = d + afterComma(s, k)
           /\ afterComma(s, k) \in Offsets(s)
  <1> DEFINE m == skipOWS(s, k)
             e == afterComma(s, k)
  <1>0. m \in Offsets(s) /\ e \in Offsets(s)
    BY PastBlanks, CommaFollows
  <1>1. skipOWS(t, d + k) = d + m
    <2>1. Tells(s, m, F, Blank)
      BY <1>0, Telling, ClassesEnd, DelimitersDiffer
    <2> QED
      BY <2>1, PartSpaces
  <1>2. peek(s, m) = Comma /\ Comma # "EOF"
    BY DelimitersDiffer
  <1>3. peek(t, d + m) = Comma
    BY <1>0, <1>1, <1>2, PartPeeks
  <1>4. m + 1 \in Offsets(s) /\ e = skipOWS(s, m + 1) /\ (d + m) + 1 = d + (m + 1)
    BY <1>0, <1>2, AfterMark, PartNext DEF afterComma
  <1>5. afterComma(t, d + k) = skipOWS(t, (d + m) + 1)
    BY <1>1 DEF afterComma
  <1>7. e <= Len(s)
    OBVIOUS
  <1> HIDE DEF m, e
  <1>6. skipOWS(t, d + (m + 1)) = d + skipOWS(s, m + 1) /\ skipOWS(s, m + 1) \in Offsets(s)
    <2>1. Tells(s, e, F, Blank)
      BY <1>0, <1>7, Telling, ClassesEnd
    <2> QED
      BY <1>0, <1>4, <2>1, PartSpaces
  <1> QED
    BY <1>1, <1>3, <1>4, <1>5, <1>6 DEF m, e

LEMMA RunPart ==
    ASSUME NEW Ch, NEW s, Text(s, Ch), NEW t, Text(t, Ch), NEW d, NEW F, Part(s, t, d, F),
           NEW p, NEW xs, NEW q, Run(s, p, xs, q, Ch), Tells(s, q, F, AfterEntry)
    PROVE  Run(t, d + p, xs, d + q, Ch) /\ p \in Offsets(s) /\ q \in Offsets(s)
  <1>1. PICK st, en : /\ st[1] = p /\ en[Len(xs)] = q
                      /\ \A k \in 1..Len(xs) : EntryAt(s, st[k], xs[k], en[k], Ch)
                      /\ \A k \in 2..Len(xs) : /\ peek(s, skipOWS(s, en[k - 1])) = Comma
                                               /\ st[k] = afterComma(s, en[k - 1]) /\ st[k] <= Len(s)
    BY DEF Run
  <1>2. Tuple(xs) /\ Len(xs) \in Nat \ {0} /\ p \in Offsets(s) /\ q \in Offsets(s)
    BY RunPlaces
  <1> DEFINE n == Len(xs)
             at == [k \in 1..n |-> d + st[k]]
             to == [k \in 1..n |-> d + en[k]]
  <1>3. at[1] = d + p /\ to[n] = d + q
    BY <1>1, <1>2
  <1>4. ASSUME NEW k \in 1..n PROVE EntryAt(t, at[k], xs[k], to[k], Ch) /\ at[k] <= Len(t)
    <2>1. at[k] = d + st[k] /\ to[k] = d + en[k]
      OBVIOUS
    <2>2. EntryAt(s, st[k], xs[k], en[k], Ch)
      BY <1>1
    <2> HIDE DEF at, to
    <2>4. Tells(s, en[k], F, AfterEntry)
      <3>1. CASE k = n
        BY <1>1, <3>1
      <3>2. CASE k # n
        <4>1. k + 1 \in 2..n /\ (k + 1) - 1 = k
          BY <1>2, <3>2
        <4>2. peek(s, skipOWS(s, en[k])) = Comma
          BY <1>1, <4>1
        <4>3. en[k] \in Offsets(s)
          BY <2>2, EntryPlaces
        <4> QED
          BY <4>2, <4>3, CommaAhead
      <3> QED
        BY <3>1, <3>2
    <2>3. EntryAt(t, at[k], xs[k], to[k], Ch)
      BY <2>1, <2>2, <2>4, EntryPart
    <2> QED
      BY <2>3, EntryPlaces
  <1>5. ASSUME NEW k \in 2..n
        PROVE  peek(t, skipOWS(t, to[k - 1])) = Comma /\ at[k] = afterComma(t, to[k - 1])
    <2>1. k \in 1..n /\ k - 1 \in 1..n
      BY <1>2
    <2>2. at[k] = d + st[k] /\ to[k - 1] = d + en[k - 1]
      BY <2>1
    <2>3. /\ peek(s, skipOWS(s, en[k - 1])) = Comma /\ st[k] = afterComma(s, en[k - 1])
          /\ st[k] <= Len(s)
      BY <1>1
    <2>4. en[k - 1] \in Offsets(s)
      BY <1>1, <2>1, EntryPlaces
    <2> HIDE DEF at, to
    <2> QED
      BY <2>2, <2>3, <2>4, PartComma
  <1>6. \A k \in 2..n : at[k] <= Len(t)
    BY <1>2, <1>4
  <1> HIDE DEF at, to
  <1> QED
    BY <1>2, <1>3, <1>4, <1>5, <1>6 DEF Run, n

\* A run after another one, with a comma between them.
LEMMA RunsJoin ==
    ASSUME NEW Ch, NEW t, Text(t, Ch), NEW E, NEW p, NEW xs \in Seq(E), NEW q, Run(t, p, xs, q, Ch),
           NEW r, NEW ys \in Seq(E), NEW u, Run(t, r, ys, u, Ch),
           peek(t, skipOWS(t, q)) = Comma, r = afterComma(t, q)
    PROVE  Run(t, p, xs \o ys, u, Ch)
  <1>1. PICK st, en : /\ st[1] = p /\ en[Len(xs)] = q
                      /\ \A k \in 1..Len(xs) : EntryAt(t, st[k], xs[k], en[k], Ch)
                      /\ \A k \in 2..Len(xs) : /\ peek(t, skipOWS(t, en[k - 1])) = Comma
                                               /\ st[k] = afterComma(t, en[k - 1]) /\ st[k] <= Len(t)
    BY DEF Run
  <1>2. PICK su, eu : /\ su[1] = r /\ eu[Len(ys)] = u
                      /\ \A k \in 1..Len(ys) : EntryAt(t, su[k], ys[k], eu[k], Ch)
                      /\ \A k \in 2..Len(ys) : /\ peek(t, skipOWS(t, eu[k - 1])) = Comma
                                               /\ su[k] = afterComma(t, eu[k - 1]) /\ su[k] <= Len(t)
    BY DEF Run
  <1> DEFINE n  == Len(xs)
             l  == Len(ys)
             zs == xs \o ys
             at == [k \in 1..(n + l) |-> IF k <= n THEN st[k] ELSE su[k - n]]
             to == [k \in 1..(n + l) |-> IF k <= n THEN en[k] ELSE eu[k - n]]
  <1>3. n \in Nat \ {0} /\ l \in Nat \ {0} /\ r <= Len(t)
    BY RunPlaces
  <1>4. /\ zs \in Seq(E) /\ Len(zs) = n + l
        /\ \A k \in 1..n : zs[k] = xs[k]
        /\ \A k \in (n + 1)..(n + l) : zs[k] = ys[k - n]
    OBVIOUS
  <1>5. /\ \A k \in 1..n : at[k] = st[k] /\ to[k] = en[k]
        /\ \A k \in (n + 1)..(n + l) : at[k] = su[k - n] /\ to[k] = eu[k - n]
    BY <1>3
  <1> HIDE DEF zs, at, to
  <1>6. at[1] = p /\ to[n + l] = u
    <2>1. 1 \in 1..n /\ n + l \in (n + 1)..(n + l) /\ (n + l) - n = l
      BY <1>3
    <2> QED
      BY <1>1, <1>2, <1>5, <2>1
  <1>7. ASSUME NEW k \in 1..(n + l) PROVE EntryAt(t, at[k], zs[k], to[k], Ch)
    <2>1. CASE k <= n
      <3>1. k \in 1..n
        BY <1>3, <2>1
      <3> QED
        BY <1>1, <1>4, <1>5, <3>1
    <2>2. CASE k > n
      <3>1. k \in (n + 1)..(n + l) /\ k - n \in 1..l
        BY <1>3, <2>2
      <3> QED
        BY <1>2, <1>4, <1>5, <3>1
    <2> QED
      BY <1>3, <2>1, <2>2
  <1>8. ASSUME NEW k \in 2..(n + l)
        PROVE  peek(t, skipOWS(t, to[k - 1])) = Comma /\ at[k] = afterComma(t, to[k - 1]) /\ at[k] <= Len(t)
    <2>1. CASE k <= n
      <3>1. k \in 1..n /\ k - 1 \in 1..n /\ k \in 2..n
        BY <1>3, <2>1
      <3> QED
        BY <1>1, <1>5, <3>1
    <2>2. CASE k = n + 1
      <3>1. k - 1 = n /\ n \in 1..n /\ k \in (n + 1)..(n + l) /\ k - n = 1
        BY <1>3, <2>2
      <3> QED
        BY <1>1, <1>2, <1>3, <1>5, <3>1
    <2>3. CASE k > n + 1
      <3> DEFINE m == k - n
      <3>1. k \in (n + 1)..(n + l) /\ k - 1 \in (n + 1)..(n + l) /\ m \in 2..l /\ (k - 1) - n = m - 1
        BY <1>3, <2>3
      <3>2. at[k] = su[m] /\ to[k - 1] = eu[m - 1]
        BY <1>5, <3>1
      <3> HIDE DEF m
      <3>3. peek(t, skipOWS(t, eu[m - 1])) = Comma /\ su[m] = afterComma(t, eu[m - 1]) /\ su[m] <= Len(t)
        BY <1>2, <3>1
      <3> QED
        BY <3>2, <3>3
    <2> QED
      BY <1>3, <2>1, <2>2, <2>3
  <1>9. Tuple(zs) /\ Len(zs) # 0
    BY <1>3, <1>4, Tuples
  <1>10. Len(zs) = n + l
    BY <1>4
  <1> HIDE DEF n, l
  <1>11. \E sz, ez : /\ sz[1] = p /\ ez[Len(zs)] = u
                     /\ \A k \in 1..Len(zs) : EntryAt(t, sz[k], zs[k], ez[k], Ch)
                     /\ \A k \in 2..Len(zs) : /\ peek(t, skipOWS(t, ez[k - 1])) = Comma
                                              /\ sz[k] = afterComma(t, ez[k - 1]) /\ sz[k] <= Len(t)
    <2>1. /\ at[1] = p /\ to[Len(zs)] = u
          /\ \A k \in 1..Len(zs) : EntryAt(t, at[k], zs[k], to[k], Ch)
          /\ \A k \in 2..Len(zs) : /\ peek(t, skipOWS(t, to[k - 1])) = Comma
                                   /\ at[k] = afterComma(t, to[k - 1]) /\ at[k] <= Len(t)
      BY <1>6, <1>7, <1>8, <1>10
    <2> QED
      BY <2>1
  <1>12. Run(t, p, zs, u, Ch)
    BY <1>9, <1>11 DEF Run
  <1> QED
    BY <1>12 DEF zs

-----------------------------------------------------------------------------
(* The dictionary of the entries of several lines.                         *)

\* The entries F[n] of the first n lines, X[n] those of line n.
Cats(F, X, N) == F[0] = <<>> /\ \A n \in 1..N : F[n] = F[n - 1] \o X[n]

Placed(F, X, n) ==
    \A m \in 1..n : \A k \in 1..Len(X[m]) : /\ Len(F[m - 1]) + k \in 1..Len(F[n])
                                             /\ F[n][Len(F[m - 1]) + k] = X[m][k]
Covered(F, X, n) ==
    \A j \in 1..Len(F[n]) : \E m \in 1..n : \E k \in 1..Len(X[m]) : j = Len(F[m - 1]) + k

LEMMA CatsExist ==
    ASSUME NEW E, NEW N \in Nat, NEW X, \A n \in 1..N : X[n] \in Seq(E)
    PROVE  \E F : Cats(F, X, N) /\ \A n \in 0..N : F[n] \in Seq(E)
  <1> DEFINE S == Seq(E)
             g == [p \in (1..N) \X S |-> p[2] \o X[p[1]]]
             z == <<>>
  <1>1. z \in S
    OBVIOUS
  <1>2. ASSUME NEW n \in 1..N, NEW x \in S
        PROVE  g[<<n, x>>] = x \o X[n] /\ x \o X[n] \in S
    BY Concats
  <1>3. \A n \in 1..N : \A x \in S : g[<<n, x>>] \in S
    BY <1>2
  <1> HIDE DEF g, S, z
  <1>4. PICK F \in [0..N -> S] : Recurs(F, N, z, g)
    BY ONLY <1>1, <1>3, N \in Nat, Recursion
  <1>5. ASSUME NEW n \in 1..N PROVE F[n] = F[n - 1] \o X[n]
    <2>1. n - 1 \in 0..N /\ F[n - 1] \in S
      OBVIOUS
    <2> QED
      BY <1>2, <1>4, <2>1 DEF Recurs
  <1>6. F[0] = <<>>
    BY <1>4 DEF Recurs, z
  <1> QED
    BY <1>4, <1>5, <1>6 DEF Cats, S

LEMMA CatsStep ==
    ASSUME NEW E, NEW a \in Seq(E), NEW x \in Seq(E)
    PROVE  /\ Len(a) \in Nat /\ Len(x) \in Nat /\ Len(a \o x) = Len(a) + Len(x)
           /\ \A j \in 1..Len(a) : (a \o x)[j] = a[j]
           /\ \A k \in 1..Len(x) : (a \o x)[Len(a) + k] = x[k]
  OBVIOUS

LEMMA CatsPlaced ==
    ASSUME NEW E, NEW N \in Nat, NEW X, \A n \in 1..N : X[n] \in Seq(E),
           NEW F, Cats(F, X, N), \A n \in 0..N : F[n] \in Seq(E)
    PROVE  \A n \in 0..N : Placed(F, X, n) /\ Covered(F, X, n)
  <1> DEFINE S == {n \in 0..N : Placed(F, X, n) /\ Covered(F, X, n)}
  <1>1. 0 \in S
    <2>1. F[0] = <<>>
      BY DEF Cats
    <2>2. Placed(F, X, 0) /\ Covered(F, X, 0)
      BY <2>1 DEF Placed, Covered
    <2> QED
      BY <2>2
  <1>2. ASSUME NEW n \in 1..N, n - 1 \in S PROVE n \in S
    <2> DEFINE a == F[n - 1]
               x == X[n]
               b == F[n]
    <2>0. n - 1 \in 0..N
      OBVIOUS
    <2>1. a \in Seq(E) /\ x \in Seq(E) /\ b = a \o x
      <3>1. F[n] = F[n - 1] \o X[n]
        BY DEF Cats
      <3> QED
        BY <2>0, <3>1
    <2>2. /\ Len(a) \in Nat /\ Len(x) \in Nat /\ Len(b) = Len(a) + Len(x)
          /\ \A j \in 1..Len(a) : b[j] = a[j]
          /\ \A k \in 1..Len(x) : b[Len(a) + k] = x[k]
      <3> HIDE DEF a, x, b
      <3> QED
        BY <2>1, CatsStep
    <2>3. Placed(F, X, n - 1) /\ Covered(F, X, n - 1)
      BY <1>2
    <2>4. ASSUME NEW m \in 1..n, NEW k \in 1..Len(X[m])
          PROVE  Len(F[m - 1]) + k \in 1..Len(b) /\ b[Len(F[m - 1]) + k] = X[m][k]
      <3>1. CASE m = n
        <4>1. k \in 1..Len(x) /\ F[m - 1] = a /\ X[m] = x
          BY <3>1
        <4> HIDE DEF a, b, x
        <4>2. Len(a) + k \in 1..Len(b) /\ b[Len(a) + k] = x[k]
          BY <2>2, <4>1
        <4> QED
          BY <4>1, <4>2
      <3>2. CASE m # n
        <4> DEFINE j == Len(F[m - 1]) + k
        <4>1. m \in 1..(n - 1)
          BY <3>2
        <4>2. j \in 1..Len(a) /\ a[j] = X[m][k]
          BY <2>3, <4>1 DEF Placed
        <4> HIDE DEF a, b, x, j
        <4>3. j \in 1..Len(b) /\ b[j] = X[m][k]
          BY <2>2, <4>2
        <4> QED
          BY <4>3 DEF j
      <3> QED
        BY <3>1, <3>2
    <2>5. ASSUME NEW j \in 1..Len(b)
          PROVE  \E m \in 1..n : \E k \in 1..Len(X[m]) : j = Len(F[m - 1]) + k
      <3>1. CASE j <= Len(a)
        <4>1. j \in 1..Len(a)
          BY <2>2, <3>1
        <4>2. PICK m \in 1..(n - 1) : \E k \in 1..Len(X[m]) : j = Len(F[m - 1]) + k
          BY <2>3, <4>1 DEF Covered
        <4>3. m \in 1..n
          OBVIOUS
        <4> QED
          BY <4>2, <4>3
      <3>2. CASE j > Len(a)
        <4> DEFINE k == j - Len(a)
        <4>1. k \in 1..Len(x) /\ j = Len(a) + k
          <5> HIDE DEF a, b, x
          <5> QED
            BY <2>2, <3>2
        <4>2. n \in 1..n
          OBVIOUS
        <4> HIDE DEF k
        <4> QED
          BY <4>1, <4>2
      <3> QED
        BY <2>2, <3>1, <3>2
    <2>6. Placed(F, X, n) /\ Covered(F, X, n)
      BY <2>4, <2>5 DEF Placed, Covered
    <2> QED
      BY <2>6
  <1> HIDE DEF S
  <1>3. 0..N \subseteq S
    BY <1>1, <1>2, StepByStep
  <1> QED
    BY <1>3 DEF S

\* What is meant by the entries of each line, and by all of them.
LEMMA LinesMerge ==
    ASSUME NEW E, NEW N \in Nat, NEW X, \A n \in 1..N : X[n] \in Seq(E),
           NEW F, Cats(F, X, N), \A n \in 0..N : F[n] \in Seq(E),
           NEW D, Len(D) = N, \A n \in 1..N : Merged(D[n], X[n], Len(X[n])),
           NEW d, Merged(d, F[N], Len(F[N]))
    PROVE  Merges(d, D)
  <1> DEFINE zs == F[N]
             o(n) == Len(F[n - 1])
  <1>1. /\ \A m \in 1..N : \A k \in 1..Len(X[m]) : o(m) + k \in 1..Len(zs) /\ zs[o(m) + k] = X[m][k]
        /\ \A j \in 1..Len(zs) : \E m \in 1..N : \E k \in 1..Len(X[m]) : j = o(m) + k
    <2>1. N \in 0..N
      OBVIOUS
    <2>2. Placed(F, X, N) /\ Covered(F, X, N)
      BY <2>1, CatsPlaced
    <2> QED
      BY <2>2 DEF Placed, Covered
  <1>2. \A n \in 1..N : \A m \in 1..(n - 1) : \A k \in 1..Len(X[m]) : o(m) + k <= o(n)
    <2>1. ASSUME NEW n \in 1..N, NEW m \in 1..(n - 1), NEW k \in 1..Len(X[m]) PROVE o(m) + k <= o(n)
      <3>1. n - 1 \in 0..N
        OBVIOUS
      <3>2. Placed(F, X, n - 1)
        BY <3>1, CatsPlaced
      <3> QED
        BY <3>2 DEF Placed
    <2> QED
      BY <2>1
  <1>3. \A n \in 1..N : Len(X[n]) \in Nat /\ o(n) \in Nat
    <2>1. ASSUME NEW n \in 1..N PROVE Len(X[n]) \in Nat /\ o(n) \in Nat
      <3>1. n - 1 \in 0..N /\ X[n] \in Seq(E) /\ F[n - 1] \in Seq(E)
        OBVIOUS
      <3> QED
        BY <3>1
    <2> QED
      BY <2>1
  <1> HIDE DEF zs, o
  <1>4. ASSUME NEW n \in 1..N, NEW i \in 1..Len(D[n])
        PROVE  Has(d, D[n][i].key)
    <2>0. Merged(D[n], X[n], Len(X[n]))
      OBVIOUS
    <2>1. PICK m \in 1..Len(X[n]) : D[n][i] = X[n][m]
      BY <2>0 DEF Merged
    <2>2. o(n) + m \in 1..Len(zs) /\ zs[o(n) + m] = X[n][m]
      BY <1>1
    <2>3. \E k \in 1..Len(d) : d[k].key = zs[o(n) + m].key
      BY <2>2 DEF Merged, zs
    <2> QED
      BY <2>1, <2>2, <2>3 DEF Has
  <1>5. ASSUME NEW i \in 1..Len(d)
        PROVE  \E n \in 1..Len(D) :
                 /\ Has(D[n], d[i].key) /\ \A m \in (n + 1)..Len(D) : ~Has(D[m], d[i].key)
                 /\ d[i].member = Get(D[n], d[i].key)
    <2>1. PICK j \in 1..Len(zs) : d[i] = zs[j] /\ \A l \in (j + 1)..Len(zs) : zs[l].key # zs[j].key
      BY DEF Merged, zs
    <2>2. PICK n \in 1..N : \E k \in 1..Len(X[n]) : j = o(n) + k
      BY <1>1
    <2>3. PICK k \in 1..Len(X[n]) : j = o(n) + k
      BY <2>2
    <2> DEFINE x == X[n]
               key == d[i].key
    <2>4. d[i] = x[k]
      BY <1>1, <2>1, <2>3
    <2>5. ASSUME NEW l \in (k + 1)..Len(x) PROVE x[l].key # key
      <3>1. l \in 1..Len(x) /\ o(n) + l \in (j + 1)..Len(zs) /\ zs[o(n) + l] = x[l]
        <4>1. l \in 1..Len(x)
          BY <1>3
        <4>2. o(n) + l \in 1..Len(zs) /\ zs[o(n) + l] = x[l]
          BY <1>1, <4>1
        <4> QED
          BY <1>3, <2>3, <4>1, <4>2
      <3> QED
        BY <2>1, <3>1
    <2>6. PICK a \in 1..Len(D[n]) : D[n][a].key = key
      BY <2>4 DEF Merged
    <2>7. \A b \in 1..Len(D[n]) : D[n][b].key = key => b = a
      BY <2>6 DEF Merged
    <2>8. D[n][a] = x[k]
      <3>1. PICK m \in 1..Len(x) : D[n][a] = x[m] /\ \A l \in (m + 1)..Len(x) : x[l].key # x[m].key
        BY DEF Merged
      <3>2. ~(m > k)
        <4>1. m > k => m \in (k + 1)..Len(x)
          BY <1>3
        <4> QED
          BY <2>5, <2>6, <3>1, <4>1
      <3>3. ~(m < k)
        <4>1. m < k => k \in (m + 1)..Len(x)
          BY <1>3
        <4> QED
          BY <2>4, <2>6, <3>1, <4>1
      <3>4. m = k
        BY <1>3, <3>2, <3>3
      <3> QED
        BY <3>1, <3>4
    <2>9. Has(D[n], key)
      BY <2>6 DEF Has
    <2>10. d[i].member = Get(D[n], key)
      <3>1. (CHOOSE b \in 1..Len(D[n]) : D[n][b].key = key) = a
        BY <2>6, <2>7
      <3>2. Get(D[n], key) = D[n][a].member
        BY <3>1 DEF Get
      <3> QED
        BY <2>4, <2>8, <3>2
    <2>11. ASSUME NEW m \in (n + 1)..N, Has(D[m], key) PROVE FALSE
      <3>1. m \in 1..N /\ n \in 1..(m - 1)
        OBVIOUS
      <3>2. PICK b \in 1..Len(D[m]) : D[m][b].key = key
        BY <2>11 DEF Has
      <3>0. Merged(D[m], X[m], Len(X[m]))
        BY <3>1
      <3>3. PICK l \in 1..Len(X[m]) : D[m][b] = X[m][l]
        BY ONLY <3>0, <3>2 DEF Merged
      <3>4. o(n) + k <= o(m)
        BY <1>2, <3>1
      <3>5. o(m) + l \in 1..Len(zs) /\ zs[o(m) + l] = X[m][l]
        BY <1>1, <3>1
      <3>6. o(m) + l \in (j + 1)..Len(zs)
        <4>1. Len(X[m]) \in Nat /\ o(m) \in Nat /\ Len(X[n]) \in Nat /\ o(n) \in Nat
          BY <1>3, <3>1
        <4>2. l \in Nat \ {0} /\ k \in Nat \ {0}
          BY <4>1
        <4>3. j = o(n) + k /\ j <= o(m)
          BY <2>3, <3>4
        <4>4. o(m) + l \in 1..Len(zs)
          BY <3>5
        <4> QED
          BY ONLY <4>1, <4>2, <4>3, <4>4
      <3> QED
        BY <2>1, <3>2, <3>3, <3>5, <3>6
    <2> QED
      BY <2>9, <2>10, <2>11
  <1> QED
    BY <1>4, <1>5 DEF Merges

LEMMA MembersSteps ==
    ASSUME NEW D, Len(D) \in Nat, \A n \in 1..Len(D) : Len(D[n]) \in Nat
    PROVE  \E f : /\ f[0] = 0 /\ Members(D) = f[Len(D)]
                  /\ \A n \in 1..Len(D) : f[n] = f[n - 1] + Len(D[n])
                  /\ \A n \in 0..Len(D) : f[n] \in Nat
  <1> DEFINE N == Len(D)
             F(f) == [n \in 0..N |-> IF n = 0 THEN 0 ELSE f[n - 1] + Len(D[n])]
             sum == CHOOSE f : f = F(f)
             g == [p \in (1..N) \X Nat |-> p[2] + Len(D[p[1]])]
  <1>1. Members(D) = sum[N]
    BY DEF Members
  <1>2. ASSUME NEW n \in 1..N, NEW x \in Nat PROVE g[<<n, x>>] = x + Len(D[n]) /\ g[<<n, x>>] \in Nat
    OBVIOUS
  <1>3. \A n \in 1..N : \A x \in Nat : g[<<n, x>>] \in Nat
    BY <1>2
  <1>4. N \in Nat
    OBVIOUS
  <1>5. \E f : f = F(f)
    <2> HIDE DEF g, N
    <2>1. PICK f \in [0..N -> Nat] : Recurs(f, N, 0, g)
      BY <1>3, <1>4, Recursion
    <2>2. ASSUME NEW n \in 0..N PROVE f[n] = IF n = 0 THEN 0 ELSE f[n - 1] + Len(D[n])
      <3>1. CASE n = 0
        BY <2>1, <3>1 DEF Recurs
      <3>2. CASE n # 0
        <4>1. n \in 1..N /\ n - 1 \in 0..N
          BY <1>4, <3>2
        <4>2. f[n - 1] \in Nat
          BY <4>1
        <4>3. f[n] = g[<<n, f[n - 1]>>]
          BY <2>1, <4>1 DEF Recurs
        <4> QED
          BY <1>2, <3>2, <4>1, <4>2, <4>3
      <3> QED
        BY <3>1, <3>2
    <2>3. f = F(f)
      BY <2>2
    <2> QED
      BY <2>3
  <1>6. sum = F(sum)
    BY <1>5
  <1> HIDE DEF sum, N
  <1>7. sum[0] = 0
    BY <1>4, <1>6
  <1>8. \A n \in 1..N : sum[n] = sum[n - 1] + Len(D[n])
    BY <1>4, <1>6
  <1>9. 0..N \subseteq {n \in 0..N : sum[n] \in Nat}
    <2> DEFINE S == {n \in 0..N : sum[n] \in Nat}
    <2>1. 0 \in S
      BY <1>4, <1>7
    <2>2. ASSUME NEW n \in 1..N, n - 1 \in S PROVE n \in S
      <3>1. sum[n] = sum[n - 1] + Len(D[n]) /\ Len(D[n]) \in Nat /\ sum[n - 1] \in Nat
        BY <1>8, <2>2 DEF N
      <3> QED
        BY <1>4, <3>1
    <2> HIDE DEF S
    <2>3. 0..N \subseteq S
      BY <1>4, <2>1, <2>2, StepByStep
    <2> QED
      BY <2>3 DEF S
  <1> QED
    BY <1>1, <1>7, <1>8, <1>9 DEF N

\* A dictionary has one member more, or as many, after one entry more.
LEMMA OneMore ==
    ASSUME NEW E, NEW xs \in Seq(E), NEW n \in 1..Len(xs)
    PROVE  LET d == Dictionaries(xs)
           IN  /\ Len(d[n - 1]) \in Nat /\ Len(d[n]) \in Nat /\ Len(d[n - 1]) <= Len(d[n])
               /\ Len(d[n]) <= Len(d[n - 1]) + 1
               /\ (\E m \in 1..(n - 1) : xs[m].key = xs[n].key) => Len(d[n]) = Len(d[n - 1])
               /\ ~(\E m \in 1..(n - 1) : xs[m].key = xs[n].key) => Len(d[n]) = Len(d[n - 1]) + 1
  <1> DEFINE d == Dictionaries(xs)
             a == d[n - 1]
             b == d[n]
  <1>1. n - 1 \in 0..Len(xs) /\ n \in 0..Len(xs)
    OBVIOUS
  <1>2. a \in Seq(E) /\ b = put(a, xs[n]) /\ xs[n] \in E /\ Merged(a, xs, n - 1)
    BY <1>1, DictionarySteps, EntriesMerge
  <1> HIDE DEF a, b
  <1>3. Len(a) \in Nat
    BY <1>2
  <1>4. CASE \E m \in 1..(n - 1) : xs[m].key = xs[n].key
    <2>1. \E i \in 1..Len(a) : a[i].key = xs[n].key
      BY <1>2, <1>4 DEF Merged
    <2>2. Len(b) = Len(a)
      BY <1>2, <2>1, PutKnown
    <2> QED
      BY <1>3, <1>4, <2>2 DEF a, b
  <1>5. CASE ~ \E m \in 1..(n - 1) : xs[m].key = xs[n].key
    <2>1. \A i \in 1..Len(a) : a[i].key # xs[n].key
      <3>1. ASSUME NEW i \in 1..Len(a), a[i].key = xs[n].key PROVE FALSE
        <4>1. PICK m \in 1..(n - 1) : a[i] = xs[m]
          BY <1>2 DEF Merged
        <4> QED
          BY <1>5, <3>1, <4>1
      <3> QED
        BY <3>1
    <2>2. Len(b) = Len(a) + 1
      BY <1>2, <2>1, PutNew
    <2> QED
      BY <1>3, <1>5, <2>2 DEF a, b
  <1> QED
    BY <1>4, <1>5

LEMMA NoEntries ==
    ASSUME NEW E, NEW xs \in Seq(E)
    PROVE  Len(Dictionaries(xs)[0]) = 0
  BY DictionarySteps

LEMMA Grows ==
    ASSUME NEW E, NEW xs \in Seq(E), NEW k \in 0..Len(xs)
    PROVE  /\ Len(Dictionaries(xs)[k]) \in Nat
           /\ Len(Dictionaries(xs)[k]) <= Len(Dictionaries(xs)[Len(xs)])
  <1> DEFINE d == Dictionaries(xs)
             N == Len(xs)
             S == {n \in 0..N : k <= n => Len(d[k]) <= Len(d[n])}
  <1>0. N \in Nat /\ k \in 0..N
    OBVIOUS
  <1>1. \A n \in 0..N : Len(d[n]) \in Nat
    BY DictionarySteps
  <1>2. \A n \in 1..N : Len(d[n - 1]) <= Len(d[n])
    BY OneMore
  <1> HIDE DEF d, N
  <1>3. 0 \in S
    <2>1. k <= 0 => k = 0
      BY <1>0
    <2>2. Len(d[0]) \in Nat
      BY <1>0, <1>1
    <2> QED
      BY <1>0, <2>1, <2>2
  <1>4. ASSUME NEW n \in 1..N, n - 1 \in S PROVE n \in S
    <2>1. n \in 0..N /\ n - 1 \in 0..N
      BY <1>0
    <2>2. CASE k <= n - 1
      <3>1. Len(d[k]) <= Len(d[n - 1])
        BY <1>4, <2>2
      <3>2. Len(d[k]) \in Nat /\ Len(d[n - 1]) \in Nat /\ Len(d[n]) \in Nat /\ Len(d[n - 1]) <= Len(d[n])
        BY <1>0, <1>1, <1>2, <2>1
      <3>3. Len(d[k]) <= Len(d[n])
        BY ONLY <3>1, <3>2
      <3> QED
        BY <2>1, <3>3
    <2>3. CASE ~(k <= n - 1)
      <3>1. k <= n => k = n
        BY <1>0, <2>1, <2>3
      <3>2. Len(d[n]) <= Len(d[n])
        BY <1>1, <2>1
      <3> QED
        BY <2>1, <3>1, <3>2
    <2> QED
      BY <2>2, <2>3
  <1> HIDE DEF S
  <1>5. 0..N \subseteq S
    BY <1>0, <1>3, <1>4, StepByStep
  <1>6. N \in S
    BY <1>0, <1>5
  <1> QED
    BY <1>0, <1>1, <1>6 DEF S, N, d

\* Entries ys after the first a of zs add at most the members they have themselves.
LEMMA AtMost ==
    ASSUME NEW E, NEW zs \in Seq(E), NEW ys \in Seq(E), NEW a \in Nat, a + Len(ys) <= Len(zs),
           \A k \in 1..Len(ys) : zs[a + k] = ys[k]
    PROVE  \A k \in 0..Len(ys) : Len(Dictionaries(zs)[a + k])
                                   <= Len(Dictionaries(zs)[a]) + Len(Dictionaries(ys)[k])
  <1> DEFINE c(n) == Len(Dictionaries(zs)[n])
             b(k) == Len(Dictionaries(ys)[k])
             l == Len(ys)
             S == {k \in 0..l : c(a + k) <= c(a) + b(k)}
  <1>0. l \in Nat /\ Len(zs) \in Nat /\ a + l <= Len(zs)
    OBVIOUS
  <1>1. \A n \in 0..Len(zs) : c(n) \in Nat
    BY Grows
  <1>2. \A k \in 0..l : b(k) \in Nat
    BY Grows
  <1>3. b(0) = 0
    BY NoEntries
  <1>4. ASSUME NEW k \in 1..l
        PROVE  /\ c(a + k) <= c((a + k) - 1) + 1 /\ b(k - 1) <= b(k)
               /\ b(k) = b(k - 1) => c(a + k) = c((a + k) - 1)
               /\ b(k) = b(k - 1) \/ b(k) = b(k - 1) + 1
    <2> DEFINE n == a + k
    <2>1. n \in 1..Len(zs) /\ zs[n] = ys[k]
      BY <1>0
    <2>2. c(n) <= c(n - 1) + 1
      <3> HIDE DEF n
      <3> QED
        BY <2>1, OneMore
    <2>3. b(k - 1) <= b(k) /\ (b(k) = b(k - 1) \/ b(k) = b(k - 1) + 1) /\ b(k - 1) \in Nat
      BY OneMore
    <2>4. ASSUME b(k) = b(k - 1) PROVE c(n) = c(n - 1)
      <3>1. ASSUME ~ \E m \in 1..(k - 1) : ys[m].key = ys[k].key PROVE FALSE
        <4>1. b(k) = b(k - 1) + 1
          BY <3>1, OneMore
        <4> HIDE DEF b
        <4> QED
          BY <2>3, <2>4, <4>1
      <3>2. PICK m \in 1..(k - 1) : ys[m].key = ys[k].key
        BY <3>1
      <3>3. a + m \in 1..(n - 1) /\ zs[a + m] = ys[m]
        <4>1. m \in 1..l
          BY <1>0
        <4> QED
          BY <4>1
      <3> DEFINE j == a + m
      <3>4. j \in 1..(n - 1) /\ zs[j].key = zs[n].key
        BY <2>1, <3>2, <3>3
      <3> HIDE DEF j, n
      <3>5. \E i \in 1..(n - 1) : zs[i].key = zs[n].key
        BY <3>4
      <3> QED
        BY <2>1, <3>5, OneMore
    <2> QED
      BY <2>2, <2>3, <2>4
  <1> HIDE DEF c, b, l
  <1>5. 0 \in S
    <2>1. c(a + 0) = c(a) /\ c(a) \in Nat
      <3>1. a + 0 = a /\ a \in 0..Len(zs)
        BY <1>0
      <3> QED
        BY <1>1, <3>1
    <2> QED
      BY <1>0, <1>3, <2>1
  <1>6. ASSUME NEW k \in 1..l, k - 1 \in S PROVE k \in S
    <2>1. k \in 0..l /\ k - 1 \in 0..l /\ a + (k - 1) = (a + k) - 1
          /\ a \in 0..Len(zs) /\ a + k \in 0..Len(zs) /\ (a + k) - 1 \in 0..Len(zs)
      BY <1>0
    <2>2. c(a + (k - 1)) <= c(a) + b(k - 1)
      BY <1>6
    <2>3. c((a + k) - 1) <= c(a) + b(k - 1)
      BY <2>1, <2>2
    <2> DEFINE u == c(a + k)
               v == c((a + k) - 1)
               w == c(a)
               x == b(k)
               y == b(k - 1)
    <2>4. u \in Nat /\ v \in Nat /\ w \in Nat /\ x \in Nat /\ y \in Nat
      BY <1>1, <1>2, <2>1
    <2>5. u <= v + 1 /\ y <= x /\ (x = y => u = v) /\ (x = y \/ x = y + 1)
      BY <1>4
    <2>6. v <= w + y
      BY <2>3
    <2> HIDE DEF u, v, w, x, y
    <2>7. u <= w + x
      BY ONLY <2>4, <2>5, <2>6
    <2> QED
      BY <2>1, <2>7 DEF u, w, x
  <1> HIDE DEF S
  <1>7. 0..l \subseteq S
    BY <1>0, <1>5, <1>6, StepByStep
  <1>8. \A k \in 0..l : c(a + k) <= c(a) + b(k)
    BY <1>7 DEF S
  <1> QED
    BY <1>8 DEF c, b, l

\* The entries X[n] of N lines, those of the first n lines in one, and the dictionaries
\* of the lines.
Lined(E, N, X, F, D) ==
    /\ N \in Nat /\ \A n \in 1..N : X[n] \in Seq(E) /\ Len(X[n]) # 0
    /\ Cats(F, X, N) /\ \A n \in 0..N : F[n] \in Seq(E)
    /\ Len(D) = N /\ \A n \in 1..N : D[n] = Dictionaries(X[n])[Len(X[n])]

\* The dictionary of all lines has at no time more members than those of the lines
\* have together.
LEMMA LinesCount ==
    ASSUME NEW E, NEW N, NEW X, NEW F, NEW D, Lined(E, N, X, F, D)
    PROVE  \A j \in 0..Len(F[N]) : Len(Dictionaries(F[N])[j]) <= Members(D)
  <1>0. /\ N \in Nat /\ \A n \in 1..N : X[n] \in Seq(E) /\ Len(X[n]) # 0
        /\ Cats(F, X, N) /\ \A n \in 0..N : F[n] \in Seq(E)
        /\ Len(D) = N /\ \A n \in 1..N : D[n] = Dictionaries(X[n])[Len(X[n])]
    BY DEF Lined
  <1> USE <1>0
  <1> DEFINE zs == F[N]
             c(j) == Len(Dictionaries(zs)[j])
             L(n) == Len(F[n])
  <1>1. \A n \in 1..N : Len(D[n]) \in Nat
    <2>1. ASSUME NEW n \in 1..N PROVE Len(D[n]) \in Nat
      <3> DEFINE x == X[n]
                 e == Dictionaries(x)[Len(x)]
      <3>1. x \in Seq(E) /\ Len(x) \in 0..Len(x)
        OBVIOUS
      <3> HIDE DEF x
      <3>2. Len(e) \in Nat
        BY <3>1, Grows
      <3> QED
        BY <3>2 DEF x
    <2> QED
      BY <2>1
  <1>2. PICK f : /\ f[0] = 0 /\ Members(D) = f[N]
                 /\ \A n \in 1..N : f[n] = f[n - 1] + Len(D[n])
                 /\ \A n \in 0..N : f[n] \in Nat
    BY <1>1, MembersSteps
  <1>3. zs \in Seq(E) /\ \A n \in 0..N : L(n) \in Nat
    <2>1. \A n \in 0..N : F[n] \in Seq(E)
      OBVIOUS
    <2>2. N \in 0..N
      OBVIOUS
    <2> QED
      BY <2>1, <2>2
  <1>4. \A j \in 0..Len(zs) : c(j) \in Nat
    <2> HIDE DEF zs
    <2> QED
      BY <1>3, Grows
  <1> DEFINE S == {n \in 0..N : \A j \in 0..L(n) : j <= Len(zs) => c(j) <= f[n]}
  <1>5. L(0) = 0 /\ c(0) = 0
    <2>1. L(0) = 0
      BY DEF Cats
    <2>2. c(0) = 0
      <3> HIDE DEF zs
      <3> QED
        BY <1>3, NoEntries
    <2> QED
      BY <2>1, <2>2
  <1>6. ASSUME NEW n \in 1..N
        PROVE  LET a == L(n - 1)
               IN  /\ L(n) = a + Len(X[n]) /\ a + Len(X[n]) <= Len(zs) /\ Len(X[n]) \in Nat /\ a \in Nat
                   /\ \A k \in 1..Len(X[n]) : zs[a + k] = X[n][k]
    <2> DEFINE x == X[n]
    <2>1. n - 1 \in 0..N /\ x \in Seq(E) /\ Len(x) # 0 /\ F[n - 1] \in Seq(E)
      OBVIOUS
    <2>2. F[n] = F[n - 1] \o x
      BY DEF Cats
    <2>3. L(n) = L(n - 1) + Len(x) /\ Len(x) \in Nat /\ L(n - 1) \in Nat
      BY <2>1, <2>2
    <2>4. Placed(F, X, N)
      <3>1. N \in 0..N
        OBVIOUS
      <3> QED
        BY <3>1, CatsPlaced
    <2>5. \A k \in 1..Len(x) : L(n - 1) + k \in 1..Len(zs) /\ zs[L(n - 1) + k] = x[k]
      BY <2>4 DEF Placed
    <2> HIDE DEF x, L, zs
    <2>6. Len(x) \in 1..Len(x)
      BY <2>1, <2>3
    <2>7. L(n - 1) + Len(x) <= Len(zs)
      BY <1>3, <2>5, <2>6
    <2> QED
      BY <2>3, <2>5, <2>7 DEF x
  <1> HIDE DEF zs, L
  <1>7. 0 \in S
    BY <1>2, <1>5
  <1>8. ASSUME NEW n \in 1..N, n - 1 \in S PROVE n \in S
    <2> DEFINE a == L(n - 1)
               x == X[n]
               l == Len(x)
    <2>1. L(n) = a + l /\ a + l <= Len(zs) /\ l \in Nat /\ a \in Nat /\ \A k \in 1..l : zs[a + k] = x[k]
      BY <1>6
    <2>2. x \in Seq(E) /\ Len(D[n]) = Len(Dictionaries(x)[l])
      OBVIOUS
    <2>3. \A j \in 0..a : c(j) <= f[n - 1]
      <3>1. \A j \in 0..a : j <= Len(zs)
        BY <1>3, <2>1
      <3> QED
        BY <1>8, <3>1
    <2>4. n - 1 \in 0..N /\ n \in 0..N /\ f[n] = f[n - 1] + Len(D[n]) /\ f[n - 1] \in Nat /\ Len(D[n]) \in Nat
      <3>1. n - 1 \in 0..N /\ n \in 0..N
        OBVIOUS
      <3> QED
        BY <1>1, <1>2, <3>1
    <2> HIDE DEF a, x, l
    <2>5. ASSUME NEW j \in 0..L(n) PROVE c(j) <= f[n]
      <3>1. CASE j <= a
        <4>1. c(j) <= f[n - 1] /\ c(j) \in Nat
          <5>1. j \in 0..a /\ j \in 0..Len(zs)
            BY <1>3, <2>1, <3>1
          <5> QED
            BY <1>4, <2>3, <5>1
        <4> QED
          BY <2>4, <4>1
      <3>2. CASE j > a
        <4> DEFINE k == j - a
                   b == Len(Dictionaries(x)[k])
        <4>1. k \in 0..l /\ a + k = j /\ a \in 0..a /\ a \in 0..Len(zs) /\ j \in 0..Len(zs)
          BY <1>3, <2>1, <3>2
        <4>2. \A m \in 0..l : c(a + m) <= c(a) + Len(Dictionaries(x)[m])
          <5>1. zs \in Seq(E) /\ a + Len(x) <= Len(zs) /\ \A m \in 1..Len(x) : zs[a + m] = x[m]
            BY <1>3, <2>1 DEF l
          <5>2. \A m \in 0..Len(x) : c(a + m) <= c(a) + Len(Dictionaries(x)[m])
            BY <2>1, <2>2, <5>1, AtMost
          <5> QED
            BY <5>2 DEF l
        <4>3. b <= Len(D[n]) /\ b \in Nat
          <5> HIDE DEF k
          <5>1. b <= Len(Dictionaries(x)[l]) /\ b \in Nat
            BY <2>2, <4>1, Grows DEF l
          <5> QED
            BY <2>2, <5>1
        <4>4. c(j) <= c(a) + b
          BY <4>1, <4>2
        <4>5. c(a) <= f[n - 1] /\ c(a) \in Nat /\ c(j) \in Nat
          BY <1>4, <2>3, <4>1
        <4> HIDE DEF b, c
        <4> QED
          BY <2>4, <4>3, <4>4, <4>5
      <3> QED
        BY <1>3, <2>1, <3>1, <3>2
    <2> QED
      BY <2>4, <2>5
  <1>9. 0..N \subseteq S
    <2> HIDE DEF S
    <2> QED
      BY <1>7, <1>8, StepByStep
  <1>10. \A j \in 0..Len(zs) : c(j) <= Members(D)
    <2>1. N \in S /\ L(N) = Len(zs)
      BY <1>9 DEF L, zs
    <2>2. \A j \in 0..Len(zs) : j <= Len(zs)
      BY <1>3
    <2> QED
      BY <1>2, <2>1, <2>2
  <1> QED
    BY <1>10 DEF zs

-----------------------------------------------------------------------------
(* The lines of a field, combined.                                         *)

\* A text after a gap, put on in two steps or in one.
InTwo(x, gap, y) == (x \o gap) \o y
InOne(x, gap, y) == x \o (gap \o y)

LEMMA PutOn ==
    ASSUME NEW Ch, NEW x \in Seq(Ch), NEW gap \in Seq(Ch), NEW y \in Seq(Ch)
    PROVE  InTwo(x, gap, y) = InOne(x, gap, y)
  <1>1. (x \o gap) \o y = x \o (gap \o y)
    BY ConcatAssociative
  <1> QED
    BY <1>1 DEF InTwo, InOne

LEMMA JoinCommaIs ==
    ASSUME NEW Ch, NEW v \in Seq(Seq(Ch)), CommaSpace \in Seq(Ch)
    PROVE  JoinComma(v) = Joined(v, CommaSpace)
  <1> DEFINE N == Len(v)
             w == Gapped(v, CommaSpace)
  <1>1. /\ N \in Nat /\ w \in Seq(Seq(Ch)) /\ Len(w) = N /\ Joined(v, CommaSpace) = FlattenSeq(w)
        /\ \A k \in 1..N : v[k] \in Seq(Ch) /\ w[k] = Gap(CommaSpace, k) \o v[k]
    BY GappedTyped
  <1> HIDE DEF w
  <1>2. PICK f : Joins(f, v) /\ JoinComma(v) = f[N]
    BY <1>1, JoinSteps
  <1>3. PICK h : Flattens(h, w) /\ FlattenSeq(w) = h[N] /\ \A n \in 0..N : h[n] \in Seq(Ch)
    BY <1>1, FlatSteps
  <1> DEFINE S == {n \in 0..N : f[n] = h[n]}
  <1>4. 0 \in S
    <2>1. f[0] = <<>>
      BY ONLY <1>2 DEF Joins
    <2>2. h[0] = <<>>
      BY ONLY <1>3 DEF Flattens
    <2>3. 0 \in 0..N
      BY <1>1
    <2> QED
      BY <2>1, <2>2, <2>3
  <1>5. ASSUME NEW n \in 1..N, n - 1 \in S PROVE n \in S
    <2> DEFINE gap == Gap(CommaSpace, n)
    <2>1. n - 1 \in 0..N /\ n \in 0..N
      BY <1>1
    <2>2. f[n] = f[n - 1] \o gap \o v[n]
      BY <1>2 DEF Joins, Gap, CommaSpace, Comma
    <2>3. h[n] = h[n - 1] \o w[n] /\ w[n] = gap \o v[n]
      BY <1>1, <1>3 DEF Flattens
    <2>4. f[n - 1] = h[n - 1] /\ h[n - 1] \in Seq(Ch) /\ v[n] \in Seq(Ch)
      BY <1>1, <1>3, <1>5, <2>1
    <2>5. gap \in Seq(Ch)
      BY Gaps
    <2> DEFINE x == h[n - 1]
               y == v[n]
    <2>6. f[n] = InTwo(x, gap, y) /\ h[n] = InOne(x, gap, y)
      BY <2>2, <2>3, <2>4 DEF InTwo, InOne
    <2>7. x \in Seq(Ch) /\ y \in Seq(Ch)
      BY <2>4
    <2> HIDE DEF gap, x, y
    <2>8. f[n] = h[n]
      BY ONLY <2>5, <2>6, <2>7, PutOn
    <2> QED
      BY <2>1, <2>8
  <1> HIDE DEF S, N
  <1>6. 0..N \subseteq S
    BY <1>1, <1>4, <1>5, StepByStep
  <1>7. f[N] = h[N]
    BY <1>1, <1>6 DEF S
  <1> QED
    BY <1>1, <1>2, <1>3, <1>7

\* The value of a line is the line unfolded and trimmed.
LEMMA LineIs ==
    ASSUME NEW s \in Seq(FieldChars), canonicalizeFieldValues(<<s>>) # Invalid
    PROVE  LET u == normalizeLineFolding(s)
           IN  /\ u # Invalid /\ TrimSpace(u) \in Seq(FieldChars)
               /\ canonicalizeFieldValues(<<s>>) = TrimSpace(u)
  <1> DEFINE v == <<s>>
             u == normalizeLineFolding(s)
             normalized == [i \in 1..Len(v) |-> normalizeLineFolding(v[i])]
             trimmed == [i \in 1..Len(v) |-> TrimSpace(normalized[i])]
  <1>1. canonicalizeFieldValues(v) = IF \E i \in 1..Len(v) : normalized[i] = Invalid THEN Invalid
                                     ELSE JoinComma(trimmed)
    BY DEF canonicalizeFieldValues
  <1>2. Len(v) = 1 /\ normalized[1] = u /\ trimmed = <<TrimSpace(u)>>
    <2>1. Len(v) = 1 /\ v[1] = s
      OBVIOUS
    <2>2. normalized[1] = u
      BY <2>1
    <2>3. trimmed = [i \in 1..1 |-> TrimSpace(u)]
      BY <2>1
    <2> QED
      BY <2>1, <2>2, <2>3
  <1>3. u # Invalid
    BY <1>1, <1>2
  <1>4. canonicalizeFieldValues(v) = JoinComma(<<TrimSpace(u)>>)
    <2>1. \A i \in 1..Len(v) : normalized[i] # Invalid
      BY <1>2, <1>3
    <2> HIDE DEF normalized
    <2> QED
      BY <1>1, <1>2, <2>1
  <1>5. u \in Seq((FieldChars \ Newline) \cup {SP})
    BY <1>3, LineUnfolds DEF Unfolding
  <1>6. TrimSpace(u) \in Seq(FieldChars)
    <2>1. SP \in FieldChars
      BY SyntaxHas DEF FieldChars
    <2>2. u \in Seq(FieldChars)
      <3>1. (FieldChars \ Newline) \cup {SP} \subseteq FieldChars
        BY <2>1
      <3> HIDE DEF u
      <3> QED
        BY <1>5, <3>1
    <2> HIDE DEF u
    <2> QED
      BY <2>2, TrimmedEnds
  <1>7. JoinComma(<<TrimSpace(u)>>) = TrimSpace(u)
    BY <1>6, JoinOne
  <1> QED
    BY <1>3, <1>4, <1>6, <1>7

LineValues == [n \in 1..Len(lines) |-> canonicalizeFieldValues(<<lines[n]>>)]

\* The value of a field is the values of its lines with commas between them.
LEMMA FieldIs ==
    ASSUME FieldTyped, \A n \in 1..Len(lines) : LineValues[n] # Invalid
    PROVE  /\ LineValues \in Seq(Seq(FieldChars)) /\ Len(LineValues) = Len(lines) /\ Len(lines) \in Nat \ {0}
           /\ canonicalizeFieldValues(lines) = Joined(LineValues, CommaSpace)
  <1> DEFINE N == Len(lines)
             normalized == [i \in 1..N |-> normalizeLineFolding(lines[i])]
             trimmed == [i \in 1..N |-> TrimSpace(normalized[i])]
  <1>1. lines \in Seq(Seq(FieldChars)) /\ N \in Nat \ {0}
    BY DEF FieldTyped
  <1>2. ASSUME NEW n \in 1..N
        PROVE  /\ normalized[n] # Invalid /\ LineValues[n] = trimmed[n] /\ trimmed[n] \in Seq(FieldChars)
    <2> DEFINE s == lines[n]
               u == normalizeLineFolding(s)
    <2>1. s \in Seq(FieldChars)
      BY <1>1
    <2>2. LineValues[n] = canonicalizeFieldValues(<<s>>) /\ LineValues[n] # Invalid
      BY DEF LineValues
    <2>3. normalized[n] = u /\ trimmed[n] = TrimSpace(u)
      OBVIOUS
    <2>4. u # Invalid /\ TrimSpace(u) \in Seq(FieldChars) /\ canonicalizeFieldValues(<<s>>) = TrimSpace(u)
      <3> HIDE DEF s
      <3> QED
        BY <2>1, <2>2, LineIs
    <2> QED
      BY <2>2, <2>3, <2>4
  <1>3. canonicalizeFieldValues(lines) = IF \E i \in 1..N : normalized[i] = Invalid THEN Invalid
                                         ELSE JoinComma(trimmed)
    BY DEF canonicalizeFieldValues
  <1>4. trimmed = LineValues
    <2>1. LineValues = [n \in 1..N |-> LineValues[n]] /\ trimmed = [n \in 1..N |-> trimmed[n]]
      BY DEF LineValues
    <2>2. \A n \in 1..N : LineValues[n] = trimmed[n]
      BY <1>2
    <2> HIDE DEF trimmed
    <2> QED
      BY <2>1, <2>2
  <1>5. \A i \in 1..N : normalized[i] # Invalid
    BY <1>2
  <1>6. \A n \in 1..N : LineValues[n] \in Seq(FieldChars)
    BY <1>2
  <1>7. LineValues \in Seq(Seq(FieldChars)) /\ Len(LineValues) = N
    <2>1. LineValues = [n \in 1..N |-> LineValues[n]]
      BY DEF LineValues
    <2> QED
      BY <1>1, <1>6, <2>1, TextsTyped
  <1>8. canonicalizeFieldValues(lines) = JoinComma(LineValues)
    <2> HIDE DEF normalized, trimmed
    <2> QED
      BY <1>3, <1>4, <1>5
  <1>9. CommaSpace \in Seq(FieldChars)
    BY FieldCharsFull, CommaSpaceTyped
  <1> QED
    BY <1>1, <1>7, <1>8, <1>9, JoinCommaIs

CommaOrEnd == {Comma, "EOF"}

LEMMA CommaTells ==
    \A s, k : Tells(s, k, CommaOrEnd, AfterEntry) /\ Tells(s, k, CommaOrEnd, Blank)
  <1>1. Comma \in Ends
    BY DEF Ends
  <1>2. Comma \notin AfterEntry
    BY <1>1, TokenClasses, DelimitersDiffer DEF AfterEntry, AfterItem, Blank
  <1> QED
    BY <1>2, ClassesEnd DEF Tells, CommaOrEnd

\* The entries of a text that is part of another one.
LEMMA LineRun ==
    ASSUME NEW Ch, NEW s, Text(s, Ch), NEW t, Text(t, Ch), NEW d, Part(s, t, d, CommaOrEnd),
           NEW xs, EntriesIn(s, xs, Len(s) + 1, Ch)
    PROVE  \E q : Run(t, d + 1, xs, q, Ch) /\ skipOWS(t, q) = d + (Len(s) + 1)
  <1>1. PICK e : Run(s, 1, xs, e, Ch) /\ Len(s) + 1 = skipOWS(s, e)
    <2> DEFINE q == Len(s) + 1
    <2>1. EntriesIn(s, xs, q, Ch)
      OBVIOUS
    <2> HIDE DEF q
    <2>2. \E e : Run(s, 1, xs, e, Ch) /\ q = skipOWS(s, e) /\ peek(s, q) # Comma
      BY <2>1, RunOfEntries
    <2> QED
      BY <2>2 DEF q
  <1>2. Run(t, d + 1, xs, d + e, Ch) /\ e \in Offsets(s)
    BY <1>1, CommaTells, RunPart
  <1>3. skipOWS(t, d + e) = d + skipOWS(s, e)
    BY <1>2, CommaTells, PartSpaces
  <1> QED
    BY <1>1, <1>2, <1>3

\* The entries of a text from its beginning to a comma or the end.
RunTo(t, xs, place, Ch) == \E q : Run(t, 1, xs, q, Ch) /\ skipOWS(t, q) = place

\* A line is part of the field.
LEMMA TextIsPart ==
    ASSUME NEW Ch, NEW t, Text(t, Ch), NEW texts \in Seq(Seq(Ch)), NEW n \in Nat, Len(texts) = n,
           NEW b, NEW e, JoinedAt(t, 1, texts, CommaSpace, b, e, Len(t) + 1), NEW k \in 1..n
    PROVE  /\ Part(texts[k], t, b[k] - 1, CommaOrEnd) /\ b[k] \in Nat \ {0} /\ e[k] = b[k] + Len(texts[k])
           /\ Len(texts[k]) \in Nat
  <1> DEFINE s == texts[k]
             p == b[k]
  <1>1. s \in Seq(Ch) /\ Len(s) \in Nat
    OBVIOUS
  <1>2. Holds(t, p, s) /\ e[k] = p + Len(s)
    BY DEF JoinedAt
  <1>3. peek(t, p + Len(s)) \in {Comma, "EOF"}
    BY <1>2, CommasFollowTexts
  <1>4. Len(t) \in Nat
    BY DEF Text
  <1> HIDE DEF s, p
  <1>5. p \in Nat \ {0} /\ p + Len(s) <= Len(t) + 1 /\ \A m \in 1..Len(s) : t[(p - 1) + m] = s[m]
    BY <1>2 DEF Holds
  <1>6. p - 1 \in Nat /\ (p - 1) + Len(s) <= Len(t) /\ (p - 1) + Len(s) + 1 = p + Len(s)
    BY <1>1, <1>4, <1>5
  <1>7. Part(s, t, p - 1, CommaOrEnd)
    BY <1>3, <1>5, <1>6 DEF Part, CommaOrEnd
  <1> QED
    BY <1>1, <1>2, <1>5, <1>7 DEF s, p

\* The entries of all texts are those of the text they make.
LEMMA JoinedRuns ==
    ASSUME NEW Ch, Full(Ch), NEW texts \in Seq(Seq(Ch)), NEW n \in Nat \ {0}, Len(texts) = n,
           NEW t, Text(t, Ch),
           NEW b, NEW e, JoinedAt(t, 1, texts, CommaSpace, b, e, Len(t) + 1),
           NEW E, NEW X, \A k \in 1..n : X[k] \in Seq(E),
           \A k \in 1..n : EntriesIn(texts[k], X[k], Len(texts[k]) + 1, Ch),
           NEW F, Cats(F, X, n), \A k \in 0..n : F[k] \in Seq(E)
    PROVE  EntriesIn(t, F[n], Len(t) + 1, Ch)
  <1>1. CommaSpace \in Seq(Ch) /\ Len(t) \in Nat
    BY CommaSpaceTyped DEF Text
  <1>0. /\ Text(t, Ch) /\ n \in Nat /\ Len(texts) = n
        /\ JoinedAt(t, 1, texts, CommaSpace, b, e, Len(t) + 1)
    OBVIOUS
  <1>2. ASSUME NEW k \in 1..n
        PROVE  /\ Part(texts[k], t, b[k] - 1, CommaOrEnd) /\ b[k] \in Nat \ {0} /\ e[k] = b[k] + Len(texts[k])
               /\ Len(texts[k]) \in Nat
               /\ k # n => Holds(t, e[k], CommaSpace) /\ b[k + 1] = e[k] + 2
    <2>1. /\ Part(texts[k], t, b[k] - 1, CommaOrEnd) /\ b[k] \in Nat \ {0} /\ e[k] = b[k] + Len(texts[k])
          /\ Len(texts[k]) \in Nat
      BY TextIsPart
    <2>2. k # n => Holds(t, e[k], CommaSpace)
      BY ONLY <1>0, CommasFollowTexts
    <2>3. k # n => b[k + 1] = e[k] + 2
      BY ONLY <1>0, CommasFollowTexts
    <2> QED
      BY <2>1, <2>2, <2>3
  <1>3. ASSUME NEW k \in 1..n
        PROVE  \E q : Run(t, b[k], X[k], q, Ch) /\ skipOWS(t, q) = e[k]
    <2> DEFINE s == texts[k]
               d == b[k] - 1
               x == X[k]
    <2>1. Part(s, t, d, CommaOrEnd) /\ b[k] \in Nat \ {0} /\ e[k] = b[k] + Len(s) /\ Len(s) \in Nat
      BY <1>2
    <2>2. Text(s, Ch) /\ EntriesIn(s, x, Len(s) + 1, Ch)
      BY DEF Text
    <2>3. d + 1 = b[k] /\ d + (Len(s) + 1) = e[k]
      <3> DEFINE p == b[k]
                 l == Len(s)
      <3>1. p \in Nat \ {0} /\ l \in Nat /\ e[k] = p + l /\ d = p - 1
        BY <2>1
      <3> HIDE DEF p, l, d
      <3>2. d + 1 = p /\ d + (l + 1) = p + l
        BY ONLY <3>1
      <3> QED
        BY <3>1, <3>2 DEF p, l
    <2> HIDE DEF s, d, x
    <2>4. \E q : Run(t, d + 1, x, q, Ch) /\ skipOWS(t, q) = d + (Len(s) + 1)
      BY <2>1, <2>2, LineRun
    <2> QED
      BY <2>3, <2>4 DEF x
  <1> DEFINE S == {k \in 0..n : k = 0 \/ RunTo(t, F[k], e[k], Ch)}
  <1>4. 0 \in S
    OBVIOUS
  <1>5. ASSUME NEW k \in 1..n, k - 1 \in S PROVE k \in S
    <2>0. k \in 0..n /\ k - 1 \in 0..n
      OBVIOUS
    <2> DEFINE x == X[k]
               a == F[k - 1]
    <2>1. a \in Seq(E) /\ x \in Seq(E) /\ F[k] = a \o x
      BY <2>0 DEF Cats
    <2>2. PICK u : Run(t, b[k], x, u, Ch) /\ skipOWS(t, u) = e[k]
      BY <1>3
    <2>3. CASE k = 1
      <3>1. b[k] = 1 /\ a = <<>>
        BY <2>3 DEF JoinedAt, Cats
      <3> HIDE DEF x, a
      <3>2. F[k] = x
        BY <2>1, <3>1
      <3>3. RunTo(t, F[k], e[k], Ch)
        BY <2>2, <3>1, <3>2 DEF RunTo
      <3> QED
        BY <2>0, <3>3
    <2>4. CASE k # 1
      <3> DEFINE c == e[k - 1]
                 r == b[k]
      <3>1. k - 1 \in 1..n /\ k - 1 # n /\ (k - 1) + 1 = k /\ k - 1 # 0
        BY <2>4
      <3>2. Holds(t, c, CommaSpace) /\ r = c + 2
        BY <1>2, <3>1
      <3>3. PICK q : Run(t, 1, a, q, Ch) /\ skipOWS(t, q) = c
        BY <1>5, <3>1 DEF RunTo
      <3>4. Run(t, r, x, u, Ch)
        BY <2>2
      <3> HIDE DEF x, a, c, r, S
      <3>5. /\ peek(t, c) = Comma /\ peek(t, c + 1) = SP /\ c + 1 \in Offsets(t) /\ c + 2 \in Offsets(t)
            /\ t[c + 1] = SP /\ c \in Nat \ {0}
        BY <3>2, CommaSpaceHeld
      <3>6. peek(t, r) \notin Blank
        BY <3>4, RunPlaces
      <3>7. skipOWS(t, c + 1) = r
        <4>1. r \in (c + 1)..(Len(t) + 1)
          BY <1>1, <3>2, <3>5 DEF Offsets
        <4>2. \A m \in (c + 1)..(r - 1) : t[m] \in Blank
          <5>1. \A m \in (c + 1)..(r - 1) : m = c + 1
            BY <3>2, <3>5
          <5> QED
            BY <3>5, <5>1, Blanks
        <4> QED
          BY <3>5, <3>6, <4>1, <4>2, PastBlanks
      <3>8. r = afterComma(t, q)
        BY <3>3, <3>7 DEF afterComma
      <3>9. Run(t, 1, a \o x, u, Ch)
        <4>1. peek(t, skipOWS(t, q)) = Comma
          BY <3>3, <3>5
        <4> QED
          BY <2>1, <3>3, <3>4, <3>8, <4>1, RunsJoin
      <3>10. RunTo(t, F[k], e[k], Ch)
        BY <2>1, <2>2, <3>9 DEF RunTo
      <3> QED
        BY <2>0, <3>10 DEF S
    <2> QED
      BY <2>3, <2>4
  <1> HIDE DEF S
  <1>6. 0..n \subseteq S
    BY <1>4, <1>5, StepByStep
  <1>7. n \in 0..n /\ n # 0 /\ n \in 1..n
    OBVIOUS
  <1>8. RunTo(t, F[n], e[n], Ch)
    BY <1>6, <1>7 DEF S
  <1>9. e[n] = Len(t) + 1 /\ peek(t, e[n]) = "EOF"
    <2>1. e[n] = Len(t) + 1
      BY DEF JoinedAt
    <2>2. Len(t) + 1 \in Nat \ {0} /\ Len(t) + 1 > Len(t)
      BY <1>1
    <2> QED
      BY <2>1, <2>2, PeekAt
  <1>10. peek(t, e[n]) # Comma
    BY <1>9, DelimitersDiffer
  <1> DEFINE zs == F[n]
             z == e[n]
  <1>11. \E q : Run(t, 1, zs, q, Ch) /\ z = skipOWS(t, q) /\ peek(t, z) # Comma
    BY <1>8, <1>10 DEF RunTo
  <1>12. z = Len(t) + 1
    BY <1>9
  <1> HIDE DEF zs, z
  <1>13. EntriesIn(t, zs, z, Ch)
    BY <1>11, RunOfEntries
  <1> QED
    BY <1>12, <1>13 DEF zs

EntriesOf(s, Ch) == CHOOSE xs : EntriesIn(s, xs, Len(s) + 1, Ch) /\ EntriesWithin(s, xs)

LEMMA EntriesOfLine ==
    ASSUME NEW Ch, NEW s, Text(s, Ch), s # <<>>, Whole(ParseDictionary(s), s)
    PROVE  LET xs == EntriesOf(s, Ch)
           IN  /\ EntriesIn(s, xs, Len(s) + 1, Ch) /\ EntriesWithin(s, xs) /\ Tuple(xs) /\ Len(xs) # 0
               /\ ParseDictionary(s).val = Dictionaries(xs)[Len(xs)]
  <1> DEFINE r == ParseDictionary(s)
             q == Len(s) + 1
             xs == EntriesOf(s, Ch)
  <1>1. \E ys : EntriesIn(s, ys, q, Ch) /\ EntriesWithin(s, ys)
    <2>1. r.ok /\ r.at = q
      BY DEF Whole
    <2>2. \/ r = Fail
          \/ \E ys, e : r = Got(Dictionaries(ys)[Len(ys)], e) /\ EntriesIn(s, ys, e, Ch) /\ EntriesWithin(s, ys)
      BY DictionaryReturns
    <2> HIDE DEF r, q
    <2>3. PICK ys, e : r = Got(Dictionaries(ys)[Len(ys)], e) /\ EntriesIn(s, ys, e, Ch) /\ EntriesWithin(s, ys)
      BY <2>1, <2>2, Results
    <2>4. e = q
      BY <2>1, <2>3, Results
    <2> QED
      BY <2>3, <2>4
  <1>2. EntriesIn(s, xs, q, Ch) /\ EntriesWithin(s, xs)
    BY <1>1 DEF EntriesOf
  <1> HIDE DEF xs, q
  <1>3. r = Got(Dictionaries(xs)[Len(xs)], q)
    BY <1>2, DictionaryIsRead
  <1>4. Tuple(xs) /\ Len(xs) # 0
    BY <1>2, RowBegins
  <1>5. r.val = Dictionaries(xs)[Len(xs)]
    BY <1>3, Results
  <1> QED
    BY <1>2, <1>4, <1>5 DEF xs, q

LEMMA MoreExceeds ==
    ASSUME NEW limit \in Nat, NEW c \in Nat, NEW m \in Nat, c <= m, Exceeds(c, limit)
    PROVE  Exceeds(m, limit)
  BY DEF Exceeds

\* Entries of lines that are each within the limits are so together, but for their
\* number.
LEMMA LinesWithin ==
    ASSUME NEW E, NEW n, NEW X, NEW F, NEW D, Lined(E, n, X, F, D),
           \A k \in 1..n : \A i \in 1..Len(X[k]) : EntryWithin(X[k][i])
    PROVE  /\ \A j \in 1..Len(F[n]) : EntryWithin(F[n][j])
           /\ ~Room(F[n]) => Exceeds(Members(D) + 1, Limits.MaxDictionaryMembers)
  <1>0. /\ n \in Nat /\ \A k \in 1..n : X[k] \in Seq(E) /\ Len(X[k]) # 0
        /\ Cats(F, X, n) /\ \A k \in 0..n : F[k] \in Seq(E)
        /\ Len(D) = n /\ \A k \in 1..n : D[k] = Dictionaries(X[k])[Len(X[k])]
    BY DEF Lined
  <1> USE <1>0
  <1> DEFINE zs == F[n]
             c(j) == Len(Dictionaries(zs)[j])
  <1>1. n \in 0..n /\ zs \in Seq(E)
    <2>1. n \in 0..n
      OBVIOUS
    <2> QED
      BY <2>1
  <1>2. Placed(F, X, n) /\ Covered(F, X, n)
    BY <1>1, CatsPlaced
  <1>3. ASSUME NEW j \in 1..Len(zs) PROVE EntryWithin(zs[j])
    <2>1. PICK k \in 1..n : \E i \in 1..Len(X[k]) : j = Len(F[k - 1]) + i
      BY <1>2 DEF Covered
    <2>2. PICK i \in 1..Len(X[k]) : j = Len(F[k - 1]) + i
      BY <2>1
    <2>3. zs[j] = X[k][i]
      BY <1>2, <2>2 DEF Placed
    <2> QED
      BY <2>3
  <1>4. \A j \in 0..Len(zs) : c(j) <= Members(D)
    <2>1. Lined(E, n, X, F, D)
      OBVIOUS
    <2>2. \A j \in 0..Len(F[n]) : Len(Dictionaries(F[n])[j]) <= Members(D)
      BY ONLY <2>1, LinesCount
    <2> QED
      BY <2>2
  <1>5. Members(D) \in Nat
    <2>1. ASSUME NEW k \in 1..n PROVE Len(D[k]) \in Nat
      <3> DEFINE x == X[k]
                 d == Dictionaries(x)[Len(x)]
      <3>1. x \in Seq(E) /\ Len(x) \in 0..Len(x)
        OBVIOUS
      <3> HIDE DEF x
      <3>2. Len(d) \in Nat
        BY <3>1, Grows
      <3> QED
        BY <3>2 DEF x
    <2>2. \E f : Members(D) = f[n] /\ \A k \in 0..n : f[k] \in Nat
      BY <2>1, MembersSteps
    <2> QED
      BY <1>1, <2>2
  <1>6. ASSUME ~Room(zs) PROVE Exceeds(Members(D) + 1, Limits.MaxDictionaryMembers)
    <2>1. PICK j \in 1..Len(zs) : Exceeds(c(j - 1) + 1, Limits.MaxDictionaryMembers)
      BY <1>6 DEF Room
    <2> HIDE DEF zs
    <2>2. j - 1 \in 0..Len(zs)
      BY <1>1
    <2> DEFINE a == c(j - 1)
    <2>3. a \in Nat
      BY <1>1, <2>2, Grows
    <2>4. a <= Members(D)
      BY <1>4, <2>2
    <2>5. Limits.MaxDictionaryMembers \in Nat
      BY FieldsAssumption
    <2>6. Exceeds(a + 1, Limits.MaxDictionaryMembers)
      BY <2>1
    <2> HIDE DEF a
    <2>7. a + 1 \in Nat /\ Members(D) + 1 \in Nat /\ a + 1 <= Members(D) + 1
      BY <1>5, <2>3, <2>4
    <2> QED
      BY ONLY <2>5, <2>6, <2>7, MoreExceeds
  <1> QED
    BY <1>3, <1>6

\* What is read of texts with commas between them.
LEMMA TextsMerge ==
    ASSUME NEW Ch, Full(Ch), NEW texts \in Seq(Seq(Ch)), NEW n \in Nat \ {0}, Len(texts) = n,
           NEW t, Text(t, Ch), checkInputLength(t),
           NEW b, NEW e, JoinedAt(t, 1, texts, CommaSpace, b, e, Len(t) + 1),
           \A k \in 1..n : texts[k] # <<>> /\ Whole(ParseDictionary(texts[k]), texts[k]),
           NEW D, Len(D) = n, \A k \in 1..n : D[k] = ParseDictionary(texts[k]).val
    PROVE  LET read == ParseDictionary(t)
           IN  \/ Whole(read, t) /\ Merges(read.val, D)
               \/ ~read.ok /\ Exceeds(Members(D) + 1, Limits.MaxDictionaryMembers)
  <1> DEFINE X == [k \in 1..n |-> EntriesOf(texts[k], Ch)]
             E == UNION {{X[k][i] : i \in 1..Len(X[k])} : k \in 1..n}
             q == Len(t) + 1
  <1>1. ASSUME NEW k \in 1..n
        PROVE  /\ EntriesIn(texts[k], X[k], Len(texts[k]) + 1, Ch) /\ EntriesWithin(texts[k], X[k])
               /\ Tuple(X[k]) /\ Len(X[k]) # 0 /\ D[k] = Dictionaries(X[k])[Len(X[k])]
    <2> DEFINE s == texts[k]
    <2>1. Text(s, Ch) /\ s # <<>> /\ Whole(ParseDictionary(s), s) /\ D[k] = ParseDictionary(s).val
      BY DEF Text
    <2>2. X[k] = EntriesOf(s, Ch)
      OBVIOUS
    <2> HIDE DEF s, X
    <2>3. LET xs == EntriesOf(s, Ch)
          IN  /\ EntriesIn(s, xs, Len(s) + 1, Ch) /\ EntriesWithin(s, xs) /\ Tuple(xs) /\ Len(xs) # 0
              /\ ParseDictionary(s).val = Dictionaries(xs)[Len(xs)]
      BY <2>1, EntriesOfLine
    <2> QED
      BY <2>1, <2>2, <2>3 DEF s
  <1> HIDE DEF X
  <1>2. ASSUME NEW k \in 1..n PROVE X[k] \in Seq(E)
    <2> DEFINE x == X[k]
               R == {x[i] : i \in 1..Len(x)}
    <2>1. R \subseteq E
      OBVIOUS
    <2>2. Tuple(x)
      BY <1>1
    <2> HIDE DEF x, E
    <2>3. x \in Seq(R)
      BY <2>2, Tuples
    <2> HIDE DEF R
    <2>4. x \in Seq(E)
      BY <2>1, <2>3
    <2> QED
      BY <2>4 DEF x
  <1> HIDE DEF E
  <1>3. PICK F : Cats(F, X, n) /\ \A k \in 0..n : F[k] \in Seq(E)
    BY <1>2, CatsExist
  <1> DEFINE zs == F[n]
             d == Dictionaries(zs)[Len(zs)]
  <1>4. n \in Nat /\ n \in 0..n /\ zs \in Seq(E)
    <2>1. n \in Nat /\ n \in 0..n
      OBVIOUS
    <2> QED
      BY <1>3, <2>1
  <1>5. \A k \in 1..n : EntriesIn(texts[k], X[k], Len(texts[k]) + 1, Ch)
    BY <1>1
  <1>6. EntriesIn(t, zs, q, Ch)
    BY <1>2, <1>3, <1>5, JoinedRuns
  <1>7. /\ \A j \in 1..Len(zs) : EntryWithin(zs[j])
        /\ ~Room(zs) => Exceeds(Members(D) + 1, Limits.MaxDictionaryMembers)
    <2>1. \A k \in 1..n : X[k] \in Seq(E) /\ Len(X[k]) # 0
      BY <1>1, <1>2
    <2>2. \A k \in 1..n : \A i \in 1..Len(X[k]) : EntryWithin(X[k][i])
      BY <1>1 DEF EntriesWithin
    <2>3. \A k \in 1..n : D[k] = Dictionaries(X[k])[Len(X[k])]
      BY <1>1
    <2>4. Lined(E, n, X, F, D)
      BY <1>3, <1>4, <2>1, <2>3 DEF Lined
    <2>5. /\ \A j \in 1..Len(F[n]) : EntryWithin(F[n][j])
          /\ ~Room(F[n]) => Exceeds(Members(D) + 1, Limits.MaxDictionaryMembers)
      BY ONLY <2>2, <2>4, LinesWithin
    <2> QED
      BY <2>5
  <1>8. CASE Room(zs)
    <2>1. EntriesWithin(t, zs)
      BY <1>7, <1>8 DEF EntriesWithin
    <2> HIDE DEF q, zs
    <2>2. ParseDictionary(t) = Got(d, q)
      BY <1>6, <2>1, DictionaryIsRead
    <2>3. Merges(d, D)
      <3>1. Merged(d, zs, Len(zs))
        <4>1. Len(zs) \in 0..Len(zs)
          BY <1>4
        <4> QED
          BY <1>4, <4>1, EntriesMerge
      <3>2. ASSUME NEW k \in 1..n PROVE Merged(D[k], X[k], Len(X[k]))
        <4> DEFINE x == X[k]
                   c == Dictionaries(x)[Len(x)]
        <4>1. x \in Seq(E) /\ D[k] = c
          BY <1>1, <1>2
        <4> HIDE DEF x
        <4>2. Len(x) \in 0..Len(x)
          BY <4>1
        <4>3. Merged(c, x, Len(x))
          BY <4>1, <4>2, EntriesMerge
        <4> QED
          BY <4>1, <4>3 DEF x
      <3> HIDE DEF d
      <3>3. Merged(d, F[n], Len(F[n]))
        BY <3>1 DEF zs
      <3>4. \A k \in 1..n : Merged(D[k], X[k], Len(X[k]))
        BY <3>2
      <3> QED
        BY <1>2, <1>3, <1>4, <3>3, <3>4, LinesMerge
    <2> HIDE DEF d
    <2>4. Whole(ParseDictionary(t), t) /\ ParseDictionary(t).val = d
      BY <2>2, Results DEF Whole, q
    <2> QED
      BY <2>3, <2>4
  <1>9. CASE ~Room(zs)
    <2>1. ~EntriesWithin(t, zs)
      BY <1>9 DEF EntriesWithin
    <2> HIDE DEF q, zs
    <2>2. ParseDictionary(t) = Fail
      BY <1>6, <2>1, DictionaryIsRead
    <2> QED
      BY <1>7, <1>9, <2>2, Results
  <1> QED
    BY <1>8, <1>9

\* The lines of a field that are dictionaries, put on one line, are read as the
\* dictionaries of all lines merged, unless that has more members than it may.
THEOREM LinesAreMerged == XSpec => []CombinedIsMerged
  <1>1. ASSUME FieldTyped PROVE CombinedIsMerged
    <2> DEFINE N      == Len(lines)
               whole  == canonicalizeFieldValues(lines)
               parsed == [n \in 1..Len(LineValues) |-> ParseDictionary(LineValues[n])]
               D      == [n \in 1..Len(parsed) |-> parsed[n].val]
               read   == ParseDictionary(whole)
    <2> SUFFICES ASSUME \A n \in 1..Len(LineValues) : LineValues[n] \notin {<<>>, Invalid},
                        \A n \in 1..Len(LineValues) : Whole(parsed[n], LineValues[n]),
                        checkInputLength(whole)
                 PROVE  \/ Whole(read, whole) /\ Merges(read.val, D)
                        \/ ~read.ok /\ Exceeds(Members(D) + 1, Limits.MaxDictionaryMembers)
      BY DEF CombinedIsMerged, LineValues
    <2>1. Len(LineValues) = N /\ N \in Nat
      BY <1>1 DEF FieldTyped, LineValues
    <2>2. /\ LineValues \in Seq(Seq(FieldChars)) /\ N \in Nat \ {0}
          /\ whole = Joined(LineValues, CommaSpace)
      <3>1. \A n \in 1..Len(lines) : LineValues[n] # Invalid
        BY <2>1
      <3> QED
        BY <1>1, <3>1, FieldIs
    <2>3. Len(D) = N /\ \A n \in 1..N : D[n] = ParseDictionary(LineValues[n]).val
      BY <2>1
    <2>4. \A n \in 1..N : LineValues[n] # <<>> /\ Whole(ParseDictionary(LineValues[n]), LineValues[n])
      BY <2>1
    <2>5. CommaSpace \in Seq(FieldChars)
      BY FieldCharsFull, CommaSpaceTyped
    <2> DEFINE j == Joined(LineValues, CommaSpace)
    <2>6. j \in Seq(FieldChars)
      BY <2>2, <2>5, GappedTyped
    <2> HIDE DEF whole, D, parsed
    <2>7. Text(whole, FieldChars) /\ Len(whole) \in Nat
      BY <2>2, <2>6, NoEnd DEF Text
    <2>8. PICK b, e : JoinedAt(whole, 1, LineValues, CommaSpace, b, e, Len(whole) + 1)
      <3>1. Holds(whole, 1, j) /\ 1 + Len(j) = Len(whole) + 1
        BY <2>2, <2>7, WholeHeld
      <3>2. \E b, e : JoinedAt(whole, 1, LineValues, CommaSpace, b, e, 1 + Len(j))
        BY <2>2, <2>5, <2>7, <3>1, JoinedPlaces
      <3> QED
        BY <3>1, <3>2
    <2> DEFINE texts == LineValues
    <2>9. Full(FieldChars) /\ Len(texts) = N /\ texts \in Seq(Seq(FieldChars)) /\ N \in Nat \ {0}
      BY <2>1, <2>2, FieldCharsFull
    <2> QED
      BY <2>3, <2>4, <2>7, <2>8, <2>9, TextsMerge
  <1> QED
    BY <1>1, FieldLines, PTL

-----------------------------------------------------------------------------
(* What the peer writes.                                                   *)

PeerSpellings == UNION {v.spellings : v \in Vocabularies}
StringChars   == UNION {ToSet(b.val.str) : b \in {x \in PeerSpellings : "str" \in DOMAIN x.val}}
PeerChars     == Syntax \cup {HT} \cup (StringChars \ {"EOF"})

LEMMA PeerCharsFull == Full(PeerChars) /\ HT \in PeerChars
  BY FieldCharsFull, DelimitersDiffer DEF Full, PeerChars

LEMMA SpellingsAreSpelt ==
    ASSUME NEW b \in PeerSpellings
    PROVE  Spelt(b.text, b.val, PeerChars)
  <1> DEFINE s == b.text
             val == b.val
             A == ToSet(val.str)
  <1>1. Spells(s, val)
    BY PeerAssumption DEF PeerSpellings
  <1>2. "str" \in DOMAIN val => A \subseteq StringChars
    BY DEF StringChars
  <1> HIDE DEF s, val
  <1>3. ASSUME \E c \in BOOLEAN : val = [bool |-> c] /\ s = <<"?", IF c THEN "1" ELSE "0">>
        PROVE  BoolSpelt(s, val)
    BY <1>3 DEF BoolSpelt
  <1>5. ASSUME val = [tok |-> s], IsToken(s) PROVE TokSpelt(s, val)
    BY <1>5 DEF TokSpelt
  <1>6. ASSUME "str" \in DOMAIN val, val = [str |-> val.str],
               val.str \in Seq(A \ (Unprintables \cup {"EOF"})),
               s = writeString(val.str)
        PROVE  StrSpelt(s, val, PeerChars)
    <2> DEFINE B == A \ (Unprintables \cup {"EOF"})
               x == val.str
    <2>1. B \subseteq PeerChars \ Unprintables
      BY <1>2, <1>6 DEF PeerChars
    <2>2. x \in Seq(B) /\ val = [str |-> x] /\ s = writeString(x)
      BY <1>6
    <2> HIDE DEF B, x
    <2>3. x \in Seq(PeerChars \ Unprintables)
      BY <2>1, <2>2
    <2> QED
      BY ONLY <2>2, <2>3 DEF StrSpelt
  <1>7. ASSUME LET body == SubSeq(s, 2, Len(s) - 1)
               IN  /\ s = <<":">> \o body \o <<":">> /\ body \in Seq(isBase64Char) /\ ValidBase64(body)
                   /\ val = [bin |-> DecodeBase64(body)]
        PROVE  BinSpelt(s, val)
    <2> DEFINE body == SubSeq(s, 2, Len(s) - 1)
    <2>1. /\ s = <<":">> \o body \o <<":">> /\ body \in Seq(isBase64Char) /\ ValidBase64(body)
          /\ val = [bin |-> DecodeBase64(body)]
      BY <1>7
    <2> HIDE DEF body
    <2> QED
      BY ONLY <2>1 DEF BinSpelt
  <1>8. Spelt(s, val, PeerChars)
    <2> DEFINE bool == \E c \in BOOLEAN : val = [bool |-> c] /\ s = <<"?", IF c THEN "1" ELSE "0">>
               int  == \E d \in Numerals : \/ val = [int |-> ParseInt(d)] /\ s = d
                                           \/ val = [int |-> -ParseInt(d)] /\ s = <<"-">> \o d
               tok  == val = [tok |-> s] /\ IsToken(s)
               str  == /\ "str" \in DOMAIN val /\ val = [str |-> val.str]
                       /\ val.str \in Seq(ToSet(val.str) \ (Unprintables \cup {"EOF"}))
                       /\ s = writeString(val.str)
               bin  == LET body == SubSeq(s, 2, Len(s) - 1)
                       IN  /\ s = <<":">> \o body \o <<":">> /\ body \in Seq(isBase64Char)
                           /\ ValidBase64(body) /\ val = [bin |-> DecodeBase64(body)]
    <2>1. bool \/ int \/ tok \/ str \/ bin
      BY <1>1 DEF Spells
    <2>2. bool => BoolSpelt(s, val)
      BY <1>3
    <2>3. int => IntSpelt(s, val)
      BY DEF IntSpelt
    <2>4. tok => TokSpelt(s, val)
      BY <1>5
    <2>5. str => StrSpelt(s, val, PeerChars)
      BY <1>6
    <2>6. bin => BinSpelt(s, val)
      BY <1>7
    <2> HIDE DEF bool, int, tok, str, bin
    <2> QED
      BY <2>1, <2>2, <2>3, <2>4, <2>5, <2>6 DEF Spelt
  <1> QED
    BY <1>8 DEF s, val

(* Texts that follow each other.                                           *)

\* t has the text w from p to q - 1.
Lies(t, p, w, q) == Holds(t, p, w) /\ q = p + Len(w)

LEMMA LiesParts ==
    ASSUME NEW Ch, NEW t, Text(t, Ch), NEW a \in Seq(Ch), NEW b \in Seq(Ch), NEW p, NEW q,
           Lies(t, p, a \o b, q)
    PROVE  \E m : Lies(t, p, a, m) /\ Lies(t, m, b, q)
  <1>1. Holds(t, p, a) /\ Holds(t, p + Len(a), b)
    BY HoldsParts DEF Lies
  <1>2. Len(a) \in Nat /\ Len(b) \in Nat /\ Len(a \o b) = Len(a) + Len(b) /\ p \in Nat
    BY <1>1 DEF Holds
  <1> DEFINE m == p + Len(a)
  <1>3. q = m + Len(b)
    BY <1>2 DEF Lies
  <1>4. Holds(t, p, a) /\ Holds(t, m, b) /\ m = p + Len(a)
    BY <1>1
  <1> HIDE DEF m
  <1> QED
    BY <1>3, <1>4 DEF Lies

LEMMA LiesWhole ==
    ASSUME NEW Ch, NEW t, Text(t, Ch)
    PROVE  Lies(t, 1, t, Len(t) + 1) /\ peek(t, Len(t) + 1) = "EOF" /\ Len(t) + 1 \in Offsets(t)
           /\ Len(t) \in Nat
  <1>1. Len(t) \in Nat /\ Len(t) + 1 = 1 + Len(t)
    BY DEF Text
  <1> QED
    BY <1>1, WholeHeld, PeekAt DEF Lies, Offsets

LEMMA LiesPlaces ==
    ASSUME NEW Ch, NEW t, Text(t, Ch), NEW w \in Seq(Ch), NEW p, NEW q, Lies(t, p, w, q)
    PROVE  /\ p \in Offsets(t) /\ q \in Offsets(t) /\ q \in p..(Len(t) + 1) /\ Len(w) \in Nat
           /\ w # <<>> => q \in (p + 1)..(Len(t) + 1) /\ peek(t, p) = w[1] /\ w[1] \in Ch
           /\ w = <<>> => q = p
           /\ SubSeq(t, p, q - 1) = w
  <1>1. Len(w) \in Nat /\ Len(t) \in Nat /\ (w # <<>> => Len(w) # 0 /\ w[1] \in Ch) /\ (w = <<>> => Len(w) = 0)
    BY DEF Text
  <1>2. p \in Nat \ {0} /\ p + Len(w) <= Len(t) + 1 /\ q = p + Len(w)
    BY DEF Lies, Holds
  <1>3. /\ p \in Offsets(t) /\ q \in Offsets(t) /\ q \in p..(Len(t) + 1)
        /\ w # <<>> => q \in (p + 1)..(Len(t) + 1)
        /\ w = <<>> => q = p
    BY <1>1, <1>2 DEF Offsets
  <1>4. ASSUME w # <<>> PROVE peek(t, p) = w[1]
    <2>1. 1 \in 1..Len(w) /\ (p - 1) + 1 = p
      BY <1>1, <1>2, <1>4
    <2> QED
      BY <1>1, <2>1, HeldAt DEF Lies
  <1>5. SubSeq(t, p, q - 1) = w
    BY <1>3, HeldText DEF Lies
  <1> QED
    BY <1>1, <1>3, <1>4, <1>5

LEMMA MarkLies ==
    ASSUME NEW Ch, NEW t, Text(t, Ch), NEW p, NEW c, NEW q, Lies(t, p, <<c>>, q)
    PROVE  peek(t, p) = c /\ q = p + 1 /\ p \in Offsets(t) /\ q \in Offsets(t) /\ p <= Len(t)
  <1>1. peek(t, p) = c /\ p \in Offsets(t) /\ p + 1 \in Offsets(t)
    BY HeldOne DEF Lies
  <1>2. p <= Len(t)
    BY HoldsOne DEF Lies
  <1> QED
    BY <1>1, <1>2 DEF Lies

LEMMA KeyLies ==
    ASSUME NEW Ch, Full(Ch), NEW t, Text(t, Ch), NEW p, NEW key, IsToken(key), NEW q, Lies(t, p, key, q),
           peek(t, q) \notin isTokenChar
    PROVE  KeyAt(t, p, key, q)
  <1>1. key \in Seq(Ch) /\ key # <<>>
    BY TokenTyped DEF IsToken
  <1> QED
    BY <1>1, LiesPlaces DEF KeyAt

LEMMA BareLies ==
    ASSUME NEW Ch, Full(Ch), NEW t, Text(t, Ch), NEW p, NEW w, NEW v, Spelt(w, v, Ch), NEW q, Lies(t, p, w, q),
           MayFollow(v, peek(t, q))
    PROVE  BareAt(t, p, v, q, Ch)
  <1>1. w \in Seq(Ch) /\ w # <<>>
    BY SpeltTyped
  <1>2. /\ p \in Offsets(t) /\ q \in (p + 1)..(Len(t) + 1) /\ SubSeq(t, p, q - 1) = w
    BY <1>1, LiesPlaces
  <1>3. Spelt(SubSeq(t, p, q - 1), v, Ch)
    BY <1>2
  <1> QED
    BY <1>2, <1>3 DEF BareAt

\* A text before others.
LEMMA PartLies ==
    ASSUME NEW Ch, NEW t, Text(t, Ch), NEW s \in Seq(Ch), NEW q, Lies(t, 1, s, q)
    PROVE  /\ q = Len(s) + 1 /\ Text(s, Ch)
           /\ \A F : peek(t, q) \in F => Part(s, t, 0, F)
  <1>1. Len(s) \in Nat /\ Len(t) \in Nat /\ Text(s, Ch)
    BY DEF Text
  <1>2. q = Len(s) + 1 /\ 0 + Len(s) <= Len(t) /\ 0 + Len(s) + 1 = q
    BY <1>1 DEF Lies, Holds
  <1>3. \A m \in 1..Len(s) : t[0 + m] = s[m]
    <2>1. \A m \in 1..Len(s) : t[(1 - 1) + m] = s[m]
      BY DEF Lies, Holds
    <2> QED
      BY <2>1
  <1> QED
    BY <1>1, <1>2, <1>3 DEF Part

-----------------------------------------------------------------------------
(* A text that goes on.  What the shorter one has is still there, if what  *)
(* comes next does not belong to it.                                       *)

LEMMA Unshifted ==
    ASSUME NEW s, NEW i \in Offsets(s)
    PROVE  0 + i = i
  BY DEF Offsets

LEMMA Goes ==
    ASSUME NEW Ch, NEW s, Text(s, Ch), NEW t, Text(t, Ch), NEW F, Part(s, t, 0, F), NEW i \in Offsets(s)
    PROVE  /\ i \in Offsets(t)
           /\ peek(s, i) # "EOF" => peek(t, i) = peek(s, i)
           /\ peek(s, skipSP(s, i)) # "EOF" => skipSP(t, i) = skipSP(s, i)
  <1>1. 0 + i = i
    BY Unshifted
  <1>2. i \in Offsets(t) /\ (peek(s, i) # "EOF" => peek(t, i) = peek(s, i))
    BY <1>1, PartPeeks
  <1>3. ASSUME peek(s, skipSP(s, i)) # "EOF" PROVE skipSP(t, i) = skipSP(s, i)
    <2>1. skipSP(t, 0 + i) = 0 + skipSP(s, i) /\ skipSP(s, i) \in Offsets(s)
      BY <1>3, SpacesPart
    <2> QED
      BY <1>1, <2>1, Unshifted
  <1> QED
    BY <1>2, <1>3

LEMMA KeyGoes ==
    ASSUME NEW Ch, NEW s, Text(s, Ch), NEW t, Text(t, Ch), NEW F, Part(s, t, 0, F),
           NEW i, NEW x, NEW j, KeyAt(s, i, x, j), Tells(s, j, F, isTokenChar)
    PROVE  KeyAt(t, i, x, j)
  <1>1. KeyAt(t, 0 + i, x, 0 + j) /\ i \in Offsets(s) /\ j \in Offsets(s)
    BY KeyPart
  <1> QED
    BY <1>1, Unshifted

LEMMA BareGoes ==
    ASSUME NEW Ch, NEW s, Text(s, Ch), NEW t, Text(t, Ch), NEW F, Part(s, t, 0, F),
           NEW i, NEW x, NEW j, BareAt(s, i, x, j, Ch), Tells(s, j, F, isTokenChar)
    PROVE  BareAt(t, i, x, j, Ch)
  <1>1. BareAt(t, 0 + i, x, 0 + j, Ch) /\ i \in Offsets(s) /\ j \in Offsets(s)
    BY BarePart
  <1> QED
    BY <1>1, Unshifted

LEMMA ParamGoes ==
    ASSUME NEW Ch, NEW s, Text(s, Ch), NEW t, Text(t, Ch), NEW F, Part(s, t, 0, F),
           NEW i, NEW x, NEW j, ParamAt(s, i, x, j, Ch), Tells(s, j, F, AfterParam)
    PROVE  ParamAt(t, i, x, j, Ch)
  <1>1. ParamAt(t, 0 + i, x, 0 + j, Ch) /\ i \in Offsets(s) /\ j \in Offsets(s)
    BY ParamPart
  <1> QED
    BY <1>1, Unshifted

LEMMA ItemGoes ==
    ASSUME NEW Ch, NEW s, Text(s, Ch), NEW t, Text(t, Ch), NEW F, Part(s, t, 0, F),
           NEW i, NEW x, NEW j, ItemAt(s, i, x, j, Ch), Tells(s, j, F, AfterItem)
    PROVE  ItemAt(t, i, x, j, Ch)
  <1>1. ItemAt(t, 0 + i, x, 0 + j, Ch) /\ i \in Offsets(s) /\ j \in Offsets(s)
    BY ItemPart
  <1> QED
    BY <1>1, Unshifted

LEMMA ItemsGo ==
    ASSUME NEW Ch, NEW s, Text(s, Ch), NEW t, Text(t, Ch), NEW F, Part(s, t, 0, F),
           NEW i, NEW x, NEW j, ItemsAt(s, i, x, j, Ch)
    PROVE  ItemsAt(t, i, x, j, Ch)
  <1>1. ItemsAt(t, 0 + i, x, 0 + j, Ch) /\ i \in Offsets(s) /\ j \in Offsets(s)
    BY ItemsPart
  <1> QED
    BY <1>1, Unshifted

LEMMA MarkedGoes ==
    ASSUME NEW Ch, NEW s, Text(s, Ch), NEW t, Text(t, Ch), NEW F, Part(s, t, 0, F),
           NEW i, NEW x, NEW j, MarkedAt(s, i, x, j, Ch), Tells(s, j, F, AfterItem)
    PROVE  MarkedAt(t, i, x, j, Ch)
  <1>1. MarkedAt(t, 0 + i, x, 0 + j, Ch) /\ i \in Offsets(s) /\ j \in Offsets(s)
    BY MarkedPart
  <1> QED
    BY <1>1, Unshifted

LEMMA RunGoes ==
    ASSUME NEW Ch, NEW s, Text(s, Ch), NEW t, Text(t, Ch), NEW F, Part(s, t, 0, F),
           NEW i, NEW x, NEW j, Run(s, i, x, j, Ch), Tells(s, j, F, AfterEntry)
    PROVE  Run(t, i, x, j, Ch)
  <1>1. Run(t, 0 + i, x, 0 + j, Ch) /\ i \in Offsets(s) /\ j \in Offsets(s)
    BY RunPart
  <1> QED
    BY <1>1, Unshifted

LEMMA CommaGoes ==
    ASSUME NEW Ch, NEW s, Text(s, Ch), NEW t, Text(t, Ch), NEW F, Part(s, t, 0, F),
           NEW i \in Offsets(s), peek(s, skipOWS(s, i)) = Comma, afterComma(s, i) <= Len(s)
    PROVE  peek(t, skipOWS(t, i)) = Comma /\ afterComma(t, i) = afterComma(s, i)
  <1>1. peek(t, skipOWS(t, 0 + i)) = Comma /\ afterComma(t, 0 + i) = 0 + afterComma(s, i)
        /\ afterComma(s, i) \in Offsets(s)
    BY PartComma
  <1> QED
    BY <1>1, Unshifted

\* One value more.
LEMMA Appended ==
    ASSUME NEW xs, Tuple(xs), NEW x
    PROVE  /\ Tuple(Append(xs, x)) /\ Len(Append(xs, x)) = Len(xs) + 1 /\ Append(xs, x)[Len(xs) + 1] = x
           /\ \A k \in 1..Len(xs) : Append(xs, x)[k] = xs[k]
           /\ Len(xs) \in Nat /\ Append(xs, x) # <<>> /\ Append(xs, x) = xs \o <<x>>
  <1> DEFINE S == {xs[k] : k \in 1..Len(xs)} \cup {x}
  <1>1. xs \in Seq(S) /\ x \in S
    <2>1. xs \in Seq({xs[k] : k \in 1..Len(xs)})
      BY Tuples
    <2> QED
      BY <2>1
  <1> HIDE DEF S
  <1>2. Append(xs, x) \in Seq(S) /\ Len(Append(xs, x)) = Len(xs) + 1 /\ Append(xs, x)[Len(xs) + 1] = x
        /\ Len(xs) \in Nat /\ Append(xs, x) = xs \o <<x>>
    BY <1>1
  <1>3. \A k \in 1..Len(xs) : Append(xs, x)[k] = xs[k]
    BY <1>1
  <1>4. Append(xs, x) # <<>>
    BY <1>2
  <1>5. Tuple(Append(xs, x))
    BY <1>2, Tuples
  <1> QED
    BY <1>2, <1>3, <1>4, <1>5

\* A way of offsets that goes on to one more.
WayOn(to, at, n, q) == to[n + 1] = q /\ \A k \in 0..n : to[k] = at[k]

LEMMA OneMoreOffset ==
    ASSUME NEW at, NEW n \in Nat, NEW q
    PROVE  \E to : WayOn(to, at, n, q)
  <1> DEFINE to == [k \in 0..(n + 1) |-> IF k = n + 1 THEN q ELSE at[k]]
  <1>1. WayOn(to, at, n, q)
    BY DEF WayOn
  <1> HIDE DEF to
  <1> QED
    BY <1>1

\* One parameter more.
LEMMA ParamsMore ==
    ASSUME NEW Ch, NEW s, Text(s, Ch), NEW t, Text(t, Ch), NEW F, Part(s, t, 0, F),
           NEW i, NEW ps, NEW j, ParamsAt(s, i, ps, j, Ch), Tells(s, j, F, AfterParam),
           NEW x, NEW q, ParamAt(t, j, x, q, Ch), peek(t, q) # Semicolon
    PROVE  ParamsAt(t, i, Append(ps, x), q, Ch)
  <1>1. i \in Offsets(s) /\ j \in i..(Len(s) + 1) /\ Tuple(ps)
    BY DEF ParamsAt
  <1>2. PICK at : /\ at[0] = i /\ at[Len(ps)] = j
                  /\ \A k \in 1..Len(ps) : ParamAt(s, at[k - 1], ps[k], at[k], Ch)
    BY DEF ParamsAt
  <1> DEFINE n  == Len(ps)
             zs == Append(ps, x)
  <1>3. /\ Tuple(zs) /\ Len(zs) = n + 1 /\ zs[n + 1] = x /\ n \in Nat
        /\ \A k \in 1..n : zs[k] = ps[k]
    BY <1>1, Appended
  <1> HIDE DEF zs, n
  <1>4. PICK to : WayOn(to, at, n, q)
    BY <1>3, OneMoreOffset
  <1>5. ASSUME NEW k \in 1..n PROVE ParamAt(t, at[k - 1], ps[k], at[k], Ch)
    <2>1. ParamAt(s, at[k - 1], ps[k], at[k], Ch)
      BY <1>2 DEF n
    <2>2. Tells(s, at[k], F, AfterParam)
      <3>1. CASE k = n
        BY <1>2, <3>1 DEF n
      <3>2. CASE k # n
        <4>1. k + 1 \in 1..n /\ (k + 1) - 1 = k
          BY <1>3, <3>2
        <4>2. ParamAt(s, at[k], ps[k + 1], at[k + 1], Ch)
          BY <1>2, <4>1 DEF n
        <4>3. at[k] \in Offsets(s) /\ peek(s, at[k]) = Semicolon
          BY <4>2 DEF ParamAt
        <4> QED
          BY <4>3, Telling, ClassesEnd, DelimitersDiffer
      <3> QED
        BY <3>1, <3>2
    <2> QED
      BY <2>1, <2>2, ParamGoes
  <1>6. ASSUME NEW k \in 1..(n + 1) PROVE ParamAt(t, to[k - 1], zs[k], to[k], Ch)
    <2>1. CASE k \in 1..n
      <3>1. k \in 0..n /\ k - 1 \in 0..n
        BY <1>3, <2>1
      <3>2. to[k - 1] = at[k - 1] /\ to[k] = at[k] /\ zs[k] = ps[k]
        BY <1>3, <1>4, <2>1, <3>1 DEF WayOn
      <3> QED
        BY <1>5, <2>1, <3>2
    <2>2. CASE k = n + 1
      <3>1. k - 1 = n /\ n \in 0..n
        BY <1>3, <2>2
      <3>2. to[k - 1] = j /\ to[k] = q /\ zs[k] = x
        BY <1>2, <1>3, <1>4, <2>2, <3>1 DEF WayOn, n
      <3> QED
        BY <3>2
    <2> QED
      BY <1>3, <2>1, <2>2
  <1>7. i \in Offsets(t) /\ q \in i..(Len(t) + 1) /\ to[0] = i
    <2>1. i \in Offsets(t)
      BY <1>1, Goes
    <2>2. q \in (j + 1)..(Len(t) + 1)
      BY ParamIsRead
    <2>3. 0 \in 0..n
      BY <1>3
    <2> QED
      BY <1>1, <1>2, <1>4, <2>1, <2>2, <2>3 DEF WayOn, Offsets, Text
  <1>8. ParamsAt(t, i, zs, q, Ch)
    BY <1>3, <1>4, <1>6, <1>7 DEF WayOn, ParamsAt
  <1> QED
    BY <1>8 DEF zs

\* An item, an inner list or a member with one parameter more.
WithParam(m, x) == [m EXCEPT !.params = Append(@, x)]

LEMMA ItemMore ==
    ASSUME NEW Ch, NEW s, Text(s, Ch), NEW t, Text(t, Ch), NEW F, Part(s, t, 0, F),
           NEW i, NEW m, NEW j, ItemAt(s, i, m, j, Ch), Tells(s, j, F, AfterParam),
           NEW x, NEW q, ParamAt(t, j, x, q, Ch), peek(t, q) # Semicolon
    PROVE  ItemAt(t, i, WithParam(m, x), q, Ch)
  <1>1. PICK e : BareAt(s, i, m.val, e, Ch) /\ ParamsAt(s, e, m.params, j, Ch)
    BY DEF ItemAt
  <1>2. e \in Offsets(s)
    BY <1>1, AtPlaces
  <1>3. j \in Offsets(s)
    BY <1>1 DEF ParamsAt, Offsets, Text
  <1>4. Tells(s, e, F, isTokenChar)
    <2>1. CASE peek(s, e) = Semicolon
      BY <1>2, <2>1, Telling, ClassesEnd, DelimitersDiffer
    <2>2. CASE e = j
      BY <1>2, <2>2, Telling, ClassesEnd
    <2> QED
      BY <1>1, <2>1, <2>2, ParamsFollow
  <1>5. BareAt(t, i, m.val, e, Ch) /\ ParamsAt(t, e, Append(m.params, x), q, Ch)
    BY <1>1, <1>4, BareGoes, ParamsMore
  <1>6. m = [val |-> m.val, params |-> m.params]
    BY DEF ItemAt
  <1> DEFINE y == WithParam(m, x)
  <1>7. y = [val |-> m.val, params |-> Append(m.params, x)]
    BY ONLY <1>6 DEF WithParam
  <1>8. y.val = m.val /\ y.params = Append(m.params, x) /\ y = [val |-> y.val, params |-> y.params]
    BY <1>7
  <1> HIDE DEF y
  <1>9. ItemAt(t, i, y, q, Ch)
    BY <1>5, <1>8 DEF ItemAt
  <1> QED
    BY <1>9 DEF y

LEMMA ListMore ==
    ASSUME NEW Ch, NEW s, Text(s, Ch), NEW t, Text(t, Ch), NEW F, Part(s, t, 0, F),
           NEW i, NEW m, NEW j, ListAt(s, i, m, j, Ch), Tells(s, j, F, AfterParam),
           NEW x, NEW q, ParamAt(t, j, x, q, Ch), peek(t, q) # Semicolon
    PROVE  ListAt(t, i, WithParam(m, x), q, Ch)
  <1>1. PICK e : ItemsAt(s, i + 1, m.items, e, Ch) /\ ParamsAt(s, skipSP(s, e) + 1, m.params, j, Ch)
    BY DEF ListAt
  <1>2. i \in Offsets(s) /\ peek(s, i) = "("
    BY DEF ListAt
  <1>3. i \in Offsets(t) /\ peek(t, i) = "("
    BY <1>2, Goes, DelimitersDiffer
  <1>4. ItemsAt(t, i + 1, m.items, e, Ch)
    BY <1>1, ItemsGo
  <1>5. skipSP(t, e) = skipSP(s, e)
    <2>1. e \in Offsets(s) /\ peek(s, skipSP(s, e)) = ")"
      <3>1. i + 1 \in Offsets(s) /\ e \in (i + 1)..(Len(s) + 1) /\ peek(s, skipSP(s, e)) = ")"
        BY <1>1 DEF ItemsAt
      <3> QED
        BY <3>1 DEF Offsets, Text
    <2> QED
      BY <2>1, Goes, DelimitersDiffer
  <1>6. ParamsAt(t, skipSP(t, e) + 1, Append(m.params, x), q, Ch)
    <2> DEFINE p == skipSP(s, e) + 1
    <2>1. ParamsAt(s, p, m.params, j, Ch)
      BY <1>1
    <2> HIDE DEF p
    <2>2. ParamsAt(t, p, Append(m.params, x), q, Ch)
      BY <2>1, ParamsMore
    <2> QED
      BY <1>5, <2>2 DEF p
  <1>7. m = [items |-> m.items, params |-> m.params]
    BY DEF ListAt
  <1> DEFINE y == WithParam(m, x)
  <1>8. y = [items |-> m.items, params |-> Append(m.params, x)]
    BY <1>7 DEF WithParam
  <1>9. y.items = m.items /\ y.params = Append(m.params, x) /\ y = [items |-> y.items, params |-> y.params]
    BY <1>8
  <1> HIDE DEF y
  <1>10. ListAt(t, i, y, q, Ch)
    BY <1>3, <1>4, <1>6, <1>9 DEF ListAt
  <1> QED
    BY <1>10 DEF y

LEMMA MarkedMore ==
    ASSUME NEW Ch, NEW s, Text(s, Ch), NEW t, Text(t, Ch), NEW F, Part(s, t, 0, F),
           NEW i, NEW y, NEW z, NEW j, MarkedAt(s, i, y, j, Ch), Tells(s, j, F, AfterParam),
           NEW x, NEW q, ParamAt(t, j, x, q, Ch), peek(t, q) # Semicolon,
           z.key = y.key, z.member = WithParam(y.member, x)
    PROVE  MarkedAt(t, i, z, q, Ch)
  <1>1. PICK m : KeyAt(s, i, y.key, m) /\ peek(s, m) = "=" /\ MemberAt(s, m + 1, y.member, j, Ch)
    BY DEF MarkedAt
  <1>2. m \in Offsets(s)
    BY <1>1, AtPlaces
  <1>3. Tells(s, m, F, isTokenChar)
    BY <1>1, <1>2, Telling, ClassesEnd, DelimitersDiffer
  <1>4. KeyAt(t, i, y.key, m) /\ peek(t, m) = "="
    BY <1>1, <1>2, <1>3, KeyGoes, Goes, DelimitersDiffer
  <1>5. MemberAt(t, m + 1, WithParam(y.member, x), q, Ch)
    BY <1>1, ItemMore, ListMore DEF MemberAt
  <1> QED
    BY <1>4, <1>5 DEF MarkedAt

-----------------------------------------------------------------------------
(* Inner lists that are not closed yet.                                    *)

ItemRun(t, p, xs, q, Ch) ==
    /\ p \in Offsets(t) /\ q \in p..(Len(t) + 1) /\ Tuple(xs)
    /\ \E at : /\ at[0] = p /\ at[Len(xs)] = q
               /\ \A k \in 1..Len(xs) : /\ at[k - 1] \in Offsets(t)
                                        /\ ItemAt(t, skipSP(t, at[k - 1]), xs[k], at[k], Ch)

LEMMA RunIsItems ==
    ASSUME NEW Ch, NEW t, NEW p, NEW xs, NEW q, ItemRun(t, p, xs, q, Ch), peek(t, skipSP(t, q)) = ")"
    PROVE  ItemsAt(t, p, xs, q, Ch)
  BY DEF ItemRun, ItemsAt

LEMMA NoItems ==
    ASSUME NEW Ch, NEW t, Text(t, Ch), NEW p \in Offsets(t)
    PROVE  ItemRun(t, p, <<>>, p, Ch)
  <1> DEFINE at == [k \in 0..0 |-> p]
  <1>1. at[0] = p /\ Len(<<>>) = 0 /\ Tuple(<<>>) /\ p \in p..(Len(t) + 1)
    BY DEF Tuple, Offsets, Text
  <1>2. \A k \in 1..0 : FALSE
    OBVIOUS
  <1> HIDE DEF at
  <1> QED
    BY <1>1, <1>2 DEF ItemRun

LEMMA ItemRunGoes ==
    ASSUME NEW Ch, NEW s, Text(s, Ch), NEW t, Text(t, Ch), NEW F, Part(s, t, 0, F),
           NEW p, NEW xs, NEW q, ItemRun(s, p, xs, q, Ch), Tells(s, q, F, AfterItem)
    PROVE  ItemRun(t, p, xs, q, Ch)
  <1>1. p \in Offsets(s) /\ q \in p..(Len(s) + 1) /\ Tuple(xs)
    BY DEF ItemRun
  <1>2. PICK at : /\ at[0] = p /\ at[Len(xs)] = q
                  /\ \A k \in 1..Len(xs) : /\ at[k - 1] \in Offsets(s)
                                           /\ ItemAt(s, skipSP(s, at[k - 1]), xs[k], at[k], Ch)
    BY DEF ItemRun
  <1>3. Len(xs) \in Nat /\ Len(s) \in Nat /\ Len(t) \in Nat /\ Len(s) <= Len(t)
    BY <1>1 DEF Tuple, Text, Part
  <1>4. \A k \in 1..Len(xs) : /\ at[k - 1] \in Offsets(s) /\ peek(s, skipSP(s, at[k - 1])) # "EOF"
                              /\ ItemAt(s, skipSP(s, at[k - 1]), xs[k], at[k], Ch)
    BY <1>2, ItemBegins
  <1>5. ASSUME NEW k \in 1..Len(xs)
        PROVE  at[k - 1] \in Offsets(t) /\ ItemAt(t, skipSP(t, at[k - 1]), xs[k], at[k], Ch)
    <2>1. /\ at[k - 1] \in Offsets(s) /\ peek(s, skipSP(s, at[k - 1])) # "EOF"
          /\ ItemAt(s, skipSP(s, at[k - 1]), xs[k], at[k], Ch)
      BY <1>4
    <2>2. Tells(s, at[k], F, AfterItem)
      <3>1. CASE k = Len(xs)
        BY <1>2, <3>1
      <3>2. CASE k # Len(xs)
        <4>1. k + 1 \in 1..Len(xs) /\ (k + 1) - 1 = k
          BY <1>3, <3>2
        <4>2. at[k] \in Offsets(s) /\ peek(s, skipSP(s, at[k])) # "EOF"
          BY <1>4, <4>1
        <4> QED
          BY <4>2, SpacesPart, Telling, ClassesEnd
      <3> QED
        BY <3>1, <3>2
    <2>3. at[k - 1] \in Offsets(t) /\ skipSP(t, at[k - 1]) = skipSP(s, at[k - 1])
      BY <2>1, Goes
    <2> QED
      BY <2>1, <2>2, <2>3, ItemGoes
  <1>6. p \in Offsets(t) /\ q \in p..(Len(t) + 1)
    BY <1>1, <1>3 DEF Offsets
  <1> QED
    BY <1>1, <1>2, <1>5, <1>6 DEF ItemRun

LEMMA OneMoreItem ==
    ASSUME NEW Ch, NEW t, Text(t, Ch), NEW p, NEW xs, NEW q, ItemRun(t, p, xs, q, Ch),
           NEW x, NEW r, ItemAt(t, skipSP(t, q), x, r, Ch)
    PROVE  ItemRun(t, p, Append(xs, x), r, Ch)
  <1>1. p \in Offsets(t) /\ q \in p..(Len(t) + 1) /\ Tuple(xs)
    BY DEF ItemRun
  <1>2. PICK at : /\ at[0] = p /\ at[Len(xs)] = q
                  /\ \A k \in 1..Len(xs) : /\ at[k - 1] \in Offsets(t)
                                           /\ ItemAt(t, skipSP(t, at[k - 1]), xs[k], at[k], Ch)
    BY DEF ItemRun
  <1> DEFINE n  == Len(xs)
             zs == Append(xs, x)
  <1>3. /\ Tuple(zs) /\ Len(zs) = n + 1 /\ zs[n + 1] = x /\ n \in Nat
        /\ \A k \in 1..n : zs[k] = xs[k]
    BY <1>1, Appended
  <1> HIDE DEF zs, n
  <1>4. PICK to : WayOn(to, at, n, r)
    BY <1>3, OneMoreOffset
  <1>5. q \in Offsets(t)
    BY <1>1 DEF Offsets, Text
  <1>6. ASSUME NEW k \in 1..(n + 1)
        PROVE  to[k - 1] \in Offsets(t) /\ ItemAt(t, skipSP(t, to[k - 1]), zs[k], to[k], Ch)
    <2>1. CASE k \in 1..n
      <3>1. k \in 0..n /\ k - 1 \in 0..n
        BY <1>3, <2>1
      <3>2. to[k - 1] = at[k - 1] /\ to[k] = at[k] /\ zs[k] = xs[k]
        BY <1>3, <1>4, <2>1, <3>1 DEF WayOn
      <3> QED
        BY <1>2, <2>1, <3>2 DEF n
    <2>2. CASE k = n + 1
      <3>1. k - 1 = n /\ n \in 0..n
        BY <1>3, <2>2
      <3>2. to[k - 1] = q /\ to[k] = r /\ zs[k] = x
        BY <1>2, <1>3, <1>4, <2>2, <3>1 DEF WayOn, n
      <3> QED
        BY <1>5, <3>2
    <2> QED
      BY <1>3, <2>1, <2>2
  <1>7. r \in p..(Len(t) + 1) /\ to[0] = p
    <2>1. r \in (skipSP(t, q) + 1)..(Len(t) + 1)
      BY ItemIsRead
    <2>2. skipSP(t, q) \in q..(Len(t) + 1)
      BY <1>5, SkipSpaces
    <2>3. 0 \in 0..n
      BY <1>3
    <2>4. to[0] = p
      BY <1>2, <1>4, <2>3 DEF WayOn
    <2>5. r \in p..(Len(t) + 1)
      <3> DEFINE e == skipSP(t, q)
                 l == Len(t)
      <3>1. l \in Nat /\ e \in q..(l + 1) /\ r \in (e + 1)..(l + 1) /\ q \in p..(l + 1) /\ p \in 1..(l + 1)
        BY <1>1, <2>1, <2>2 DEF Offsets, Text
      <3> HIDE DEF e, l
      <3>2. r \in p..(l + 1)
        BY ONLY <3>1
      <3> QED
        BY <3>2 DEF l
    <2> QED
      BY <2>4, <2>5
  <1>8. ItemRun(t, p, zs, r, Ch)
    BY <1>1, <1>3, <1>4, <1>6, <1>7 DEF WayOn, ItemRun
  <1> QED
    BY <1>8 DEF zs

\* The items of an open inner list that begin at p: after the last one, or after a
\* parenthesis and spaces, comes the end.
SomeItems(t, p, xs, Ch) ==
    /\ p \in Offsets(t)
    /\ \/ xs = <<>> /\ \A j \in p..Len(t) : t[j] = SP
       \/ \E ys, x, e : /\ xs = Append(ys, x) /\ Tuple(ys) /\ ItemRun(t, p, ys, e, Ch)
                        /\ ItemAt(t, skipSP(t, e), x, Len(t) + 1, Ch)

\* Where the next item or the parenthesis is looked for.
LEMMA ItemsSoFar ==
    ASSUME NEW Ch, NEW s, Text(s, Ch), NEW t, Text(t, Ch), NEW F, Part(s, t, 0, F),
           NEW p, NEW xs, SomeItems(s, p, xs, Ch), F \cap AfterItem = {} \/ xs = <<>>
    PROVE  \E e : /\ ItemRun(t, p, xs, e, Ch) /\ e \in Offsets(s)
                  /\ \A j \in e..Len(s) : t[j] = SP
  <1>1. Len(s) \in Nat /\ Len(t) \in Nat /\ p \in Offsets(s) /\ Len(s) <= Len(t)
    BY DEF Text, SomeItems, Part
  <1>2. CASE xs = <<>> /\ \A j \in p..Len(s) : s[j] = SP
    <2>1. p \in Offsets(t)
      BY <1>1, Goes
    <2>2. ASSUME NEW j \in p..Len(s) PROVE t[j] = SP
      <3>1. j \in 1..Len(s) /\ 0 + j = j
        BY <1>1 DEF Offsets
      <3>2. t[0 + j] = s[j]
        BY <3>1 DEF Part
      <3> QED
        BY <1>2, <3>1, <3>2
    <2> QED
      BY <1>1, <1>2, <2>1, <2>2, NoItems
  <1>3. CASE \E ys, x, e : /\ xs = Append(ys, x) /\ Tuple(ys) /\ ItemRun(s, p, ys, e, Ch)
                           /\ ItemAt(s, skipSP(s, e), x, Len(s) + 1, Ch)
    <2>1. PICK ys, x, e : /\ xs = Append(ys, x) /\ Tuple(ys) /\ ItemRun(s, p, ys, e, Ch)
                          /\ ItemAt(s, skipSP(s, e), x, Len(s) + 1, Ch)
      BY <1>3
    <2> DEFINE l == Len(s) + 1
    <2>2. ItemRun(s, p, xs, l, Ch)
      BY <2>1, OneMoreItem
    <2>3. l \in Offsets(s) /\ \A j \in l..Len(s) : FALSE
      BY <1>1 DEF Offsets
    <2>4. Tells(s, l, F, AfterItem)
      <3>1. xs # <<>>
        BY <2>1, Appended
      <3> QED
        BY <3>1, ClassesEnd DEF Tells
    <2> HIDE DEF l
    <2>5. ItemRun(t, p, xs, l, Ch)
      BY <2>2, <2>4, ItemRunGoes
    <2> QED
      BY <2>3, <2>5
  <1> QED
    BY <1>2, <1>3 DEF SomeItems

\* A text of spaces, and what comes after it.
LEMMA SpacesLie ==
    ASSUME NEW Ch, NEW t, Text(t, Ch), NEW n \in Nat, NEW e \in 1..(n + 1), NEW q \in Offsets(t),
           q >= n + 1, \A j \in e..n : t[j] = SP, \A j \in (n + 1)..(q - 1) : t[j] = SP,
           peek(t, q) # SP
    PROVE  skipSP(t, e) = q
  <1>1. Len(t) \in Nat /\ q \in 1..(Len(t) + 1)
    BY DEF Text, Offsets
  <1>2. e \in Offsets(t) /\ q \in e..(Len(t) + 1)
    BY <1>1 DEF Offsets
  <1>3. \A m \in e..(q - 1) : t[m] \in {SP}
    <2>1. \A m \in e..(q - 1) : m \in e..n \/ m \in (n + 1)..(q - 1)
      BY <1>1
    <2> QED
      BY <2>1
  <1>4. "EOF" \notin {SP} /\ peek(t, q) \notin {SP}
    BY DelimitersDiffer
  <1> QED
    BY <1>2, <1>3, <1>4, SpanPeeks DEF skipSP

LEMMA EndOf ==
    ASSUME NEW Ch, NEW t, Text(t, Ch)
    PROVE  /\ Len(t) \in Nat /\ Len(t) + 1 \in Offsets(t) /\ peek(t, Len(t) + 1) = "EOF"
           /\ peek(t, Len(t) + 1) \notin AfterEntry /\ peek(t, Len(t) + 1) # Semicolon
  BY LiesWhole, ClassesEnd, DelimitersDiffer

LEMMA ItemsWithParam ==
    ASSUME NEW Ch, NEW s, Text(s, Ch), NEW t, Text(t, Ch), NEW F, Part(s, t, 0, F),
           F \cap AfterParam = {}, NEW p, NEW xs, SomeItems(s, p, xs, Ch), xs # <<>>,
           NEW x, ParamAt(t, Len(s) + 1, x, Len(t) + 1, Ch)
    PROVE  \E ys, y : /\ xs = Append(ys, y) /\ Tuple(ys)
                      /\ SomeItems(t, p, Append(ys, WithParam(y, x)), Ch)
  <1>1. PICK ys, y, e : /\ xs = Append(ys, y) /\ Tuple(ys) /\ ItemRun(s, p, ys, e, Ch)
                        /\ ItemAt(s, skipSP(s, e), y, Len(s) + 1, Ch)
    BY DEF SomeItems
  <1> DEFINE l == Len(s) + 1
             q == Len(t) + 1
             k == skipSP(s, e)
             z == WithParam(y, x)
  <1>2. ItemAt(s, k, y, l, Ch) /\ ParamAt(t, l, x, q, Ch)
    BY <1>1
  <1>3. Tells(s, l, F, AfterParam)
    BY ClassesEnd DEF Tells
  <1>4. peek(t, q) # Semicolon
    BY EndOf
  <1>5. e \in Offsets(s) /\ p \in Offsets(s)
    BY <1>1 DEF ItemRun, Offsets, Text
  <1>6. peek(s, k) # "EOF"
    BY <1>2, ItemBegins
  <1>7. skipSP(t, e) = k /\ p \in Offsets(t)
    BY <1>5, <1>6, Goes
  <1>8. Tells(s, e, F, AfterItem)
    BY <1>5, <1>6, SpacesPart, Telling, ClassesEnd
  <1> HIDE DEF l, q, k, z
  <1>9. ItemAt(t, k, z, q, Ch)
    BY <1>2, <1>3, <1>4, ItemMore DEF z
  <1>10. ItemRun(t, p, ys, e, Ch)
    BY <1>1, <1>8, ItemRunGoes
  <1>11. SomeItems(t, p, Append(ys, z), Ch)
    BY <1>1, <1>7, <1>9, <1>10 DEF SomeItems, q
  <1> QED
    BY <1>1, <1>11 DEF z

\* Where spaces lead to from the last item or from the parenthesis.
LEMMA ItemsThenSpaces ==
    ASSUME NEW Ch, NEW s, Text(s, Ch), NEW t, Text(t, Ch), NEW F, Part(s, t, 0, F),
           NEW p, NEW xs, SomeItems(s, p, xs, Ch), F \cap AfterItem = {} \/ xs = <<>>,
           NEW q \in Offsets(t), q >= Len(s) + 1, \A j \in (Len(s) + 1)..(q - 1) : t[j] = SP,
           peek(t, q) # SP
    PROVE  \E e : ItemRun(t, p, xs, e, Ch) /\ skipSP(t, e) = q
  <1>1. PICK e : /\ ItemRun(t, p, xs, e, Ch) /\ e \in Offsets(s)
                 /\ \A j \in e..Len(s) : t[j] = SP
    BY ItemsSoFar
  <1> DEFINE n == Len(s)
  <1>2. n \in Nat /\ e \in 1..(n + 1) /\ q >= n + 1 /\ \A j \in (n + 1)..(q - 1) : t[j] = SP
    BY <1>1 DEF Text, Offsets
  <1>3. \A j \in e..n : t[j] = SP
    BY <1>1
  <1> HIDE DEF n
  <1>4. skipSP(t, e) = q
    BY <1>2, <1>3, SpacesLie
  <1> QED
    BY <1>1, <1>4

LEMMA ItemsWithItem ==
    ASSUME NEW Ch, NEW s, Text(s, Ch), NEW t, Text(t, Ch), NEW F, Part(s, t, 0, F),
           NEW p, NEW xs, SomeItems(s, p, xs, Ch), F \cap AfterItem = {} \/ xs = <<>>,
           NEW q \in Offsets(t), q >= Len(s) + 1, \A j \in (Len(s) + 1)..(q - 1) : t[j] = SP,
           NEW x, ItemAt(t, q, x, Len(t) + 1, Ch)
    PROVE  SomeItems(t, p, Append(xs, x), Ch)
  <1>1. peek(t, q) # SP
    BY ItemBegins
  <1>2. PICK e : ItemRun(t, p, xs, e, Ch) /\ skipSP(t, e) = q
    BY <1>1, ItemsThenSpaces
  <1>3. p \in Offsets(t) /\ Tuple(xs)
    BY <1>2 DEF ItemRun
  <1>4. ItemAt(t, skipSP(t, e), x, Len(t) + 1, Ch)
    BY <1>2
  <1> QED
    BY <1>2, <1>3, <1>4 DEF SomeItems

LEMMA ItemsClosed ==
    ASSUME NEW Ch, NEW s, Text(s, Ch), NEW t, Text(t, Ch), NEW F, Part(s, t, 0, F),
           NEW p, NEW xs, SomeItems(s, p, xs, Ch), F \cap AfterItem = {} \/ xs = <<>>,
           NEW q \in Offsets(t), q >= Len(s) + 1, \A j \in (Len(s) + 1)..(q - 1) : t[j] = SP,
           peek(t, q) = ")"
    PROVE  \E e : ItemsAt(t, p, xs, e, Ch) /\ skipSP(t, e) = q
  <1>1. peek(t, q) # SP
    BY DelimitersDiffer
  <1>2. PICK e : ItemRun(t, p, xs, e, Ch) /\ skipSP(t, e) = q
    BY <1>1, ItemsThenSpaces
  <1> QED
    BY <1>2, RunIsItems

\* No parameters.
LEMMA ParamsEnd ==
    ASSUME NEW Ch, NEW t, Text(t, Ch), NEW p \in Offsets(t), peek(t, p) # Semicolon
    PROVE  ParamsAt(t, p, <<>>, p, Ch)
  <1> DEFINE at == [k \in 0..0 |-> p]
             none == <<>>
  <1>1. Len(none) = 0 /\ Tuple(none)
    BY DEF Tuple
  <1>2. at[0] = p /\ p \in p..(Len(t) + 1)
    BY DEF Offsets, Text
  <1> HIDE DEF at, none
  <1>3. at[Len(none)] = p /\ \A k \in 1..Len(none) : ParamAt(t, at[k - 1], none[k], at[k], Ch)
    BY <1>1, <1>2
  <1>4. ParamsAt(t, p, none, p, Ch)
    BY <1>1, <1>2, <1>3 DEF ParamsAt
  <1> QED
    BY <1>4 DEF none



LEMMA BareItem ==
    ASSUME NEW Ch, NEW t, Text(t, Ch), NEW p, NEW v, NEW q, BareAt(t, p, v, q, Ch), peek(t, q) # Semicolon
    PROVE  ItemAt(t, p, Item(v), q, Ch)
  <1>1. q \in Offsets(t)
    BY AtPlaces
  <1>2. ParamsAt(t, q, <<>>, q, Ch)
    <2> DEFINE none == ParamsAt(t, q, <<>>, q, Ch)
    <2>1. q \in Offsets(t) /\ peek(t, q) # Semicolon
      BY <1>1
    <2>2. none
      BY <2>1, ParamsEnd
    <2> QED
      BY <2>2
  <1>3. Item(v).val = v /\ Item(v).params = <<>> /\ Item(v) = [val |-> Item(v).val, params |-> Item(v).params]
    BY DEF Item
  <1> QED
    BY <1>2, <1>3 DEF ItemAt

-----------------------------------------------------------------------------
(* The entries before the one that is written.                             *)

LEMMA ThenLies ==
    ASSUME NEW Ch, NEW s, Text(s, Ch), NEW w \in Seq(Ch), NEW t, t = s \o w
    PROVE  /\ Text(t, Ch) /\ Lies(t, Len(s) + 1, w, Len(t) + 1)
           /\ \A F : peek(t, Len(s) + 1) \in F => Part(s, t, 0, F)
  <1>1. Text(t, Ch) /\ s \in Seq(Ch)
    BY DEF Text
  <1>2. Lies(t, 1, s \o w, Len(t) + 1)
    BY <1>1, LiesWhole
  <1>3. PICK m : Lies(t, 1, s, m) /\ Lies(t, m, w, Len(t) + 1)
    BY <1>1, <1>2, LiesParts
  <1> QED
    BY <1>1, <1>3, PartLies

\* An entry begins at p, after those of front and a comma.
Begun(t, front, p, Ch) ==
    \/ front = <<>> /\ p = 1
    \/ \E e : Run(t, 1, front, e, Ch) /\ peek(t, skipOWS(t, e)) = Comma /\ p = afterComma(t, e)

LEMMA BegunGoes ==
    ASSUME NEW Ch, NEW s, Text(s, Ch), NEW t, Text(t, Ch), NEW F, Part(s, t, 0, F),
           NEW front, NEW p, Begun(s, front, p, Ch), p <= Len(s)
    PROVE  Begun(t, front, p, Ch)
  <1>1. CASE front = <<>> /\ p = 1
    BY <1>1 DEF Begun
  <1>2. ASSUME NEW e, Run(s, 1, front, e, Ch), peek(s, skipOWS(s, e)) = Comma, p = afterComma(s, e)
        PROVE  Begun(t, front, p, Ch)
    <2>1. e \in Offsets(s)
      BY <1>2, RunPlaces
    <2>2. Tells(s, e, F, AfterEntry)
      BY <1>2, <2>1, CommaAhead
    <2>3. Run(t, 1, front, e, Ch)
      BY <1>2, <2>2, RunGoes
    <2>4. peek(t, skipOWS(t, e)) = Comma /\ afterComma(t, e) = afterComma(s, e)
      BY <1>2, <2>1, CommaGoes
    <2> QED
      BY <1>2, <2>3, <2>4 DEF Begun
  <1> QED
    BY <1>1, <1>2 DEF Begun

LEMMA SingleRun ==
    ASSUME NEW Ch, NEW t, NEW p, NEW x, NEW q, EntryAt(t, p, x, q, Ch)
    PROVE  Run(t, p, <<x>>, q, Ch)
  <1> DEFINE xs == <<x>>
             st == <<p>>
             en == <<q>>
  <1>1. Tuple(xs) /\ Len(xs) = 1 /\ xs[1] = x /\ st[1] = p /\ en[1] = q
    BY DEF Tuple
  <1> HIDE DEF xs, st, en
  <1>2. \A k \in 1..Len(xs) : EntryAt(t, st[k], xs[k], en[k], Ch)
    BY <1>1
  <1>3. \A k \in 2..Len(xs) : FALSE
    BY <1>1
  <1>4. Run(t, p, xs, q, Ch)
    BY <1>1, <1>2, <1>3 DEF Run
  <1> QED
    BY <1>4 DEF xs

LEMMA RunAppends ==
    ASSUME NEW Ch, NEW t, Text(t, Ch), NEW front, Tuple(front), NEW p, Begun(t, front, p, Ch),
           NEW x, NEW q, EntryAt(t, p, x, q, Ch)
    PROVE  Run(t, 1, Append(front, x), q, Ch)
  <1>1. CASE front = <<>> /\ p = 1
    <2>1. Append(front, x) = <<x>>
      BY <1>1
    <2> QED
      BY <1>1, <2>1, SingleRun
  <1>2. ASSUME NEW e, Run(t, 1, front, e, Ch), peek(t, skipOWS(t, e)) = Comma, p = afterComma(t, e)
        PROVE  Run(t, 1, Append(front, x), q, Ch)
    <2> DEFINE E == {front[k] : k \in 1..Len(front)} \cup {x}
               ys == <<x>>
    <2>1. front \in Seq({front[k] : k \in 1..Len(front)})
      BY Tuples
    <2>2. front \in Seq(E) /\ ys \in Seq(E) /\ Append(front, x) = front \o ys
      <3>1. {front[k] : k \in 1..Len(front)} \subseteq E /\ x \in E
        OBVIOUS
      <3> HIDE DEF E
      <3>2. front \in Seq(E)
        BY <2>1, <3>1
      <3> QED
        BY <3>1, <3>2, Appended
    <2>3. Run(t, p, ys, q, Ch)
      BY SingleRun
    <2> HIDE DEF E, ys
    <2> QED
      BY <1>2, <2>2, <2>3, RunsJoin
  <1> QED
    BY <1>1, <1>2 DEF Begun

\* The separator before the next entry.
OneComma(sep) == \E i \in 1..Len(sep) : \A j \in 1..Len(sep) : sep[j] = Comma <=> j = i

LEMMA SeparatorLies ==
    ASSUME NEW Ch, NEW t, Text(t, Ch), NEW sep \in Seq(Ch), sep \in Seq(Blank \cup {Comma}),
           OneComma(sep),
           NEW n, NEW m, Lies(t, n, sep, m), peek(t, m) \notin Blank
    PROVE  /\ peek(t, skipOWS(t, n)) = Comma /\ afterComma(t, n) = m
           /\ n \in Offsets(t) /\ peek(t, n) \in Blank \cup {Comma} /\ peek(t, n) = sep[1]
  <1>1. PICK i \in 1..Len(sep) : \A j \in 1..Len(sep) : sep[j] = Comma <=> j = i
    BY DEF OneComma
  <1> DEFINE l == Len(sep)
             c == (n - 1) + i
  <1>2. /\ l \in Nat \ {0} /\ n \in Nat \ {0} /\ m = n + l /\ Len(t) \in Nat /\ m <= Len(t) + 1
        /\ \A j \in 1..l : t[(n - 1) + j] = sep[j] /\ sep[j] \in Blank \cup {Comma}
    BY DEF Lies, Holds, Text
  <1>3. c \in n..(m - 1) /\ c \in Nat /\ c + 1 \in Offsets(t) /\ c \in 1..Len(t) /\ n \in Offsets(t)
        /\ m \in Offsets(t) /\ m \in (c + 1)..(Len(t) + 1) /\ c \in n..(Len(t) + 1) /\ n \in 1..Len(t)
    BY <1>2 DEF Offsets
  <1>4. t[c] = Comma /\ t[n] = sep[1] /\ sep[1] \in Blank \cup {Comma}
    <2>1. (n - 1) + 1 = n /\ 1 \in 1..l /\ i \in 1..l
      BY <1>2
    <2>2. sep[i] = Comma /\ t[c] = sep[i]
      BY ONLY <1>1, <1>2, <2>1
    <2>3. t[(n - 1) + 1] = sep[1] /\ sep[1] \in Blank \cup {Comma}
      BY ONLY <1>2, <2>1
    <2> QED
      BY ONLY <2>1, <2>2, <2>3
  <1>5. \A k \in n..(m - 1) : k # c => t[k] \in Blank
    <2> SUFFICES ASSUME NEW k \in n..(m - 1), k # c PROVE t[k] \in Blank
      OBVIOUS
    <2> DEFINE j == k - (n - 1)
    <2>1. j \in 1..l /\ (n - 1) + j = k /\ j # i
      BY <1>2
    <2> QED
      BY <1>1, <1>2, <2>1
  <1> HIDE DEF c, l
  <1>6. peek(t, c) = Comma /\ peek(t, n) = sep[1]
    BY <1>3, <1>4, PeekAt
  <1>7. skipOWS(t, n) = c
    <2>1. \A k \in n..(c - 1) : t[k] \in Blank
      BY <1>2, <1>3, <1>5
    <2>2. peek(t, c) \notin Blank
      BY <1>6, Blanks
    <2> QED
      BY <1>3, <2>1, <2>2, PastBlanks
  <1>8. skipOWS(t, c + 1) = m
    <2>1. \A k \in (c + 1)..(m - 1) : k \in n..(m - 1) /\ k # c
      BY ONLY <1>2, <1>3
    <2>2. \A k \in (c + 1)..(m - 1) : t[k] \in Blank
      BY <1>5, <2>1
    <2> QED
      BY <1>3, <2>2, PastBlanks
  <1> QED
    BY <1>3, <1>4, <1>6, <1>7, <1>8 DEF afterComma

-----------------------------------------------------------------------------
(* The entry that is written.                                              *)

KeyWith(key, m) == [key |-> key, member |-> m]

\* A complete entry to the end.
ClosedAt(t, p, x, alone, Ch) ==
    /\ x = KeyWith(x.key, x.member)
    /\ IF alone THEN KeyAt(t, p, x.key, Len(t) + 1) /\ x.member = Flag
       ELSE MarkedAt(t, p, x, Len(t) + 1, Ch)

\* A key and an inner list that is not closed.
OpenFrom(t, p, x, m) ==
    /\ x = KeyWith(x.key, x.member) /\ x.member = [items |-> x.member.items, params |-> <<>>]
    /\ KeyAt(t, p, x.key, m) /\ peek(t, m) = "=" /\ peek(t, m + 1) = "("

OpenAt(t, p, x, Ch) == \E m : OpenFrom(t, p, x, m) /\ SomeItems(t, (m + 1) + 1, x.member.items, Ch)

LEMMA KeyPlaces ==
    ASSUME NEW Ch, NEW t, Text(t, Ch), NEW p, NEW key, NEW q, KeyAt(t, p, key, q)
    PROVE  /\ p \in Offsets(t) /\ q \in Offsets(t) /\ p <= Len(t) /\ Len(t) \in Nat
           /\ peek(t, p) \notin Blank
  <1>1. p \in Offsets(t) /\ q \in (p + 1)..(Len(t) + 1) /\ Len(t) \in Nat
    BY DEF KeyAt, Text
  <1>2. p <= Len(t) /\ q \in Offsets(t)
    BY ONLY <1>1 DEF Offsets
  <1>3. key[1] = t[p] /\ IsToken(key)
    BY <1>1, <1>2 DEF KeyAt, Offsets
  <1>4. peek(t, p) \in isAlpha \cup {"*"}
    BY <1>1, <1>2, <1>3, PeekAt DEF IsToken, Offsets
  <1>5. \A c \in isAlpha \cup {"*"} : c \in Starters
    BY DEF Starters
  <1>6. peek(t, p) \notin Blank
    BY <1>4, <1>5, StarterClasses DEF Blank
  <1> QED
    BY <1>1, <1>2, <1>6

LEMMA MarkedPlaces ==
    ASSUME NEW Ch, NEW t, Text(t, Ch), NEW p, NEW x, NEW q, MarkedAt(t, p, x, q, Ch)
    PROVE  p \in Offsets(t) /\ p <= Len(t)
  BY KeyPlaces DEF MarkedAt

\* The entry is one of the text, also when the text goes on.
LEMMA ClosedGoes ==
    ASSUME NEW Ch, NEW s, Text(s, Ch), NEW t, Text(t, Ch), NEW F, Part(s, t, 0, F), F \cap AfterItem = {},
           NEW p, NEW x, NEW alone \in BOOLEAN, ClosedAt(s, p, x, alone, Ch),
           alone => F \cap AfterEntry = {}
    PROVE  EntryAt(t, p, x, Len(s) + 1, Ch) /\ p \in Offsets(s) /\ p <= Len(s)
  <1> DEFINE q == Len(s) + 1
  <1>1. Tells(s, q, F, AfterItem) /\ Tells(s, q, F, isTokenChar) /\ (alone => Tells(s, q, F, AfterEntry))
    BY ClassesEnd DEF Tells
  <1>2. x = [key |-> x.key, member |-> x.member]
    BY DEF ClosedAt, KeyWith
  <1>3. CASE alone
    <2>1. KeyAt(s, p, x.key, q) /\ x.member = Flag
      BY <1>3 DEF ClosedAt
    <2>2. KeyAt(t, p, x.key, q) /\ p \in Offsets(s) /\ p <= Len(s)
      BY <1>1, <2>1, KeyGoes, KeyPlaces
    <2>3. peek(t, q) \in F
      BY DEF Part
    <2>4. peek(t, q) \notin Blank \cup {"="} /\ p \in Offsets(t)
      BY <1>3, <2>2, <2>3, ClassesEnd, KeyPlaces
    <2> QED
      BY <1>2, <2>1, <2>2, <2>4 DEF EntryAt
  <1>4. CASE ~alone
    <2>1. MarkedAt(s, p, x, q, Ch)
      BY <1>4 DEF ClosedAt
    <2>2. MarkedAt(t, p, x, q, Ch) /\ p \in Offsets(s) /\ p <= Len(s)
      BY <1>1, <2>1, MarkedGoes, MarkedPlaces
    <2>3. p \in Offsets(t)
      BY <2>2, MarkedPlaces
    <2> QED
      BY <1>2, <2>2, <2>3 DEF EntryAt, MarkedAt
  <1> QED
    BY <1>3, <1>4

LEMMA ClosedIsEntry ==
    ASSUME NEW Ch, NEW t, Text(t, Ch), NEW p, NEW x, NEW alone \in BOOLEAN, ClosedAt(t, p, x, alone, Ch)
    PROVE  EntryAt(t, p, x, Len(t) + 1, Ch)
  <1> DEFINE F == {"EOF"}
  <1>1. Part(t, t, 0, F)
    BY LiesWhole, PartLies DEF Text
  <1>2. F \cap AfterItem = {} /\ F \cap AfterEntry = {}
    BY ClassesEnd
  <1> HIDE DEF F
  <1> QED
    BY <1>1, <1>2, ClosedGoes

LEMMA OpenPlaces ==
    ASSUME NEW Ch, NEW t, Text(t, Ch), NEW p, NEW x, NEW m, OpenFrom(t, p, x, m)
    PROVE  /\ p \in Offsets(t) /\ p <= Len(t) /\ m \in Offsets(t) /\ m + 1 \in Offsets(t)
           /\ (m + 1) + 1 \in Offsets(t) /\ m <= Len(t) /\ m + 1 <= Len(t)
  <1>1. KeyAt(t, p, x.key, m) /\ peek(t, m) = "=" /\ peek(t, m + 1) = "("
    BY DEF OpenFrom
  <1>2. p \in Offsets(t) /\ m \in Offsets(t) /\ p <= Len(t)
    BY <1>1, KeyPlaces
  <1>3. m + 1 \in Offsets(t) /\ m \in 1..Len(t)
    BY <1>1, <1>2, AfterMark
  <1>4. (m + 1) + 1 \in Offsets(t) /\ m + 1 \in 1..Len(t)
    BY <1>1, <1>3, AfterMark
  <1> QED
    BY <1>2, <1>3, <1>4

LEMMA OpenGoes ==
    ASSUME NEW Ch, NEW s, Text(s, Ch), NEW t, Text(t, Ch), NEW F, Part(s, t, 0, F),
           NEW p, NEW x, NEW m, OpenFrom(s, p, x, m)
    PROVE  OpenFrom(t, p, x, m)
  <1>1. KeyAt(s, p, x.key, m) /\ peek(s, m) = "=" /\ peek(s, m + 1) = "("
    BY DEF OpenFrom
  <1>2. p \in Offsets(s) /\ m \in Offsets(s) /\ m + 1 \in Offsets(s) /\ m <= Len(s)
    BY OpenPlaces
  <1>3. Tells(s, m, F, isTokenChar)
    BY <1>2, ClassesEnd DEF Tells
  <1>4. KeyAt(t, p, x.key, m)
    BY <1>1, <1>3, KeyGoes
  <1>5. peek(t, m) = "=" /\ peek(t, m + 1) = "("
    BY <1>1, <1>2, Goes
  <1> QED
    BY <1>4, <1>5 DEF OpenFrom

-----------------------------------------------------------------------------
(* What is written after an entry.                                         *)

\* Characters that belong to nothing before them.
LEMMA Apart ==
    /\ \A c \in Blank \cup {SP, ")", Comma} : c \notin AfterItem
    /\ Comma \notin AfterEntry /\ Semicolon \notin AfterParam
  <1>1. \A c \in {SP, HT, ")", Comma, Semicolon} : c \in Ends
    BY DEF Ends
  <1>2. \A c \in {SP, HT, ")", Comma, Semicolon} : c \notin isTokenChar
    BY <1>1, TokenClasses
  <1>3. \A c \in {SP, HT, ")", Comma} : c \notin AfterItem
    BY <1>2, DelimitersDiffer DEF AfterItem
  <1> QED
    BY <1>2, <1>3, DelimitersDiffer, Blanks DEF AfterEntry, AfterParam

LEMMA KeyTyped ==
    ASSUME NEW Ch, Full(Ch), NEW key, IsToken(key)
    PROVE  key \in Seq(Ch) /\ key # <<>> /\ key[1] \notin Blank
  <1>1. key \in Seq(Ch)
    BY SyntaxHas DEF Full, IsToken
  <1>2. \A c \in isAlpha \cup {"*"} : c \in Starters
    BY DEF Starters
  <1>3. key[1] \in Starters /\ key # <<>>
    BY <1>2 DEF IsToken
  <1>4. key[1] \notin Blank
    BY <1>3, StarterClasses, Blanks
  <1> QED
    BY <1>1, <1>3, <1>4

\* The text s has the members ms; the last one may not be closed, or be a key alone.
Composed(ms, s, isOpen, alone, Ch) ==
    \/ ms = <<>> /\ s = <<>> /\ ~isOpen /\ ~alone
    \/ \E front, x, p : /\ ms = Append(front, x) /\ Tuple(front) /\ Begun(s, front, p, Ch)
                        /\ isOpen => ~alone /\ OpenAt(s, p, x, Ch)
                        /\ ~isOpen => ClosedAt(s, p, x, alone, Ch)

LEMMA NextBegins ==
    ASSUME NEW Ch, Full(Ch), HT \in Ch, NEW s, Text(s, Ch), NEW t, Text(t, Ch),
           NEW front, Tuple(front), NEW p, Begun(s, front, p, Ch),
           NEW x, NEW alone \in BOOLEAN, ClosedAt(s, p, x, alone, Ch),
           NEW sep \in Separators, ~(alone /\ sep[1] \in Blank),
           NEW n, Lies(t, 1, s, n), NEW m, Lies(t, n, sep, m), peek(t, m) \notin Blank
    PROVE  Begun(t, Append(front, x), m, Ch)
  <1>1. /\ sep \in Seq(Blank \cup {Comma})
        /\ OneComma(sep)
    BY PeerAssumption DEF OneComma
  <1>2. sep \in Seq(Ch)
    <2>1. Blank \cup {Comma} \subseteq Ch
      BY Blanks, SyntaxHas DEF Full
    <2> QED
      BY <1>1, <2>1
  <1>3. /\ peek(t, skipOWS(t, n)) = Comma /\ afterComma(t, n) = m
        /\ n \in Offsets(t) /\ peek(t, n) \in Blank \cup {Comma} /\ peek(t, n) = sep[1]
    BY <1>1, <1>2, SeparatorLies
  <1> DEFINE F == {peek(t, n)}
  <1>4. n = Len(s) + 1 /\ Part(s, t, 0, F)
    BY PartLies DEF Text
  <1>5. F \cap AfterItem = {} /\ (alone => F \cap AfterEntry = {})
    BY <1>3, Apart
  <1> HIDE DEF F
  <1>6. EntryAt(t, p, x, n, Ch) /\ p <= Len(s)
    BY <1>4, <1>5, ClosedGoes
  <1>7. Begun(t, front, p, Ch)
    BY <1>4, <1>6, BegunGoes
  <1>8. Run(t, 1, Append(front, x), n, Ch)
    BY <1>6, <1>7, RunAppends
  <1> QED
    BY <1>3, <1>8 DEF Begun

\* No blank comes after a key alone.
SeparatedBy(ms, alone, sep) ==
    sep \in (IF ms = <<>> THEN {<<>>} ELSE Separators) /\ ~(alone /\ sep[1] \in Blank)

\* After the members ms a text has a key at m, and then another text to its end.
Follows(t, ms, key, after, m, k, Ch) ==
    Begun(t, ms, m, Ch) /\ Lies(t, m, key, k) /\ Lies(t, k, after, Len(t) + 1)

\* A member that is written begins where the entries before it let it begin.
LEMMA NextLies ==
    ASSUME NEW Ch, Full(Ch), HT \in Ch, NEW s, Text(s, Ch), NEW alone \in BOOLEAN,
           NEW ms, Composed(ms, s, FALSE, alone, Ch),
           NEW sep, SeparatedBy(ms, alone, sep),
           NEW key, IsToken(key), NEW after \in Seq(Ch), NEW t, t = s \o sep \o key \o after
    PROVE  /\ Text(t, Ch) /\ Tuple(ms)
           /\ \E m, k : Follows(t, ms, key, after, m, k, Ch)
  <1>1. key \in Seq(Ch) /\ key # <<>> /\ key[1] \notin Blank
    BY ONLY Full(Ch), IsToken(key), KeyTyped
  <1>0. sep \in (IF ms = <<>> THEN {<<>>} ELSE Separators) /\ ~(alone /\ sep[1] \in Blank)
    BY DEF SeparatedBy
  <1>2. sep \in Seq(Ch)
    <2>1. Blank \cup {Comma} \subseteq Ch
      BY Blanks, SyntaxHas DEF Full
    <2>2. CASE sep = <<>>
      BY <2>2
    <2>3. CASE sep \in Separators
      BY <2>1, <2>3, PeerAssumption
    <2> QED
      BY <1>0, <2>2, <2>3
  <1>3. s \in Seq(Ch) /\ s \o sep \in Seq(Ch) /\ (s \o sep) \o key \in Seq(Ch) /\ t \in Seq(Ch)
    <2>1. s \in Seq(Ch) /\ s \o sep \in Seq(Ch)
      BY <1>2 DEF Text
    <2>2. (s \o sep) \o key \in Seq(Ch)
      BY <1>1, <2>1
    <2> QED
      BY <2>1, <2>2
  <1>4. Text(t, Ch)
    BY <1>3 DEF Text
  <1>5. Lies(t, 1, ((s \o sep) \o key) \o after, Len(t) + 1)
    BY <1>4, LiesWhole
  <1>6. PICK k : Lies(t, 1, (s \o sep) \o key, k) /\ Lies(t, k, after, Len(t) + 1)
    BY <1>3, <1>4, <1>5, LiesParts
  <1>7. PICK m : Lies(t, 1, s \o sep, m) /\ Lies(t, m, key, k)
    BY <1>1, <1>3, <1>4, <1>6, LiesParts
  <1>8. PICK n : Lies(t, 1, s, n) /\ Lies(t, n, sep, m)
    BY <1>2, <1>3, <1>4, <1>7, LiesParts
  <1>9. peek(t, m) \notin Blank
    BY <1>1, <1>4, <1>7, LiesPlaces
  <1>10. Begun(t, ms, m, Ch) /\ Tuple(ms)
    <2>1. CASE ms = <<>> /\ s = <<>>
      <3>1. sep = <<>> /\ Len(s) = 0 /\ Len(sep) = 0
        BY <1>0, <2>1
      <3>2. m = 1
        BY <1>8, <3>1 DEF Lies
      <3> QED
        BY <2>1, <3>2 DEF Begun, Tuple
    <2>2. ASSUME NEW front, NEW x, NEW p, ms = Append(front, x), Tuple(front),
                 Begun(s, front, p, Ch), ClosedAt(s, p, x, alone, Ch)
          PROVE  Begun(t, ms, m, Ch) /\ Tuple(ms)
      <3>1. ms # <<>> /\ Tuple(ms)
        BY <2>2, Appended
      <3>2. sep \in Separators
        BY <1>0, <3>1
      <3> QED
        BY <1>0, <1>4, <1>8, <1>9, <2>2, <3>1, <3>2, NextBegins
    <2> QED
      BY <2>1, <2>2 DEF Composed
  <1> QED
    BY <1>4, <1>6, <1>7, <1>10 DEF Follows

LEMMA NewWritten ==
    ASSUME NEW Ch, NEW t, NEW ms, Tuple(ms), NEW m, Begun(t, ms, m, Ch), NEW x,
           NEW isOpen \in BOOLEAN, NEW alone \in BOOLEAN,
           isOpen => ~alone /\ OpenAt(t, m, x, Ch), ~isOpen => ClosedAt(t, m, x, alone, Ch)
    PROVE  Composed(Append(ms, x), t, isOpen, alone, Ch)
  BY DEF Composed

-----------------------------------------------------------------------------
(* The members that are written.                                           *)

LEMMA FlagWritten ==
    ASSUME NEW Ch, Full(Ch), HT \in Ch, NEW s, Text(s, Ch), NEW alone \in BOOLEAN,
           NEW ms, Composed(ms, s, FALSE, alone, Ch),
           NEW sep, SeparatedBy(ms, alone, sep),
           NEW key, IsToken(key), NEW after, after = <<>>, NEW t, t = s \o sep \o key \o after
    PROVE  Composed(Append(ms, KeyWith(key, Flag)), t, FALSE, TRUE, Ch) /\ Text(t, Ch)
  <1> DEFINE q == Len(t) + 1
             x == KeyWith(key, Flag)
  <1>1. after \in Seq(Ch) /\ Len(after) = 0
    OBVIOUS
  <1>2. Text(t, Ch) /\ Tuple(ms)
    BY <1>1, NextLies
  <1>3. PICK m, k : Follows(t, ms, key, after, m, k, Ch)
    BY <1>1, NextLies
  <1>4. Begun(t, ms, m, Ch) /\ Lies(t, m, key, k) /\ Lies(t, k, after, q)
    BY <1>3 DEF Follows
  <1>5. k = q /\ peek(t, q) \notin isTokenChar
    <2>1. k \in Nat /\ q = k + Len(after)
      BY <1>4 DEF Lies, Holds
    <2>2. peek(t, q) \notin isTokenChar
      BY <1>2, EndOf, ClassesEnd
    <2> QED
      BY <1>1, <2>1, <2>2
  <1>6. KeyAt(t, m, key, q)
    BY <1>2, <1>4, <1>5, KeyLies
  <1>7. x.key = key /\ x.member = Flag
    BY DEF KeyWith
  <1>8. ClosedAt(t, m, x, TRUE, Ch)
    BY <1>6, <1>7 DEF ClosedAt
  <1> HIDE DEF x
  <1>9. Composed(Append(ms, x), t, FALSE, TRUE, Ch)
    BY <1>2, <1>4, <1>8, NewWritten
  <1> QED
    BY <1>2, <1>9 DEF x

\* A value after its mark, up to the end.
LEMMA ValueLies ==
    ASSUME NEW Ch, Full(Ch), NEW t, Text(t, Ch), NEW w, NEW v, Spelt(w, v, Ch),
           NEW k, Lies(t, k, <<"=">> \o w, Len(t) + 1)
    PROVE  peek(t, k) = "=" /\ BareAt(t, k + 1, v, Len(t) + 1, Ch)
  <1> DEFINE q == Len(t) + 1
  <1>1. w \in Seq(Ch) /\ <<"=">> \in Seq(Ch)
    BY SpeltTyped, SyntaxHas DEF Full
  <1>2. PICK l : Lies(t, k, <<"=">>, l) /\ Lies(t, l, w, q)
    BY <1>1, LiesParts
  <1>3. peek(t, k) = "=" /\ l = k + 1
    BY <1>2, MarkLies
  <1>4. peek(t, q) \notin isTokenChar /\ peek(t, q) \notin isDigit
    BY EndOf, ClassesEnd
  <1>5. MayFollow(v, peek(t, q))
    BY <1>4 DEF MayFollow
  <1>6. BareAt(t, l, v, q, Ch)
    BY <1>2, <1>5, BareLies
  <1> QED
    BY <1>3, <1>6

LEMMA ItemMemberWritten ==
    ASSUME NEW Ch, Full(Ch), HT \in Ch, NEW s, Text(s, Ch), NEW alone \in BOOLEAN,
           NEW ms, Composed(ms, s, FALSE, alone, Ch),
           NEW sep, SeparatedBy(ms, alone, sep),
           NEW key, IsToken(key), NEW w, NEW v, Spelt(w, v, Ch),
           NEW t, t = s \o sep \o key \o (<<"=">> \o w)
    PROVE  Composed(Append(ms, KeyWith(key, Item(v))), t, FALSE, FALSE, Ch) /\ Text(t, Ch)
  <1> DEFINE q == Len(t) + 1
             x == KeyWith(key, Item(v))
             after == <<"=">> \o w
  <1>1. after \in Seq(Ch)
    BY SpeltTyped, SyntaxHas DEF Full
  <1> HIDE DEF after
  <1>2. t = s \o sep \o key \o after
    BY DEF after
  <1>3. Text(t, Ch) /\ Tuple(ms)
    BY <1>1, <1>2, NextLies
  <1>4. PICK m, k : Follows(t, ms, key, after, m, k, Ch)
    BY <1>1, <1>2, NextLies
  <1>5. Begun(t, ms, m, Ch) /\ Lies(t, m, key, k) /\ Lies(t, k, after, q)
    BY <1>4 DEF Follows
  <1>6. peek(t, k) = "=" /\ BareAt(t, k + 1, v, q, Ch)
    BY <1>3, <1>5, ValueLies DEF after
  <1>7. KeyAt(t, m, key, k)
    <2>1. peek(t, k) \notin isTokenChar
      BY <1>6, TokenClasses DEF Ends
    <2> QED
      BY <1>3, <1>5, <2>1, KeyLies
  <1>8. ItemAt(t, k + 1, Item(v), q, Ch)
    BY <1>3, <1>6, EndOf, BareItem
  <1>9. x.key = key /\ x.member = Item(v) /\ x = KeyWith(x.key, x.member)
    BY DEF KeyWith
  <1> HIDE DEF x
  <1>10. MarkedAt(t, m, x, q, Ch)
    BY <1>6, <1>7, <1>8, <1>9 DEF MarkedAt, MemberAt
  <1>11. ClosedAt(t, m, x, FALSE, Ch)
    BY <1>9, <1>10 DEF ClosedAt
  <1>12. Composed(Append(ms, x), t, FALSE, FALSE, Ch)
    BY <1>3, <1>5, <1>11, NewWritten
  <1> QED
    BY <1>3, <1>12 DEF x

EmptyList == [items |-> <<>>, params |-> <<>>]

LEMMA ListOpened ==
    ASSUME NEW Ch, Full(Ch), HT \in Ch, NEW s, Text(s, Ch), NEW alone \in BOOLEAN,
           NEW ms, Composed(ms, s, FALSE, alone, Ch),
           NEW sep, SeparatedBy(ms, alone, sep),
           NEW key, IsToken(key), NEW blanks \in Seq({SP}),
           NEW t, t = s \o sep \o key \o (<<"=", "(">> \o blanks)
    PROVE  Composed(Append(ms, KeyWith(key, EmptyList)), t, TRUE, FALSE, Ch) /\ Text(t, Ch)
  <1> DEFINE q == Len(t) + 1
             x == KeyWith(key, EmptyList)
             marks == <<"=", "(">>
             after == marks \o blanks
  <1>1. marks \in Seq(Ch) /\ blanks \in Seq(Ch) /\ Len(marks) = 2 /\ marks[1] = "=" /\ marks[2] = "("
    BY SyntaxHas DEF Full
  <1>2. t = s \o sep \o key \o after
    OBVIOUS
  <1> HIDE DEF marks
  <1>3. after \in Seq(Ch)
    BY <1>1
  <1> HIDE DEF after
  <1>4. Text(t, Ch) /\ Tuple(ms)
    BY <1>2, <1>3, NextLies
  <1>5. PICK m, k : Follows(t, ms, key, after, m, k, Ch)
    BY <1>2, <1>3, NextLies
  <1>6. Begun(t, ms, m, Ch) /\ Lies(t, m, key, k) /\ Lies(t, k, after, q)
    BY <1>5 DEF Follows
  <1>7. PICK j : Lies(t, k, marks, j) /\ Lies(t, j, blanks, q)
    BY <1>1, <1>4, <1>6, LiesParts DEF after
  <1>8. /\ k \in Nat \ {0} /\ Len(t) \in Nat /\ j = k + Len(marks) /\ k + Len(marks) <= Len(t) + 1
        /\ \A i \in 1..Len(marks) : t[(k - 1) + i] = marks[i]
    <2>1. Len(t) \in Nat
      BY <1>4 DEF Text
    <2> QED
      BY ONLY <1>7, <2>1 DEF Lies, Holds
  <1>9. /\ j = (k + 1) + 1 /\ (k - 1) + 1 = k /\ (k - 1) + 2 = k + 1 /\ 1 \in 1..Len(marks) /\ 2 \in 1..Len(marks)
        /\ k <= Len(t) /\ k + 1 <= Len(t) /\ k + 1 \in Nat \ {0}
    BY ONLY <1>1, <1>8
  <1>10. peek(t, k) = "=" /\ peek(t, k + 1) = "("
    <2>1. t[k] = "=" /\ t[k + 1] = "("
      BY <1>1, <1>8, <1>9
    <2> DEFINE l == k + 1
    <2>2. k \in Nat \ {0} /\ l \in Nat \ {0} /\ k <= Len(t) /\ l <= Len(t)
      BY <1>8, <1>9
    <2> HIDE DEF l
    <2>3. peek(t, k) = t[k] /\ peek(t, l) = t[l]
      BY <1>4, <2>2, PeekAt
    <2> QED
      BY <2>1, <2>3 DEF l
  <1>11. KeyAt(t, m, key, k)
    <2>1. peek(t, k) \notin isTokenChar
      BY <1>10, TokenClasses DEF Ends
    <2> QED
      BY <1>4, <1>6, <2>1, KeyLies
  <1>12. j \in Offsets(t) /\ \A i \in j..Len(t) : t[i] = SP
    <2>1. /\ j \in Nat \ {0} /\ j + Len(blanks) = Len(t) + 1 /\ Len(blanks) \in Nat /\ Len(t) \in Nat
          /\ \A i \in 1..Len(blanks) : t[(j - 1) + i] = blanks[i]
      BY <1>4, <1>7 DEF Lies, Holds, Text
    <2>2. j \in Offsets(t) /\ \A i \in j..Len(t) : (j - 1) + ((i - j) + 1) = i /\ (i - j) + 1 \in 1..Len(blanks)
      BY ONLY <2>1 DEF Offsets
    <2>3. \A i \in 1..Len(blanks) : t[(j - 1) + i] = blanks[i] /\ blanks[i] = SP
      BY <2>1
    <2> QED
      BY <2>2, <2>3
  <1>13. /\ x.key = key /\ x.member = EmptyList /\ x = KeyWith(x.key, x.member) /\ x.member.items = <<>>
         /\ x.member = [items |-> x.member.items, params |-> <<>>]
    BY DEF KeyWith, EmptyList
  <1> HIDE DEF x
  <1>14. OpenFrom(t, m, x, k) /\ SomeItems(t, (k + 1) + 1, x.member.items, Ch)
    <2>1. OpenFrom(t, m, x, k)
      BY <1>10, <1>11, <1>13 DEF OpenFrom
    <2>2. SomeItems(t, j, x.member.items, Ch)
      BY <1>12, <1>13 DEF SomeItems
    <2> QED
      BY <1>9, <2>1, <2>2
  <1>15. Composed(Append(ms, x), t, TRUE, FALSE, Ch)
    BY <1>4, <1>6, <1>14, NewWritten DEF OpenAt
  <1> QED
    BY <1>4, <1>15 DEF x

-----------------------------------------------------------------------------
(* What is added to the last member.                                       *)

LEMMA LastReplaced ==
    ASSUME NEW xs, Tuple(xs), NEW x, NEW y
    PROVE  [Append(xs, x) EXCEPT ![Len(Append(xs, x))] = y] = Append(xs, y)
  <1> DEFINE a == Append(xs, x)
             b == Append(xs, y)
             n == Len(xs) + 1
             c == [a EXCEPT ![n] = y]
  <1>1. /\ Tuple(a) /\ Tuple(b) /\ Len(a) = n /\ Len(b) = n /\ Len(xs) \in Nat /\ b[n] = y
        /\ \A k \in 1..Len(xs) : a[k] = xs[k] /\ b[k] = xs[k]
    BY Appended
  <1> HIDE DEF a, b
  <1>2. a = [k \in 1..n |-> a[k]] /\ b = [k \in 1..n |-> b[k]]
    BY <1>1 DEF Tuple
  <1>3. c = [k \in 1..n |-> IF k = n THEN y ELSE a[k]]
    BY <1>1, <1>2
  <1>4. \A k \in 1..n : (IF k = n THEN y ELSE a[k]) = b[k]
    <2>1. \A k \in 1..n : k # n => k \in 1..Len(xs)
      BY <1>1
    <2> QED
      BY <1>1, <2>1
  <1> HIDE DEF c
  <1>5. c = b
    BY ONLY <1>2, <1>3, <1>4
  <1> QED
    BY <1>1, <1>5 DEF a, b, c

\* The last one is replaced.

LEMMA Replaced ==
    ASSUME NEW Ch, NEW t, NEW front, Tuple(front), NEW p, Begun(t, front, p, Ch), NEW x, NEW y,
           NEW isOpen \in BOOLEAN,
           isOpen => OpenAt(t, p, y, Ch), ~isOpen => ClosedAt(t, p, y, FALSE, Ch)
    PROVE  LET ms == Append(front, x)
           IN  Composed([ms EXCEPT ![Len(ms)] = y], t, isOpen, FALSE, Ch)
  BY LastReplaced DEF Composed

\* Spaces in a text.
LEMMA BlanksLie ==
    ASSUME NEW Ch, NEW t, Text(t, Ch), NEW blanks \in Seq({SP}), NEW k, NEW l, Lies(t, k, blanks, l), l <= Len(t) + 1
    PROVE  l \in Offsets(t) /\ l >= k /\ \A j \in k..(l - 1) : t[j] = SP
  <1>1. /\ k \in Nat \ {0} /\ l = k + Len(blanks) /\ Len(blanks) \in Nat /\ Len(t) \in Nat
        /\ \A i \in 1..Len(blanks) : t[(k - 1) + i] = blanks[i]
    BY DEF Lies, Holds, Text
  <1>2. \A j \in k..(l - 1) : (k - 1) + ((j - k) + 1) = j /\ (j - k) + 1 \in 1..Len(blanks)
    BY ONLY <1>1
  <1>3. \A i \in 1..Len(blanks) : t[(k - 1) + i] = blanks[i] /\ blanks[i] = SP
    BY <1>1
  <1>4. l \in Offsets(t) /\ l >= k
    BY <1>1 DEF Offsets
  <1> QED
    BY <1>2, <1>3, <1>4

WithItem(m, x) == [m EXCEPT !.items = Append(@, x)]

LEMMA WithItemIs ==
    ASSUME NEW is, NEW ps, NEW x
    PROVE  WithItem([items |-> is, params |-> ps], x) = [items |-> Append(is, x), params |-> ps]
  <1> DEFINE y == Append(is, x)
  <1> HIDE DEF y
  <1>1. [[items |-> is, params |-> ps] EXCEPT !.items = y] = [items |-> y, params |-> ps]
    OBVIOUS
  <1> QED
    BY <1>1 DEF WithItem, y

LEMMA ItemAdded ==
    ASSUME NEW Ch, Full(Ch), NEW s, Text(s, Ch), NEW front, Tuple(front), NEW p, Begun(s, front, p, Ch),
           NEW x, OpenAt(s, p, x, Ch), NEW blanks \in Seq({SP}), x.member.items # <<>> => blanks # <<>>,
           NEW w, NEW v, Spelt(w, v, Ch), NEW t, t = s \o blanks \o w
    PROVE  /\ Text(t, Ch) /\ Begun(t, front, p, Ch)
           /\ OpenAt(t, p, KeyWith(x.key, WithItem(x.member, Item(v))), Ch)
  <1> DEFINE q == Len(t) + 1
             xs == x.member.items
             n == Len(s)
  <1>1. PICK m : OpenFrom(s, p, x, m) /\ SomeItems(s, (m + 1) + 1, xs, Ch)
    BY DEF OpenAt
  <1>2. blanks \in Seq(Ch) /\ w \in Seq(Ch) /\ w # <<>> /\ s \in Seq(Ch)
    <2>1. {SP} \subseteq Ch
      BY SyntaxHas DEF Full
    <2> QED
      BY <2>1, SpeltTyped DEF Text
  <1>3. s \o blanks \in Seq(Ch) /\ t \in Seq(Ch) /\ Text(t, Ch)
    <2>1. s \o blanks \in Seq(Ch)
      BY <1>2
    <2>2. t \in Seq(Ch)
      BY <1>2, <2>1
    <2> QED
      BY <2>1, <2>2 DEF Text
  <1>4. Lies(t, 1, (s \o blanks) \o w, q)
    BY <1>3, LiesWhole
  <1>5. PICK l : Lies(t, 1, s \o blanks, l) /\ Lies(t, l, w, q)
    BY <1>2, <1>3, <1>4, LiesParts
  <1>6. PICK k : Lies(t, 1, s, k) /\ Lies(t, k, blanks, l)
    BY <1>2, <1>3, <1>5, LiesParts
  <1>7. k = n + 1 /\ Part(s, t, 0, {peek(t, k)})
    BY <1>2, <1>3, <1>6, PartLies
  <1>8. p <= Len(s)
    BY <1>1, OpenPlaces
  <1>9. Begun(t, front, p, Ch) /\ OpenFrom(t, p, x, m)
    BY <1>1, <1>3, <1>7, <1>8, BegunGoes, OpenGoes
  <1>10. ItemAt(t, l, Item(v), q, Ch)
    <2>1. peek(t, q) \notin isTokenChar /\ peek(t, q) \notin isDigit /\ peek(t, q) # Semicolon
      BY <1>3, EndOf, ClassesEnd
    <2>2. MayFollow(v, peek(t, q))
      BY <2>1 DEF MayFollow
    <2>3. BareAt(t, l, v, q, Ch)
      BY <1>3, <1>5, <2>2, BareLies
    <2> QED
      BY <1>3, <2>1, <2>3, BareItem
  <1>11. {peek(t, k)} \cap AfterItem = {} \/ xs = <<>>
    <2>1. CASE xs # <<>>
      <3>1. peek(t, k) = blanks[1] /\ blanks # <<>>
        BY <1>2, <1>3, <1>6, <2>1, LiesPlaces
      <3>2. peek(t, k) = SP
        BY <3>1
      <3> QED
        BY <3>2, Apart
    <2> QED
      BY <2>1
  <1>12. /\ l \in Offsets(t) /\ l >= n + 1 /\ \A j \in (n + 1)..(l - 1) : t[j] = SP
    <2>1. l <= Len(t) + 1
      BY <1>5 DEF Lies, Holds, Text
    <2> QED
      BY <1>3, <1>6, <1>7, <2>1, BlanksLie
  <1> HIDE DEF n, xs, q
  <1>13. SomeItems(t, (m + 1) + 1, Append(xs, Item(v)), Ch)
    BY <1>1, <1>3, <1>7, <1>10, <1>11, <1>12, ItemsWithItem DEF n, q
  <1> DEFINE y == KeyWith(x.key, WithItem(x.member, Item(v)))
  <1>14. /\ y = KeyWith(y.key, y.member) /\ y.key = x.key /\ y.member.items = Append(xs, Item(v))
         /\ y.member = [items |-> y.member.items, params |-> <<>>]
    <2>1. x.member = [items |-> xs, params |-> <<>>]
      BY <1>1 DEF OpenFrom, xs
    <2>2. WithItem([items |-> xs, params |-> <<>>], Item(v)) = [items |-> Append(xs, Item(v)), params |-> <<>>]
      BY WithItemIs
    <2>3. y = [key |-> x.key, member |-> [items |-> Append(xs, Item(v)), params |-> <<>>]]
      BY <2>1, <2>2 DEF KeyWith
    <2> HIDE DEF y
    <2> QED
      BY ONLY <2>3 DEF KeyWith
  <1> HIDE DEF y
  <1>15. OpenFrom(t, p, y, m)
    BY <1>9, <1>14 DEF OpenFrom
  <1>16. OpenAt(t, p, y, Ch)
    BY <1>13, <1>14, <1>15 DEF OpenAt
  <1> QED
    BY <1>3, <1>9, <1>16 DEF y

\* An inner list is closed.
LEMMA ListClosed ==
    ASSUME NEW Ch, Full(Ch), NEW s, Text(s, Ch), NEW front, Tuple(front), NEW p, Begun(s, front, p, Ch),
           NEW x, OpenAt(s, p, x, Ch), NEW blanks \in Seq({SP}), NEW t, t = s \o blanks \o <<")">>
    PROVE  Text(t, Ch) /\ Begun(t, front, p, Ch) /\ ClosedAt(t, p, x, FALSE, Ch)
  <1> DEFINE q == Len(t) + 1
             xs == x.member.items
             n == Len(s)
             mark == <<")">>
  <1>1. PICK m : OpenFrom(s, p, x, m) /\ SomeItems(s, (m + 1) + 1, xs, Ch)
    BY DEF OpenAt
  <1>2. blanks \in Seq(Ch) /\ mark \in Seq(Ch) /\ s \in Seq(Ch)
    <2>1. {SP} \subseteq Ch /\ ")" \in Ch
      BY SyntaxHas DEF Full
    <2> QED
      BY <2>1 DEF Text
  <1> HIDE DEF mark
  <1>3. s \o blanks \in Seq(Ch) /\ t \in Seq(Ch) /\ Text(t, Ch)
    <2>1. s \o blanks \in Seq(Ch)
      BY <1>2
    <2>2. t \in Seq(Ch)
      BY <1>2, <2>1 DEF mark
    <2> QED
      BY <2>1, <2>2 DEF Text
  <1>4. Lies(t, 1, (s \o blanks) \o mark, q)
    BY <1>3, LiesWhole DEF mark
  <1>5. PICK l : Lies(t, 1, s \o blanks, l) /\ Lies(t, l, mark, q)
    BY <1>2, <1>3, <1>4, LiesParts
  <1>6. PICK k : Lies(t, 1, s, k) /\ Lies(t, k, blanks, l)
    BY <1>2, <1>3, <1>5, LiesParts
  <1>7. k = n + 1 /\ Part(s, t, 0, {peek(t, k)})
    BY <1>2, <1>3, <1>6, PartLies
  <1>8. p <= Len(s)
    BY <1>1, OpenPlaces
  <1>9. Begun(t, front, p, Ch) /\ OpenFrom(t, p, x, m)
    BY <1>1, <1>3, <1>7, <1>8, BegunGoes, OpenGoes
  <1>10. peek(t, l) = ")" /\ q = l + 1 /\ l <= Len(t)
    BY <1>3, <1>5, MarkLies DEF mark
  <1>11. {peek(t, k)} \cap AfterItem = {}
    <2>1. CASE blanks = <<>>
      <3>1. Len(blanks) = 0 /\ k \in Nat /\ l = k + Len(blanks)
        BY <1>6, <2>1 DEF Lies, Holds
      <3> QED
        BY <1>10, <3>1, Apart
    <2>2. CASE blanks # <<>>
      <3>1. peek(t, k) = blanks[1]
        BY <1>2, <1>3, <1>6, <2>2, LiesPlaces
      <3>2. peek(t, k) = SP
        BY <2>2, <3>1
      <3> QED
        BY <3>2, Apart
    <2> QED
      BY <2>1, <2>2
  <1>12. /\ l \in Offsets(t) /\ l >= n + 1 /\ \A j \in (n + 1)..(l - 1) : t[j] = SP
    <2>1. l <= Len(t) + 1
      BY <1>5 DEF Lies, Holds, Text
    <2> QED
      BY <1>3, <1>6, <1>7, <2>1, BlanksLie
  <1> HIDE DEF n, xs, q
  <1>13. PICK e : ItemsAt(t, (m + 1) + 1, xs, e, Ch) /\ skipSP(t, e) = l
    <2> DEFINE F == {peek(t, k)}
               i == (m + 1) + 1
    <2>1. F \cap AfterItem = {} \/ xs = <<>>
      BY <1>11
    <2>2. Part(s, t, 0, F) /\ SomeItems(s, i, xs, Ch)
      BY <1>1, <1>7 DEF xs
    <2> HIDE DEF F, i
    <2>0. /\ Text(s, Ch) /\ Text(t, Ch) /\ l \in Offsets(t) /\ l >= Len(s) + 1
          /\ \A j \in (Len(s) + 1)..(l - 1) : t[j] = SP
          /\ peek(t, l) = ")"
      BY <1>3, <1>10, <1>12 DEF n
    <2>3. \E e : ItemsAt(t, i, xs, e, Ch) /\ skipSP(t, e) = l
      BY ONLY <2>0, <2>1, <2>2, ItemsClosed
    <2> QED
      BY <2>3 DEF i
  <1>14. q \in Offsets(t) /\ peek(t, q) # Semicolon
    BY <1>3, EndOf DEF q
  <1>15. ParamsAt(t, q, <<>>, q, Ch)
    BY <1>3, <1>14, ParamsEnd
  <1>16. /\ x = KeyWith(x.key, x.member) /\ x.member = [items |-> x.member.items, params |-> <<>>]
         /\ KeyAt(t, p, x.key, m) /\ peek(t, m) = "=" /\ peek(t, m + 1) = "("
    BY <1>9 DEF OpenFrom
  <1>17. m + 1 \in Offsets(t)
    BY <1>3, <1>9, OpenPlaces
  <1>18. ListAt(t, m + 1, x.member, q, Ch)
    <2>1. x.member.params = <<>>
      BY <1>16
    <2>2. x.member = [items |-> x.member.items, params |-> x.member.params]
      BY <1>16, <2>1
    <2>3. ItemsAt(t, (m + 1) + 1, x.member.items, e, Ch) /\ ParamsAt(t, skipSP(t, e) + 1, x.member.params, q, Ch)
      BY <1>10, <1>13, <1>15, <2>1 DEF xs
    <2> QED
      BY <1>16, <1>17, <2>2, <2>3 DEF ListAt
  <1>19. MarkedAt(t, p, x, q, Ch)
    BY <1>16, <1>18 DEF MarkedAt, MemberAt
  <1>20. ClosedAt(t, p, x, FALSE, Ch)
    BY <1>16, <1>19 DEF ClosedAt, q
  <1> QED
    BY <1>3, <1>9, <1>20

-----------------------------------------------------------------------------
(* A parameter more.                                                       *)

KeyVal(key, v) == [key |-> key, val |-> v]

\* The text of a parameter after s; a parameter alone has no text w.
ParamText(s, key, w) == s \o <<Semicolon>> \o key \o (IF w = <<>> THEN <<>> ELSE <<"=">>) \o w

ParamSpelt(w, v, Ch) == (w = <<>> /\ v = BareTrue) \/ Spelt(w, v, Ch)

LEMMA ParamLies ==
    ASSUME NEW Ch, Full(Ch), NEW s, Text(s, Ch), NEW key, IsToken(key), NEW w, NEW v, ParamSpelt(w, v, Ch)
    PROVE  LET t == ParamText(s, key, w)
           IN  /\ Text(t, Ch) /\ Part(s, t, 0, {Semicolon})
               /\ ParamAt(t, Len(s) + 1, KeyVal(key, v), Len(t) + 1, Ch)
  <1> DEFINE semicolon == <<Semicolon>>
             equals == IF w = <<>> THEN <<>> ELSE <<"=">>
             t == s \o semicolon \o key \o equals \o w
             q == Len(t) + 1
  <1>1. semicolon \in Seq(Ch) /\ key \in Seq(Ch) /\ equals \in Seq(Ch)
    BY SyntaxHas, KeyTyped DEF Full
  <1>2. w \in Seq(Ch)
    <2>1. CASE w = <<>>
      BY <2>1
    <2>2. CASE Spelt(w, v, Ch)
      BY <2>2, SpeltTyped
    <2> QED
      BY <2>1, <2>2 DEF ParamSpelt
  <1>3. (w = <<>> => equals = <<>>) /\ (w # <<>> => equals = <<"=">>)
    OBVIOUS
  <1> HIDE DEF semicolon, equals
  <1> DEFINE a == s \o semicolon
             b == a \o key
             c == b \o equals
  <1>4. s \in Seq(Ch) /\ a \in Seq(Ch)
    BY <1>1 DEF Text
  <1> HIDE DEF a
  <1>5. b \in Seq(Ch)
    BY <1>1, <1>4
  <1> HIDE DEF b
  <1>6. c \in Seq(Ch)
    BY <1>1, <1>5
  <1> HIDE DEF c
  <1>7. t = c \o w
    BY DEF a, b, c
  <1> HIDE DEF t
  <1>8. Text(t, Ch)
    BY <1>2, <1>6, <1>7 DEF Text
  <1>9. Lies(t, 1, t, q)
    BY <1>8, LiesWhole
  <1>10. PICK l : Lies(t, 1, c, l) /\ Lies(t, l, w, q)
    BY <1>2, <1>6, <1>7, <1>8, <1>9, LiesParts
  <1>11. PICK k : Lies(t, 1, b, k) /\ Lies(t, k, equals, l)
    BY <1>1, <1>5, <1>8, <1>10, LiesParts DEF c
  <1>12. PICK j : Lies(t, 1, a, j) /\ Lies(t, j, key, k)
    BY <1>1, <1>4, <1>8, <1>11, LiesParts DEF b
  <1>13. PICK i : Lies(t, 1, s, i) /\ Lies(t, i, semicolon, j)
    BY <1>1, <1>4, <1>8, <1>12, LiesParts DEF a
  <1>14. peek(t, i) = Semicolon /\ j = i + 1 /\ i \in Offsets(t)
    BY <1>8, <1>13, MarkLies DEF semicolon
  <1>15. i = Len(s) + 1 /\ Part(s, t, 0, {Semicolon})
    BY <1>4, <1>8, <1>13, <1>14, PartLies
  <1> DEFINE x == KeyVal(key, v)
  <1>16. x.key = key /\ x.val = v /\ x = [key |-> x.key, val |-> x.val]
    BY DEF KeyVal
  <1> HIDE DEF x
  <1>17. CASE w = <<>>
    <2>1. equals = <<>> /\ v = BareTrue
      BY <1>3, <1>17, SpeltTyped DEF ParamSpelt
    <2>2. k = q
      <3>1. Len(w) = 0 /\ Len(equals) = 0 /\ k \in Nat /\ l \in Nat
        BY <1>10, <1>11, <1>17, <2>1 DEF Lies, Holds
      <3>2. l = k + Len(equals) /\ q = l + Len(w)
        BY <1>10, <1>11 DEF Lies
      <3> QED
        BY ONLY <3>1, <3>2
    <2>3. peek(t, q) \notin isTokenChar /\ peek(t, q) # "="
      BY <1>8, EndOf, ClassesEnd
    <2>4. KeyAt(t, j, key, q)
      BY <1>8, <1>12, <2>2, <2>3, KeyLies
    <2> HIDE DEF q
    <2>5. ParamAt(t, i, x, q, Ch)
      BY <1>14, <1>16, <2>1, <2>3, <2>4 DEF ParamAt
    <2> QED
      BY <1>8, <1>15, <2>5 DEF x, t, q, ParamText, semicolon, equals
  <1>18. CASE w # <<>>
    <2>1. equals = <<"=">> /\ Spelt(w, v, Ch)
      BY <1>3, <1>18 DEF ParamSpelt
    <2>2. peek(t, k) = "=" /\ l = k + 1
      BY <1>8, <1>11, <2>1, MarkLies
    <2>3. MayFollow(v, peek(t, q))
      BY <1>8, EndOf, ClassesEnd DEF MayFollow
    <2>4. BareAt(t, l, v, q, Ch)
      BY <1>8, <1>10, <2>1, <2>3, BareLies
    <2>5. KeyAt(t, j, key, k)
      <3>1. peek(t, k) \notin isTokenChar
        BY <2>2, TokenClasses DEF Ends
      <3> QED
        BY <1>8, <1>12, <3>1, KeyLies
    <2> HIDE DEF q
    <2>6. ParamAt(t, i, x, q, Ch)
      BY <1>14, <1>16, <2>2, <2>4, <2>5 DEF ParamAt
    <2> QED
      BY <1>8, <1>15, <2>6 DEF x, t, q, ParamText, semicolon, equals
  <1> QED
    BY <1>17, <1>18

\* A parameter of a member that is closed.
LEMMA MemberParam ==
    ASSUME NEW Ch, NEW s, Text(s, Ch), NEW t, Text(t, Ch), Part(s, t, 0, {Semicolon}),
           NEW front, NEW p, Begun(s, front, p, Ch), NEW x, ClosedAt(s, p, x, FALSE, Ch),
           NEW y, ParamAt(t, Len(s) + 1, y, Len(t) + 1, Ch)
    PROVE  Begun(t, front, p, Ch) /\ ClosedAt(t, p, KeyWith(x.key, WithParam(x.member, y)), FALSE, Ch)
  <1> DEFINE F == {Semicolon}
             z == KeyWith(x.key, WithParam(x.member, y))
  <1>1. MarkedAt(s, p, x, Len(s) + 1, Ch)
    BY DEF ClosedAt
  <1>2. p <= Len(s)
    BY <1>1, MarkedPlaces
  <1>3. Part(s, t, 0, F)
    OBVIOUS
  <1>4. Tells(s, Len(s) + 1, F, AfterParam)
    BY Apart, ClassesEnd DEF Tells
  <1> HIDE DEF F
  <1>5. Begun(t, front, p, Ch)
    BY <1>2, <1>3, BegunGoes
  <1>6. z.key = x.key /\ z.member = WithParam(x.member, y) /\ z = KeyWith(z.key, z.member)
    BY DEF KeyWith
  <1> HIDE DEF z
  <1>7. peek(t, Len(t) + 1) # Semicolon
    BY EndOf
  <1>8. MarkedAt(t, p, z, Len(t) + 1, Ch)
    BY <1>1, <1>3, <1>4, <1>6, <1>7, MarkedMore
  <1>9. ClosedAt(t, p, z, FALSE, Ch)
    BY <1>6, <1>8 DEF ClosedAt
  <1> QED
    BY <1>5, <1>9 DEF z

\* The last item of an inner list with a parameter more.
WithItemParam(m, x) == [m EXCEPT !.items = [m.items EXCEPT ![Len(m.items)] = WithParam(m.items[Len(m.items)], x)]]

\* A parameter of the last item of an inner list that is open.
LEMMA ItemParam ==
    ASSUME NEW Ch, NEW s, Text(s, Ch), NEW t, Text(t, Ch), Part(s, t, 0, {Semicolon}),
           NEW front, NEW p, Begun(s, front, p, Ch), NEW x, OpenAt(s, p, x, Ch), x.member.items # <<>>,
           NEW y, ParamAt(t, Len(s) + 1, y, Len(t) + 1, Ch)
    PROVE  Begun(t, front, p, Ch) /\ OpenAt(t, p, KeyWith(x.key, WithItemParam(x.member, y)), Ch)
  <1> DEFINE F == {Semicolon}
             xs == x.member.items
  <1>1. PICK m : OpenFrom(s, p, x, m) /\ SomeItems(s, (m + 1) + 1, xs, Ch)
    BY DEF OpenAt
  <1>2. p <= Len(s)
    BY <1>1, OpenPlaces
  <1>3. Part(s, t, 0, F) /\ F \cap AfterParam = {}
    BY Apart
  <1> HIDE DEF F
  <1>4. Begun(t, front, p, Ch) /\ OpenFrom(t, p, x, m)
    BY <1>1, <1>2, <1>3, BegunGoes, OpenGoes
  <1> DEFINE i == (m + 1) + 1
  <1>5. SomeItems(s, i, xs, Ch) /\ xs # <<>>
    BY <1>1
  <1> HIDE DEF xs, i
  <1>6. PICK ys, z : /\ xs = Append(ys, z) /\ Tuple(ys)
                     /\ SomeItems(t, i, Append(ys, WithParam(z, y)), Ch)
    BY <1>3, <1>5, ItemsWithParam
  <1>7. [xs EXCEPT ![Len(xs)] = WithParam(xs[Len(xs)], y)] = Append(ys, WithParam(z, y))
    <2>1. xs[Len(xs)] = z
      BY <1>6, Appended
    <2> QED
      BY <1>6, <2>1, LastReplaced
  <1> DEFINE zs == Append(ys, WithParam(z, y))
             u == KeyWith(x.key, WithItemParam(x.member, y))
  <1> HIDE DEF zs
  <1>8. u = [key |-> x.key, member |-> [items |-> zs, params |-> <<>>]]
    <2>1. x.member = [items |-> xs, params |-> <<>>]
      BY <1>1 DEF OpenFrom, xs
    <2>2. WithItemParam(x.member, y) = [x.member EXCEPT !.items = zs]
      BY <1>7 DEF WithItemParam, xs, zs
    <2>3. [[items |-> xs, params |-> <<>>] EXCEPT !.items = zs] = [items |-> zs, params |-> <<>>]
      OBVIOUS
    <2> QED
      BY <2>1, <2>2, <2>3 DEF KeyWith
  <1> HIDE DEF u
  <1>9. /\ u = KeyWith(u.key, u.member) /\ u.key = x.key /\ u.member.items = zs
        /\ u.member = [items |-> u.member.items, params |-> <<>>]
    BY ONLY <1>8 DEF KeyWith
  <1>10. OpenFrom(t, p, u, m)
    BY <1>4, <1>9 DEF OpenFrom
  <1>11. OpenAt(t, p, u, Ch)
    BY <1>6, <1>9, <1>10 DEF OpenAt, zs, i
  <1> QED
    BY <1>4, <1>11 DEF u

-----------------------------------------------------------------------------
(* The steps of the peer.                                                  *)

LEMMA MemberReplaced ==
    ASSUME NEW k, NEW m, NEW y
    PROVE  [KeyWith(k, m) EXCEPT !.member = y] = KeyWith(k, y)
  <1> DEFINE r == KeyWith(k, m)
             e == [r EXCEPT !.member = y]
             f == KeyWith(k, y)
  <1>1. r.key = k /\ DOMAIN r = {"key", "member"}
    BY DEF KeyWith
  <1>2. DOMAIN f = {"key", "member"} /\ f.key = k /\ f.member = y /\ f = [i \in {"key", "member"} |-> f[i]]
    BY DEF KeyWith
  <1> HIDE DEF r
  <1>3. e = [i \in DOMAIN r |-> IF i = "member" THEN y ELSE r[i]]
    OBVIOUS
  <1>4. DOMAIN e = {"key", "member"} /\ e.member = y /\ e.key = k /\ e = [i \in {"key", "member"} |-> e[i]]
    BY <1>1, <1>3
  <1> HIDE DEF e, f
  <1>5. e = f
    BY <1>2, <1>4
  <1> QED
    BY <1>5 DEF e, f, r

\* Members with a change in the one at n.
MoreItems(ms, n, y)         == [ms EXCEPT ![n].member.items = Append(@, y)]
MoreParams(ms, n, y)        == [ms EXCEPT ![n].member.params = Append(@, y)]
MoreItemParams(ms, n, l, y) == [ms EXCEPT ![n].member.items[l].params = Append(@, y)]
SetAt(ms, n, z)             == [ms EXCEPT ![n] = z]

EntryIs(ms, n, x) == ms[n] = x /\ x = KeyWith(x.key, x.member)

LEMMA ExceptItems ==
    ASSUME NEW ms, NEW n, NEW x, EntryIs(ms, n, x), NEW y
    PROVE  MoreItems(ms, n, y) = SetAt(ms, n, KeyWith(x.key, WithItem(x.member, y)))
  <1>0. ms[n] = x /\ x = KeyWith(x.key, x.member)
    BY DEF EntryIs
  <1>1. [x EXCEPT !.member.items = Append(@, y)] = [x EXCEPT !.member = WithItem(x.member, y)]
    BY DEF WithItem
  <1>2. [x EXCEPT !.member.items = Append(@, y)] = KeyWith(x.key, WithItem(x.member, y))
    BY <1>0, <1>1, MemberReplaced
  <1>3. [ms EXCEPT ![n].member.items = Append(@, y)] = [ms EXCEPT ![n] = [ms[n] EXCEPT !.member.items = Append(@, y)]]
    OBVIOUS
  <1> QED
    BY <1>0, <1>2, <1>3 DEF MoreItems, SetAt

LEMMA ExceptParams ==
    ASSUME NEW ms, NEW n, NEW x, EntryIs(ms, n, x), NEW y
    PROVE  MoreParams(ms, n, y) = SetAt(ms, n, KeyWith(x.key, WithParam(x.member, y)))
  <1>0. ms[n] = x /\ x = KeyWith(x.key, x.member)
    BY DEF EntryIs
  <1>1. [x EXCEPT !.member.params = Append(@, y)] = [x EXCEPT !.member = WithParam(x.member, y)]
    BY DEF WithParam
  <1>2. [x EXCEPT !.member.params = Append(@, y)] = KeyWith(x.key, WithParam(x.member, y))
    BY <1>0, <1>1, MemberReplaced
  <1>3. [ms EXCEPT ![n].member.params = Append(@, y)] = [ms EXCEPT ![n] = [ms[n] EXCEPT !.member.params = Append(@, y)]]
    OBVIOUS
  <1> QED
    BY <1>0, <1>2, <1>3 DEF MoreParams, SetAt

LEMMA ExceptItemParams ==
    ASSUME NEW ms, NEW n, NEW x, EntryIs(ms, n, x), NEW y
    PROVE  MoreItemParams(ms, n, Len(x.member.items), y) = SetAt(ms, n, KeyWith(x.key, WithItemParam(x.member, y)))
  <1>0. ms[n] = x /\ x = KeyWith(x.key, x.member)
    BY DEF EntryIs
  <1> DEFINE m == x.member
             l == Len(m.items)
             z == m.items[l]
  <1>1. [x EXCEPT !.member.items[l].params = Append(@, y)]
          = [x EXCEPT !.member = [m EXCEPT !.items = [m.items EXCEPT ![l] = [z EXCEPT !.params = Append(@, y)]]]]
    OBVIOUS
  <1>2. [x EXCEPT !.member.items[l].params = Append(@, y)] = [x EXCEPT !.member = WithItemParam(m, y)]
    BY <1>1 DEF WithItemParam, WithParam
  <1>3. [x EXCEPT !.member.items[l].params = Append(@, y)] = KeyWith(x.key, WithItemParam(m, y))
    BY <1>0, <1>2, MemberReplaced
  <1>4. [ms EXCEPT ![n].member.items[l].params = Append(@, y)]
          = [ms EXCEPT ![n] = [ms[n] EXCEPT !.member.items[l].params = Append(@, y)]]
    OBVIOUS
  <1> QED
    BY <1>0, <1>3, <1>4 DEF MoreItemParams, SetAt

-----------------------------------------------------------------------------
(* What is written is what the members are, unless some key alone is        *)
(* followed by a blank or by parameters.                                   *)

PeerInv ==
    /\ vocabulary \in Vocabularies
    /\ open \in BOOLEAN /\ flag \in BOOLEAN /\ oddFlag \in BOOLEAN
    /\ ~oddFlag => Text(written, PeerChars) /\ Composed(members, written, open, flag, PeerChars)

LEMMA PeerVocabulary ==
    ASSUME vocabulary \in Vocabularies
    PROVE  /\ \A key \in PeerKeys : IsToken(key)
           /\ \A b \in Spellings : b \in PeerSpellings /\ Spelt(b.text, b.val, PeerChars)
  <1>1. \A b \in Spellings : b \in PeerSpellings
    BY DEF Spellings, PeerSpellings
  <1> QED
    BY <1>1, SpellingsAreSpelt, PeerAssumption DEF PeerKeys

LEMMA WriteFlagKeeps ==
    ASSUME PeerInv, WriteFlag
    PROVE  PeerInv'
  <1>1. /\ vocabulary' = vocabulary /\ open' = open /\ flag' = TRUE /\ ~open /\ open' \in BOOLEAN
        /\ vocabulary \in Vocabularies /\ flag \in BOOLEAN /\ oddFlag \in BOOLEAN
    BY DEF PeerInv, WriteFlag, Step, Member
  <1>2. PICK key \in PeerKeys : Member(key, Item(BareTrue), <<>>)
    BY DEF WriteFlag
  <1>3. PICK sep \in IF members = <<>> THEN {<<>>} ELSE Separators :
             /\ written' = written \o sep \o key \o <<>>
             /\ oddFlag' = (oddFlag \/ (flag /\ sep[1] \in Blank))
    BY <1>2 DEF Member
  <1>4. members' = Append(members, KeyWith(key, Flag))
    BY <1>2 DEF Member, KeyWith, Flag, Item
  <1>5. oddFlag' \in BOOLEAN
    BY <1>3
  <1>6. ASSUME ~oddFlag'
        PROVE  Text(written', PeerChars) /\ Composed(members', written', FALSE, TRUE, PeerChars)
    <2>1. Text(written, PeerChars) /\ Composed(members, written, FALSE, flag, PeerChars)
      BY <1>1, <1>3, <1>6 DEF PeerInv
    <2>2. SeparatedBy(members, flag, sep)
      BY <1>3, <1>6 DEF SeparatedBy
    <2>3. IsToken(key)
      BY <1>1, <1>2, PeerVocabulary
    <2> DEFINE after == <<>>
    <2>4. written' = written \o sep \o key \o after
      BY <1>3
    <2> HIDE DEF after
    <2>5. after = <<>>
      BY DEF after
    <2> QED
      BY <1>1, <1>4, <2>1, <2>2, <2>3, <2>4, <2>5, FlagWritten, PeerCharsFull
  <1>7. open' = FALSE
    BY <1>1
  <1> QED
    BY <1>1, <1>5, <1>6, <1>7 DEF PeerInv

LEMMA WriteItemKeeps ==
    ASSUME PeerInv, WriteItem
    PROVE  PeerInv'
  <1>1. /\ vocabulary' = vocabulary /\ open' = open /\ flag' = FALSE /\ ~open /\ open' \in BOOLEAN
        /\ vocabulary \in Vocabularies /\ flag \in BOOLEAN /\ oddFlag \in BOOLEAN
    BY DEF PeerInv, WriteItem, Step, Member
  <1>2. PICK key \in PeerKeys, b \in Spellings : Member(key, Item(b.val), <<"=">> \o b.text)
    BY DEF WriteItem
  <1>3. PICK sep \in IF members = <<>> THEN {<<>>} ELSE Separators :
             /\ written' = written \o sep \o key \o (<<"=">> \o b.text)
             /\ oddFlag' = (oddFlag \/ (flag /\ sep[1] \in Blank))
    BY <1>2 DEF Member
  <1>4. members' = Append(members, KeyWith(key, Item(b.val)))
    BY <1>2 DEF Member, KeyWith
  <1>5. oddFlag' \in BOOLEAN
    BY <1>3
  <1>6. ASSUME ~oddFlag'
        PROVE  Text(written', PeerChars) /\ Composed(members', written', FALSE, FALSE, PeerChars)
    <2>1. Text(written, PeerChars) /\ Composed(members, written, FALSE, flag, PeerChars)
      BY <1>1, <1>3, <1>6 DEF PeerInv
    <2>2. SeparatedBy(members, flag, sep)
      BY <1>3, <1>6 DEF SeparatedBy
    <2>3. IsToken(key) /\ Spelt(b.text, b.val, PeerChars)
      BY <1>1, <1>2, PeerVocabulary
    <2> QED
      BY <1>1, <1>3, <1>4, <2>1, <2>2, <2>3, ItemMemberWritten, PeerCharsFull
  <1>7. open' = FALSE
    BY <1>1
  <1> QED
    BY <1>1, <1>5, <1>6, <1>7 DEF PeerInv

LEMMA BlanksTyped ==
    /\ <<>> \in Seq({SP}) /\ <<SP>> \in Seq({SP})
    /\ \A n \in 1..2 : [k \in 1..n |-> SP] \in Seq({SP}) /\ [k \in 1..n |-> SP] # <<>>
  <1>1. <<>> \in Seq({SP}) /\ <<SP>> \in Seq({SP})
    OBVIOUS
  <1>2. ASSUME NEW n \in 1..2 PROVE [k \in 1..n |-> SP] \in Seq({SP}) /\ [k \in 1..n |-> SP] # <<>>
    <2> DEFINE f == [k \in 1..n |-> SP]
    <2>1. f \in Seq({SP}) /\ Len(f) = n
      OBVIOUS
    <2> QED
      BY <2>1
  <1> QED
    BY <1>1, <1>2

LEMMA OpenListKeeps ==
    ASSUME PeerInv, OpenList
    PROVE  PeerInv'
  <1>1. /\ vocabulary' = vocabulary /\ open' = TRUE /\ flag' = FALSE /\ ~open
        /\ vocabulary \in Vocabularies /\ flag \in BOOLEAN /\ oddFlag \in BOOLEAN
    BY DEF PeerInv, OpenList, Step, Member
  <1>2. PICK key \in PeerKeys, blanks \in {<<>>, <<SP>>} :
             Member(key, [items |-> <<>>, params |-> <<>>], <<"=", "(">> \o blanks)
    BY DEF OpenList
  <1>3. PICK sep \in IF members = <<>> THEN {<<>>} ELSE Separators :
             /\ written' = written \o sep \o key \o (<<"=", "(">> \o blanks)
             /\ oddFlag' = (oddFlag \/ (flag /\ sep[1] \in Blank))
    BY <1>2 DEF Member
  <1>4. members' = Append(members, KeyWith(key, EmptyList))
    BY <1>2 DEF Member, KeyWith, EmptyList
  <1>5. oddFlag' \in BOOLEAN
    BY <1>3
  <1>6. ASSUME ~oddFlag'
        PROVE  Text(written', PeerChars) /\ Composed(members', written', TRUE, FALSE, PeerChars)
    <2>1. Text(written, PeerChars) /\ Composed(members, written, FALSE, flag, PeerChars)
      BY <1>1, <1>3, <1>6 DEF PeerInv
    <2>2. SeparatedBy(members, flag, sep)
      BY <1>3, <1>6 DEF SeparatedBy
    <2>3. IsToken(key) /\ blanks \in Seq({SP})
      BY <1>1, <1>2, PeerVocabulary, BlanksTyped
    <2> QED
      BY <1>1, <1>3, <1>4, <2>1, <2>2, <2>3, ListOpened, PeerCharsFull
  <1> QED
    BY <1>1, <1>5, <1>6 DEF PeerInv

\* The last member and those before it.
LEMMA LastMember ==
    ASSUME PeerInv, ~oddFlag, members # <<>>
    PROVE  \E front, x, p : /\ members = Append(front, x) /\ Tuple(front) /\ members[Len(members)] = x
                            /\ x = KeyWith(x.key, x.member) /\ Begun(written, front, p, PeerChars)
                            /\ open => ~flag /\ OpenAt(written, p, x, PeerChars)
                            /\ ~open => ClosedAt(written, p, x, flag, PeerChars)
  <1>1. PICK front, x, p : /\ members = Append(front, x) /\ Tuple(front) /\ Begun(written, front, p, PeerChars)
                           /\ open => ~flag /\ OpenAt(written, p, x, PeerChars)
                           /\ ~open => ClosedAt(written, p, x, flag, PeerChars)
    BY DEF PeerInv, Composed
  <1>2. members[Len(members)] = x
    BY <1>1, Appended
  <1>3. x = KeyWith(x.key, x.member)
    BY <1>1 DEF PeerInv, OpenAt, OpenFrom, ClosedAt
  <1> QED
    BY <1>1, <1>2, <1>3

LEMMA OpenHasMembers ==
    ASSUME PeerInv, ~oddFlag, open
    PROVE  members # <<>>
  <1>1. ASSUME NEW front, NEW x, members = Append(front, x), Tuple(front) PROVE members # <<>>
    BY <1>1, Appended
  <1> QED
    BY <1>1 DEF PeerInv, Composed

LEMMA AddToListKeeps ==
    ASSUME PeerInv, AddToList
    PROVE  PeerInv'
  <1>1. /\ vocabulary' = vocabulary /\ open' = open /\ flag' = flag /\ oddFlag' = oddFlag /\ open = TRUE
        /\ vocabulary \in Vocabularies /\ flag \in BOOLEAN /\ oddFlag \in BOOLEAN
    BY DEF PeerInv, AddToList, Step
  <1>2. ASSUME ~oddFlag
        PROVE  Text(written', PeerChars) /\ Composed(members', written', TRUE, FALSE, PeerChars) /\ flag = FALSE
    <2>1. PICK front, x, p : /\ members = Append(front, x) /\ Tuple(front) /\ members[Len(members)] = x
                             /\ x = KeyWith(x.key, x.member) /\ Begun(written, front, p, PeerChars)
                             /\ open => ~flag /\ OpenAt(written, p, x, PeerChars)
                             /\ ~open => ClosedAt(written, p, x, flag, PeerChars)
      BY <1>1, <1>2, OpenHasMembers, LastMember
    <2>2. PICK b \in Spellings, l \in 1..2 :
               /\ members' = [members EXCEPT ![Len(members)].member.items = Append(@, Item(b.val))]
               /\ written' = written \o (IF Current.items = <<>> THEN <<>> ELSE [k \in 1..l |-> SP]) \o b.text
      BY DEF AddToList
    <2> DEFINE blanks == IF Current.items = <<>> THEN <<>> ELSE [k \in 1..l |-> SP]
               y == Item(b.val)
               z == KeyWith(x.key, WithItem(x.member, y))
    <2>3. blanks \in Seq({SP}) /\ (x.member.items # <<>> => blanks # <<>>)
      BY <2>1, BlanksTyped DEF Current
    <2>4. written' = written \o blanks \o b.text
      BY <2>2
    <2> HIDE DEF blanks
    <2>5. members' = [members EXCEPT ![Len(members)] = z]
      <3> DEFINE n == Len(members)
      <3>0. EntryIs(members, n, x)
        BY <2>1 DEF EntryIs
      <3>1. members' = [members EXCEPT ![n].member.items = Append(@, y)]
        BY <2>1, <2>2
      <3> HIDE DEF n
      <3>2. MoreItems(members, n, y) = SetAt(members, n, z)
        BY ONLY <3>0, ExceptItems
      <3>3. members' = MoreItems(members, n, y)
        BY <3>1 DEF MoreItems
      <3> QED
        BY <3>2, <3>3 DEF SetAt, n
    <2>6. Spelt(b.text, b.val, PeerChars)
      BY <1>1, PeerVocabulary
    <2>7. Text(written, PeerChars) /\ OpenAt(written, p, x, PeerChars) /\ ~flag
      BY <1>1, <1>2, <2>1 DEF PeerInv
    <2>8. /\ Text(written', PeerChars) /\ Begun(written', front, p, PeerChars)
          /\ OpenAt(written', p, KeyWith(x.key, WithItem(x.member, Item(b.val))), PeerChars)
      BY <2>1, <2>3, <2>4, <2>6, <2>7, ItemAdded, PeerCharsFull
    <2>9. Text(written', PeerChars) /\ Begun(written', front, p, PeerChars) /\ OpenAt(written', p, z, PeerChars)
      BY <2>8
    <2> HIDE DEF z
    <2>10. Composed([members EXCEPT ![Len(members)] = z], written', TRUE, FALSE, PeerChars)
      BY <2>1, <2>9, Replaced
    <2> QED
      BY <1>1, <2>5, <2>7, <2>9, <2>10
  <1> QED
    BY <1>1, <1>2 DEF PeerInv

LEMMA CloseListKeeps ==
    ASSUME PeerInv, CloseList
    PROVE  PeerInv'
  <1>1. /\ vocabulary' = vocabulary /\ open' = FALSE /\ flag' = flag /\ oddFlag' = oddFlag /\ open = TRUE
        /\ members' = members
        /\ vocabulary \in Vocabularies /\ flag \in BOOLEAN /\ oddFlag \in BOOLEAN
    BY DEF PeerInv, CloseList, Step
  <1>2. ASSUME ~oddFlag
        PROVE  Text(written', PeerChars) /\ Composed(members', written', FALSE, FALSE, PeerChars) /\ flag = FALSE
    <2>1. PICK front, x, p : /\ members = Append(front, x) /\ Tuple(front) /\ members[Len(members)] = x
                             /\ x = KeyWith(x.key, x.member) /\ Begun(written, front, p, PeerChars)
                             /\ open => ~flag /\ OpenAt(written, p, x, PeerChars)
                             /\ ~open => ClosedAt(written, p, x, flag, PeerChars)
      BY <1>1, <1>2, OpenHasMembers, LastMember
    <2>2. PICK blanks \in {<<>>, <<SP>>} : written' = written \o blanks \o <<")">>
      BY DEF CloseList
    <2>3. blanks \in Seq({SP})
      BY <2>2, BlanksTyped
    <2>4. Text(written, PeerChars) /\ OpenAt(written, p, x, PeerChars) /\ ~flag
      BY <1>1, <1>2, <2>1 DEF PeerInv
    <2>5. Text(written', PeerChars) /\ Begun(written', front, p, PeerChars) /\ ClosedAt(written', p, x, FALSE, PeerChars)
      BY <2>1, <2>2, <2>3, <2>4, ListClosed, PeerCharsFull
    <2>6. Composed(members, written', FALSE, FALSE, PeerChars)
      BY <2>1, <2>5 DEF Composed
    <2> QED
      BY <1>1, <2>4, <2>5, <2>6
  <1> QED
    BY <1>1, <1>2 DEF PeerInv

LEMMA AddParameterKeeps ==
    ASSUME PeerInv, AddParameter
    PROVE  PeerInv'
  <1>1. /\ vocabulary' = vocabulary /\ open' = open /\ flag' = flag /\ oddFlag' = (oddFlag \/ flag)
        /\ members # <<>> /\ (open => Current.items # <<>>)
        /\ vocabulary \in Vocabularies /\ flag \in BOOLEAN /\ oddFlag \in BOOLEAN /\ open \in BOOLEAN
    BY DEF PeerInv, AddParameter, Step
  <1>2. oddFlag' \in BOOLEAN
    BY <1>1
  <1>3. ASSUME ~oddFlag'
        PROVE  Text(written', PeerChars) /\ Composed(members', written', open, FALSE, PeerChars) /\ flag = FALSE
    <2>1. PICK front, x, p : /\ members = Append(front, x) /\ Tuple(front) /\ members[Len(members)] = x
                             /\ x = KeyWith(x.key, x.member) /\ Begun(written, front, p, PeerChars)
                             /\ open => ~flag /\ OpenAt(written, p, x, PeerChars)
                             /\ ~open => ClosedAt(written, p, x, flag, PeerChars)
      BY <1>1, <1>3, LastMember
    <2>2. PICK key \in PeerKeys, b \in Spellings \cup {[text |-> <<>>, val |-> BareTrue]} :
               LET y == [key |-> key, val |-> b.val]
               IN  /\ members' = IF open
                                 THEN [members EXCEPT ![Len(members)].member.items[Len(Current.items)].params
                                         = Append(@, y)]
                                 ELSE [members EXCEPT ![Len(members)].member.params = Append(@, y)]
                   /\ written' = written \o <<Semicolon>> \o key
                                   \o (IF b.text = <<>> THEN <<>> ELSE <<"=">>) \o b.text
      BY DEF AddParameter
    <2> DEFINE y == KeyVal(key, b.val)
               t == written'
    <2>3. t = ParamText(written, key, b.text)
      BY <2>2 DEF ParamText
    <2>4. /\ open => members' = [members EXCEPT ![Len(members)].member.items[Len(x.member.items)].params = Append(@, y)]
          /\ ~open => members' = [members EXCEPT ![Len(members)].member.params = Append(@, y)]
      BY <2>1, <2>2 DEF KeyVal, Current
    <2>5. IsToken(key) /\ ParamSpelt(b.text, b.val, PeerChars)
      <3>1. CASE b \in Spellings
        BY <1>1, <2>2, <3>1, PeerVocabulary DEF ParamSpelt
      <3>2. CASE b = [text |-> <<>>, val |-> BareTrue]
        BY <1>1, <2>2, <3>2, PeerVocabulary DEF ParamSpelt
      <3> QED
        BY <2>2, <3>1, <3>2
    <2>6. Text(written, PeerChars) /\ flag = FALSE
      BY <1>1, <1>3 DEF PeerInv
    <2>7. Text(t, PeerChars) /\ Part(written, t, 0, {Semicolon}) /\ ParamAt(t, Len(written) + 1, y, Len(t) + 1, PeerChars)
      BY <2>3, <2>5, <2>6, ParamLies, PeerCharsFull
    <2> HIDE DEF y
    <2>8. CASE open
      <3> DEFINE z == KeyWith(x.key, WithItemParam(x.member, y))
      <3>1. members' = [members EXCEPT ![Len(members)] = z]
        <4> DEFINE n == Len(members)
        <4>0. EntryIs(members, n, x)
          BY <2>1 DEF EntryIs
        <4>1. members' = [members EXCEPT ![n].member.items[Len(x.member.items)].params = Append(@, y)]
          BY <2>1, <2>4, <2>8
        <4> HIDE DEF n
        <4>2. MoreItemParams(members, n, Len(x.member.items), y) = SetAt(members, n, z)
          BY ONLY <4>0, ExceptItemParams
        <4>3. members' = MoreItemParams(members, n, Len(x.member.items), y)
          BY <4>1 DEF MoreItemParams
        <4> QED
          BY <4>2, <4>3 DEF SetAt, n
      <3>2. OpenAt(written, p, x, PeerChars) /\ x.member.items # <<>>
        BY <1>1, <2>1, <2>8 DEF Current
      <3>3. Begun(t, front, p, PeerChars) /\ OpenAt(t, p, z, PeerChars)
        BY <2>1, <2>6, <2>7, <3>2, ItemParam
      <3> HIDE DEF z
      <3>4. Composed([members EXCEPT ![Len(members)] = z], t, TRUE, FALSE, PeerChars)
        BY <2>1, <3>3, Replaced
      <3> QED
        BY <1>1, <2>6, <2>7, <2>8, <3>1, <3>4
    <2>9. CASE ~open
      <3> DEFINE z == KeyWith(x.key, WithParam(x.member, y))
      <3>1. members' = [members EXCEPT ![Len(members)] = z]
        <4> DEFINE n == Len(members)
        <4>0. EntryIs(members, n, x)
          BY <2>1 DEF EntryIs
        <4>1. members' = [members EXCEPT ![n].member.params = Append(@, y)]
          BY <2>1, <2>4, <2>9
        <4> HIDE DEF n
        <4>2. MoreParams(members, n, y) = SetAt(members, n, z)
          BY ONLY <4>0, ExceptParams
        <4>3. members' = MoreParams(members, n, y)
          BY <4>1 DEF MoreParams
        <4> QED
          BY <4>2, <4>3 DEF SetAt, n
      <3>2. ClosedAt(written, p, x, FALSE, PeerChars)
        BY <2>1, <2>6, <2>9
      <3>3. Begun(t, front, p, PeerChars) /\ ClosedAt(t, p, z, FALSE, PeerChars)
        BY <2>1, <2>6, <2>7, <3>2, MemberParam
      <3> HIDE DEF z
      <3>4. Composed([members EXCEPT ![Len(members)] = z], t, FALSE, FALSE, PeerChars)
        BY <2>1, <3>3, Replaced
      <3> QED
        BY <1>1, <2>6, <2>7, <2>9, <3>1, <3>4
    <2> QED
      BY <2>8, <2>9
  <1> QED
    BY <1>1, <1>2, <1>3 DEF PeerInv

LEMMA PeerInvariant == PSpec => []PeerInv
  <1>1. PInit => PeerInv
    <2> SUFFICES ASSUME PInit PROVE PeerInv
      OBVIOUS
    <2>1. Text(written, PeerChars)
      BY PeerCharsFull DEF PInit, Text, Full
    <2> QED
      BY <2>1 DEF PInit, PeerInv, Composed
  <1>2. PeerInv /\ [PNext]_pvars => PeerInv'
    <2> SUFFICES ASSUME PeerInv, [PNext]_pvars PROVE PeerInv'
      OBVIOUS
    <2>1. CASE UNCHANGED pvars
      BY <2>1 DEF pvars, PeerInv
    <2> QED
      BY <2>1, WriteFlagKeeps, WriteItemKeeps, OpenListKeeps, AddToListKeeps, CloseListKeeps, AddParameterKeeps
         DEF PNext
  <1> QED
    BY <1>1, <1>2, PTL DEF PSpec

-----------------------------------------------------------------------------
(* What the members mean.                                                  *)

KeysOf(xs, n) == {xs[j].key : j \in 1..n}

\* The dictionary of entries has as many members as there are keys.
LEMMA KeysCount ==
    ASSUME NEW E, NEW xs \in Seq(E)
    PROVE  \A n \in 0..Len(xs) : Cardinality(KeysOf(xs, n)) = Len(Dictionaries(xs)[n])
  <1> DEFINE D == Dictionaries(xs)
             N == Len(xs)
             S == {n \in 0..N : IsFiniteSet(KeysOf(xs, n)) /\ Cardinality(KeysOf(xs, n)) = Len(D[n])}
  <1>1. N \in Nat
    OBVIOUS
  <1>2. 0 \in S
    <2>1. KeysOf(xs, 0) = {}
      BY DEF KeysOf
    <2>2. Len(D[0]) = 0
      BY NoEntries
    <2>3. IsFiniteSet(KeysOf(xs, 0)) /\ Cardinality(KeysOf(xs, 0)) = 0
      BY <2>1, FS_EmptySet
    <2> HIDE DEF D
    <2> QED
      BY <1>1, <2>2, <2>3
  <1>3. ASSUME NEW n \in 1..N, n - 1 \in S PROVE n \in S
    <2> DEFINE A == KeysOf(xs, n - 1)
               B == KeysOf(xs, n)
               x == xs[n].key
    <2>1. IsFiniteSet(A) /\ Cardinality(A) = Len(D[n - 1])
      BY <1>3
    <2>2. B = A \cup {x}
      <3>1. 1..n = 1..(n - 1) \cup {n}
        BY <1>1
      <3> QED
        BY <3>1 DEF KeysOf
    <2>3. x \in A <=> \E m \in 1..(n - 1) : xs[m].key = xs[n].key
      BY DEF KeysOf
    <2>4. /\ Len(D[n - 1]) \in Nat
          /\ (\E m \in 1..(n - 1) : xs[m].key = xs[n].key) => Len(D[n]) = Len(D[n - 1])
          /\ ~(\E m \in 1..(n - 1) : xs[m].key = xs[n].key) => Len(D[n]) = Len(D[n - 1]) + 1
      BY OneMore
    <2>5. IsFiniteSet(B) /\ Cardinality(B) = IF x \in A THEN Cardinality(A) ELSE Cardinality(A) + 1
      <3> HIDE DEF A, B, x
      <3> QED
        BY <2>1, <2>2, FS_AddElement
    <2> HIDE DEF A, D, x
    <2>6. Cardinality(B) = Len(D[n])
      BY <2>1, <2>3, <2>4, <2>5
    <2> QED
      BY <1>1, <2>5, <2>6
  <1>4. 0..N \subseteq S
    <2> HIDE DEF S, N
    <2> QED
      BY <1>1, <1>2, <1>3, StepByStep
  <1> QED
    BY <1>4

\* d has its keys in the order of the first of the n entries with them.
InOrder(d, xs, n) ==
    \A j \in 1..Len(d) : \A i \in 1..(j - 1) : \E m \in 1..n :
        xs[m].key = d[i].key /\ \A k \in 1..m : xs[k].key # d[j].key

LEMMA PutInOrder ==
    ASSUME NEW E, NEW xs \in Seq(E), NEW n \in 1..Len(xs), NEW d \in Seq(E), Merged(d, xs, n - 1),
           InOrder(d, xs, n - 1)
    PROVE  InOrder(put(d, xs[n]), xs, n)
  <1> DEFINE x == xs[n]
             e == put(d, x)
             l == Len(d)
  <1>1. x \in E /\ n \in Nat /\ l \in Nat /\ \A m \in 1..(n - 1) : m \in 1..n
    OBVIOUS
  <1>2. \A j \in 1..l : \A i \in 1..(j - 1) : \E m \in 1..n :
            xs[m].key = d[i].key /\ \A k \in 1..m : xs[k].key # d[j].key
    BY <1>1 DEF InOrder
  <1>3. \A j \in 1..l : \A i \in 1..(j - 1) : i \in 1..l
    BY <1>1
  <1>4. CASE \E i \in 1..l : d[i].key = x.key
    <2>1. Len(e) = l /\ \A i \in 1..l : e[i] = IF d[i].key = x.key THEN x ELSE d[i]
      <3> HIDE DEF x
      <3> QED
        BY ONLY <1>1, <1>4, d \in Seq(E), PutKnown
    <2>2. \A i \in 1..l : e[i].key = d[i].key
      BY <2>1
    <2> HIDE DEF e, x, l
    <2>3. \A j \in 1..l : \A i \in 1..(j - 1) : \E m \in 1..n :
              xs[m].key = e[i].key /\ \A k \in 1..m : xs[k].key # e[j].key
      <3> SUFFICES ASSUME NEW j \in 1..l, NEW i \in 1..(j - 1)
                   PROVE  \E m \in 1..n : xs[m].key = e[i].key /\ \A k \in 1..m : xs[k].key # e[j].key
        OBVIOUS
      <3>1. e[i].key = d[i].key /\ e[j].key = d[j].key
        BY <1>3, <2>2
      <3>2. PICK m \in 1..n : xs[m].key = d[i].key /\ \A k \in 1..m : xs[k].key # d[j].key
        BY <1>2
      <3> QED
        BY <3>1, <3>2
    <2>4. InOrder(e, xs, n)
      BY <2>1, <2>3 DEF InOrder
    <2> QED
      BY <2>4 DEF e, x
  <1>5. CASE \A i \in 1..l : d[i].key # x.key
    <2>1. Len(e) = l + 1 /\ e[l + 1] = x /\ \A i \in 1..l : e[i] = d[i]
      <3> HIDE DEF x
      <3> QED
        BY ONLY <1>1, <1>5, d \in Seq(E), PutNew
    <2>2. \A m \in 1..(n - 1) : xs[m].key # x.key
      BY <1>5 DEF Merged
    <2>3. ASSUME NEW i \in 1..l
          PROVE  \E m \in 1..n : xs[m].key = e[i].key /\ \A k \in 1..m : xs[k].key # e[l + 1].key
      <3>1. PICK m \in 1..(n - 1) : d[i] = xs[m]
        BY DEF Merged
      <3>2. m \in 1..n /\ \A k \in 1..m : k \in 1..(n - 1)
        BY <1>1
      <3> HIDE DEF e, x, l
      <3> QED
        BY <2>1, <2>2, <3>1, <3>2
    <2> HIDE DEF e, x, l
    <2>4. ASSUME NEW j \in 1..l, NEW i \in 1..(j - 1)
          PROVE  \E m \in 1..n : xs[m].key = e[i].key /\ \A k \in 1..m : xs[k].key # e[j].key
      <3>1. e[i] = d[i] /\ e[j] = d[j]
        BY <1>3, <2>1
      <3>2. PICK m \in 1..n : xs[m].key = d[i].key /\ \A k \in 1..m : xs[k].key # d[j].key
        BY <1>2
      <3> QED
        BY <3>1, <3>2
    <2>5. \A j \in 1..Len(e) : j \in 1..l \/ j = l + 1
      BY <1>1, <2>1
    <2>6. (l + 1) - 1 = l
      BY <1>1
    <2>7. \A j \in 1..Len(e) : \A i \in 1..(j - 1) : \E m \in 1..n :
              xs[m].key = e[i].key /\ \A k \in 1..m : xs[k].key # e[j].key
      <3> SUFFICES ASSUME NEW j \in 1..Len(e), NEW i \in 1..(j - 1)
                   PROVE  \E m \in 1..n : xs[m].key = e[i].key /\ \A k \in 1..m : xs[k].key # e[j].key
        OBVIOUS
      <3>1. CASE j \in 1..l
        BY <2>4, <3>1
      <3>2. CASE j = l + 1
        BY <2>3, <2>6, <3>2
      <3> QED
        BY <2>5, <3>1, <3>2
    <2>8. InOrder(e, xs, n)
      BY <2>7 DEF InOrder
    <2> QED
      BY <2>8 DEF e, x
  <1> QED
    BY <1>4, <1>5

LEMMA EntriesInOrder ==
    ASSUME NEW E, NEW xs \in Seq(E)
    PROVE  \A n \in 0..Len(xs) : InOrder(Dictionaries(xs)[n], xs, n)
  <1> DEFINE D == Dictionaries(xs)
             N == Len(xs)
             S == {n \in 0..N : InOrder(D[n], xs, n)}
  <1>1. /\ D[0] = <<>> /\ \A n \in 1..N : D[n] = put(D[n - 1], xs[n])
        /\ \A n \in 0..N : D[n] \in Seq(E) /\ Merged(D[n], xs, n)
    BY DictionarySteps, EntriesMerge
  <1>2. N \in Nat
    OBVIOUS
  <1> HIDE DEF D
  <1>3. 0 \in S
    <2>1. InOrder(<<>>, xs, 0)
      BY DEF InOrder
    <2> QED
      BY <1>1, <1>2, <2>1
  <1>4. ASSUME NEW n \in 1..N, n - 1 \in S PROVE n \in S
    <2>0. n - 1 \in 0..N
      BY <1>2
    <2>1. InOrder(D[n - 1], xs, n - 1) /\ Merged(D[n - 1], xs, n - 1) /\ D[n - 1] \in Seq(E) /\ n \in 1..Len(xs)
      BY <1>1, <1>4, <2>0
    <2>2. InOrder(put(D[n - 1], xs[n]), xs, n)
      BY <2>1, PutInOrder
    <2> QED
      BY <1>1, <2>2
  <1>5. 0..N \subseteq S
    <2> HIDE DEF S, N
    <2> QED
      BY <1>2, <1>3, <1>4, StepByStep
  <1> QED
    BY <1>5 DEF D

\* The entries of the text, when its members are closed.
LEMMA MembersAreEntries ==
    ASSUME PeerInv, ~open, ~oddFlag, members # <<>>
    PROVE  EntriesIn(written, members, Len(written) + 1, PeerChars) /\ Text(written, PeerChars)
  <1> DEFINE q == Len(written) + 1
  <1>1. PICK front, x, p : /\ members = Append(front, x) /\ Tuple(front) /\ members[Len(members)] = x
                           /\ x = KeyWith(x.key, x.member) /\ Begun(written, front, p, PeerChars)
                           /\ open => ~flag /\ OpenAt(written, p, x, PeerChars)
                           /\ ~open => ClosedAt(written, p, x, flag, PeerChars)
    BY LastMember
  <1>2. Text(written, PeerChars) /\ flag \in BOOLEAN /\ ClosedAt(written, p, x, flag, PeerChars)
    BY <1>1 DEF PeerInv
  <1>3. EntryAt(written, p, x, q, PeerChars)
    BY <1>2, ClosedIsEntry
  <1> HIDE DEF q
  <1>4. Run(written, 1, Append(front, x), q, PeerChars)
    BY <1>1, <1>2, <1>3, RunAppends
  <1>5. q \in Offsets(written) /\ peek(written, q) = "EOF"
    BY <1>2, EndOf DEF q
  <1>6. skipOWS(written, q) = q /\ peek(written, q) # Comma
    BY <1>2, <1>5, PastBlanks, Blanks, DelimitersDiffer
  <1>7. EntriesIn(written, Append(front, x), q, PeerChars)
    BY <1>2, <1>4, <1>6, RunOfEntries
  <1> QED
    BY <1>1, <1>2, <1>7 DEF q

LEMMA LimitsAreKept ==
    ASSUME NEW E, members \in Seq(E)
    PROVE  WithinLimits <=> EntriesWithin(written, members)
  <1> DEFINE N == Len(members)
             D == Dictionaries(members)
             limit == Limits.MaxDictionaryMembers
  <1>1. \A n \in 1..N : Cardinality({members[j].key : j \in 1..(n - 1)}) = Len(D[n - 1])
    <2>1. \A n \in 1..N : n - 1 \in 0..N
      OBVIOUS
    <2>2. \A n \in 0..N : Cardinality(KeysOf(members, n)) = Len(D[n])
      BY KeysCount
    <2> HIDE DEF D, N
    <2> QED
      BY <2>1, <2>2 DEF KeysOf
  <1> DEFINE C(n) == Cardinality({members[j].key : j \in 1..(n - 1)})
  <1>2. Room(members) <=> \A n \in 1..N : ~Exceeds(C(n) + 1, limit)
    <2>1. \A n \in 1..N : C(n) = Len(D[n - 1])
      BY <1>1
    <2> HIDE DEF C
    <2> QED
      BY <2>1 DEF Room
  <1>3. WithinLimits <=> /\ checkInputLength(written)
                         /\ \A n \in 1..N : ~Exceeds(C(n) + 1, limit)
                         /\ \A n \in 1..N : EntryWithin(members[n])
    <2> HIDE DEF C
    <2>1. WithinLimits <=> /\ checkInputLength(written)
                           /\ \A i \in 1..N : /\ ~Exceeds(C(i) + 1, limit)
                                              /\ EntryWithin(members[i])
      BY DEF WithinLimits, EntryWithin, KeyWithin, C
    <2> QED
      BY <2>1
  <1> HIDE DEF C
  <1> QED
    BY <1>2, <1>3 DEF EntriesWithin

LEMMA DictionaryMeans ==
    ASSUME NEW E, members \in Seq(E)
    PROVE  Means(Dictionaries(members)[Len(members)])
  <1> DEFINE n == Len(members)
             d == Dictionaries(members)[n]
  <1>1. n \in 0..Len(members)
    OBVIOUS
  <1>2. Merged(d, members, n) /\ InOrder(d, members, n)
    BY <1>1, EntriesMerge, EntriesInOrder
  <1> HIDE DEF d
  <1>3. Means(d)
    BY <1>2 DEF Means, Merged, InOrder
  <1> QED
    BY <1>3 DEF d

\* A dictionary of the grammar is read completely and as what it means if it keeps to
\* the limits, and refused if not.
THEOREM SpellingsAreRead == PSpec => []EverySpellingIsRead
  <1>1. ASSUME PeerInv PROVE EverySpellingIsRead
    <2> DEFINE read == ParseDictionary(written)
    <2> SUFFICES ASSUME ~open, ~oddFlag
                 PROVE  IF WithinLimits THEN read.ok /\ read.at = Len(written) + 1 /\ Means(read.val)
                        ELSE ~read.ok
      BY DEF EverySpellingIsRead
    <2>1. CASE members = <<>>
      <3>1. written = <<>>
        <4>1. ASSUME NEW front, NEW x, members = Append(front, x), Tuple(front) PROVE FALSE
          BY <2>1, <4>1, Appended
        <4> QED
          BY <1>1, <4>1 DEF PeerInv, Composed
      <3>2. WithinLimits <=> checkInputLength(written)
        BY <2>1 DEF WithinLimits
      <3>3. CASE checkInputLength(written)
        <4>1. read = Got(<<>>, 1)
          BY <3>1, <3>3, ParseDictionaryIs
        <4>2. Means(<<>>)
          BY <2>1 DEF Means
        <4>3. Len(written) + 1 = 1
          BY <3>1
        <4> HIDE DEF read
        <4> QED
          BY <3>2, <3>3, <4>1, <4>2, <4>3, Results
      <3>4. CASE ~checkInputLength(written)
        <4>1. read = Fail
          BY <3>4, ParseDictionaryIs
        <4> HIDE DEF read
        <4> QED
          BY <3>2, <3>4, <4>1, Results
      <3> QED
        BY <3>3, <3>4
    <2>2. CASE members # <<>>
      <3> DEFINE q == Len(written) + 1
                 d == Dictionaries(members)[Len(members)]
                 E == {members[k] : k \in 1..Len(members)}
      <3>1. EntriesIn(written, members, q, PeerChars) /\ Text(written, PeerChars)
        BY <1>1, <2>2, MembersAreEntries
      <3>2. members \in Seq(E)
        BY <3>1, RowBegins, Tuples
      <3> HIDE DEF E
      <3>3. (WithinLimits <=> EntriesWithin(written, members)) /\ Means(d)
        BY <3>2, LimitsAreKept, DictionaryMeans
      <3>4. /\ EntriesWithin(written, members) => read = Got(d, q)
            /\ ~EntriesWithin(written, members) => read = Fail
        BY <3>1, DictionaryIsRead
      <3> HIDE DEF d, q, read
      <3>5. CASE WithinLimits
        BY <3>3, <3>4, <3>5, Results DEF q
      <3>6. CASE ~WithinLimits
        BY <3>3, <3>4, <3>6, Results
      <3> QED
        BY <3>5, <3>6
    <2> QED
      BY <2>1, <2>2
  <1> QED
    BY <1>1, PeerInvariant, PTL
=============================================================================
