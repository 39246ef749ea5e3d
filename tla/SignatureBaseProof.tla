------------------------- MODULE SignatureBaseProof -------------------------
(***************************************************************************)
(* Lists of components stay well formed through serializer and parser, and *)
(* two equal signature bases name the same well-formed components with the *)
(* same values, and announce the same parameters.  A request gives its     *)
(* components the same values on both sides of a connection.  Of field     *)
(* lines: the scan of one without newlines, and the lines that are joined. *)
(***************************************************************************)
EXTENDS NetHTTP, SignatureInput, SequenceTheorems, FiniteSetTheorems, TLAPS

\* A set of positions has a last one.
LEMMA LastPosition ==
    ASSUME NEW n \in Nat, NEW S, S \subseteq 1..n, S # {}
    PROVE  \E i \in S : \A j \in S : j <= i
  <1> DEFINE U == 1..n
             T == {i..n : i \in S}
             R == StrictSubsetOrdering(U)
             F == FiniteSubsetsOf(U)
  <1>1. IsWellFoundedOn(R, F)
    BY FS_StrictSubsetOrderingWellFounded
  <1>2. ASSUME NEW i \in S PROVE i..n \in F
    <2>1. IsFiniteSet(i..n)
      BY FS_Interval
    <2> QED
      BY <2>1 DEF FiniteSubsetsOf
  <1>3. T \subseteq F /\ T # {}
    BY <1>2
  <1> HIDE DEF T, R, F
  <1>4. PICK x \in T : \A y \in T : ~(<<y, x>> \in R)
    BY ONLY <1>1, <1>3, WFMin, Zenon
  <1>5. PICK i \in S : x = i..n
    BY DEF T
  <1>6. ASSUME NEW j \in S, ~(j <= i) PROVE FALSE
    <2>1. j..n \in T
      BY DEF T
    <2>2. j..n \subseteq i..n /\ i \notin j..n /\ i \in i..n
      BY <1>6
    <2>3. <<j..n, i..n>> \in R
      BY <2>2 DEF R, StrictSubsetOrdering
    <2> QED
      BY <1>4, <1>5, <2>1, <2>3
  <1> QED
    BY <1>6

\* A set of positions has a first one.
LEMMA FirstPosition ==
    ASSUME NEW n \in Nat, NEW S, S \subseteq 1..n, S # {}
    PROVE  \E i \in S : \A j \in S : i <= j
  <1> DEFINE T == {n + 1 - i : i \in S}
  <1>1. T \subseteq 1..n /\ T # {}
    <2>1. \A i \in S : n + 1 - i \in 1..n
      OBVIOUS
    <2> QED
      BY <2>1
  <1> HIDE DEF T
  <1>2. PICK t \in T : \A u \in T : u <= t
    BY <1>1, LastPosition
  <1>3. PICK i \in S : t = n + 1 - i
    BY DEF T
  <1>4. ASSUME NEW j \in S PROVE i <= j
    <2>1. n + 1 - j \in T
      BY DEF T
    <2>2. n + 1 - j <= n + 1 - i
      BY <1>2, <1>3, <2>1
    <2> QED
      BY <2>2
  <1> QED
    BY <1>4

\* base.Build returns an error or a base.
LEMMA BuildResult ==
    ASSUME NEW m, NEW comps, NEW params, Build(m, comps, params).ok
    PROVE  Build(m, comps, params) = [ok |-> TRUE, base |-> Build(m, comps, params).base]
  BY DEF Build, BaseOf

\* The length of a sequence given by its entries.
LEMMA LenOf ==
    ASSUME NEW n \in Nat, NEW f, DOMAIN f = 1..n, f = [i \in 1..n |-> f[i]]
    PROVE  Len(f) = n
  <1>1. f \in Seq({f[i] : i \in 1..n})
    OBVIOUS
  <1>2. DOMAIN f = 1..Len(f) /\ Len(f) \in Nat
    BY <1>1, LenProperties
  <1> QED
    BY <1>2

\* What serializeSignatureInput writes of a well-formed list is well formed.
LEMMA WrittenWellFormed ==
    ASSUME NEW comps, WellFormedList(comps), NEW params,
           serializeSignatureInput(comps, params).ok
    PROVE  WellFormedInput(serializeSignatureInput(comps, params).member)
  <1> DEFINE n     == Len(comps)
             items == [i \in 1..n |-> [name |-> comps[i].name, params |-> comps[i].params]]
             back  == [i \in 1..Len(items) |-> ParsedComponent(items[i])]
  <1>1. serializeSignatureInput(comps, params).member.items = items
    BY DEF serializeSignatureInput
  <1>2. n \in Nat
    BY DEF WellFormedList
  <1>3. Len(items) = n
    BY <1>2, LenOf
  <1>4. \A i \in 1..n : ParsedComponent(items[i]) = ParsedComponent(comps[i])
    BY DEF ParsedComponent
  <1>5. \A i \in 1..n : ParsedComponent(comps[i]) = comps[i]
    BY DEF WellFormedList, WellFormed
  <1>6. back = [i \in 1..n |-> comps[i]]
    BY <1>3, <1>4, <1>5
  <1>7. back = comps
    BY <1>6 DEF WellFormedList
  <1> QED
    BY <1>1, <1>7 DEF WellFormedInput

\* Two well-formed components that are written alike are the same.
LEMMA IdentifierInjective ==
    ASSUME NEW c, NEW d, WellFormed(c), WellFormed(d),
           writeComponentIdentifier(c) = writeComponentIdentifier(d)
    PROVE  c = d
  <1> DEFINE W(x) == [i \in 1..Len(x.params) |->
                        [x.params[i] EXCEPT !.value = IF @ = NilItem THEN True ELSE @]]
  <1>1. c.name = d.name /\ W(c) = W(d)
    BY DEF writeComponentIdentifier
  <1>2. ASSUME NEW x, WellFormed(x) PROVE W(x) = x.params
    <2>1. /\ DOMAIN x.params = 1..Len(x.params)
          /\ \A j \in 1..Len(x.params) :
               /\ x.params[j] = [key |-> x.params[j].key, value |-> x.params[j].value]
               /\ x.params[j].value # NilItem
      BY <1>2 DEF WellFormed
    <2>2. x.params = [j \in 1..Len(x.params) |-> x.params[j]]
      BY <1>2 DEF WellFormed
    <2>3. \A j \in 1..Len(x.params) :
            [x.params[j] EXCEPT !.value = IF @ = NilItem THEN True ELSE @] = x.params[j]
      BY <2>1
    <2> QED
      BY <2>2, <2>3
  <1>3. c.params = d.params
    BY <1>1, <1>2
  <1> QED
    BY <1>1, <1>3 DEF WellFormed, ParsedComponent

\* What the parser returns for a well-formed member is a well-formed list.
LEMMA ParsedWellFormed ==
    ASSUME NEW dict, \A l \in DOMAIN dict : WellFormedInput(dict[l]),
           ParseSignatureInput(dict).ok,
           NEW l \in DOMAIN ParseSignatureInput(dict).signatures
    PROVE  WellFormedList(ParseSignatureInput(dict).signatures[l].comps)
  <1>1. /\ ParseSignatureInput(dict).signatures =
             [k \in DOMAIN dict |-> parseSignatureEntryFromInput(dict[k])]
        /\ \A k \in DOMAIN dict : parseSignatureEntryFromInput(dict[k]).ok
    BY DEF ParseSignatureInput
  <1>2. l \in DOMAIN dict /\ parseSignatureEntryFromInput(dict[l]).ok
    BY <1>1
  <1>3. parseSignatureEntryFromInput(dict[l]).comps =
          [i \in 1..Len(dict[l].items) |-> ParsedComponent(dict[l].items[i])]
    BY <1>2 DEF parseSignatureEntryFromInput
  <1> QED
    BY <1>1, <1>2, <1>3 DEF WellFormedInput

-----------------------------------------------------------------------------
(* The @signature-params line determines the parameters.                   *)

\* The elements of a list of parameters, by their keys.
ListOver(s, S, K) == s \in Seq(S) /\ \A i \in 1..Len(s) : s[i].key \in K

\* A list with one more parameter, if that is present.
With(s, k, v)   == s \o IfPresent(k, v)
Param(k, v, S)  == [key |-> k, value |-> v] \in S

\* One more parameter lengthens a list at most by its key.
LEMMA Lengthened ==
    ASSUME NEW S, NEW K, NEW s, ListOver(s, S, K), NEW k, NEW v,
           Param(k, v, S)
    PROVE  ListOver(With(s, k, v), S, K \cup {k})
  <1> DEFINE r == [key |-> k, value |-> v]
  <1>1. r.key = k
    OBVIOUS
  <1> HIDE DEF r
  <1>2. CASE v = Absent
    <2>1. With(s, k, v) = s
      BY <1>2 DEF With, IfPresent, ListOver
    <2> QED
      BY <2>1 DEF ListOver
  <1>3. CASE v # Absent
    <2>1. With(s, k, v) = s \o <<r>>
      BY <1>3 DEF With, IfPresent, r
    <2>2. r \in S
      BY DEF r, Param
    <2>3. /\ s \o <<r>> \in Seq(S)
          /\ \A i \in 1..Len(s \o <<r>>) : (s \o <<r>>)[i] = IF i <= Len(s) THEN s[i] ELSE r
          /\ Len(s \o <<r>>) = Len(s) + 1
      BY <2>2 DEF ListOver
    <2>4. \A i \in 1..Len(s \o <<r>>) : (s \o <<r>>)[i].key \in K \cup {k}
      <3>1. ASSUME NEW i \in 1..Len(s \o <<r>>) PROVE (s \o <<r>>)[i].key \in K \cup {k}
        <4>1. CASE i <= Len(s)
          BY <2>3, <4>1 DEF ListOver
        <4>2. CASE ~(i <= Len(s))
          BY <1>1, <2>3, <4>2
        <4> QED
          BY <4>1, <4>2
      <3> QED
        BY <3>1
    <2> QED
      BY <2>1, <2>3, <2>4 DEF ListOver
  <1> QED
    BY <1>2, <1>3

\* The last parameter can be told from a list that may or may not have it.
LEMMA LastParameter ==
    ASSUME NEW S, NEW K, NEW s, NEW t, ListOver(s, S, K), ListOver(t, S, K),
           NEW k, k \notin K, NEW v, NEW w,
           Param(k, v, S), Param(k, w, S), With(s, k, v) = With(t, k, w)
    PROVE  v = w /\ s = t
  <1> DEFINE r == [key |-> k, value |-> v]
             q == [key |-> k, value |-> w]
  <1>1. r.key = k /\ q.key = k /\ r.value = v /\ q.value = w
    OBVIOUS
  <1> HIDE DEF r, q
  <1>2. /\ IfPresent(k, v) = IF v = Absent THEN <<>> ELSE <<r>>
        /\ IfPresent(k, w) = IF w = Absent THEN <<>> ELSE <<q>>
        /\ r \in S /\ q \in S
        /\ s \o IfPresent(k, v) = t \o IfPresent(k, w)
    BY DEF IfPresent, With, Param, r, q
  <1>3. /\ s \in Seq(S) /\ t \in Seq(S)
        /\ \A i \in 1..Len(s) : s[i].key # k
        /\ \A i \in 1..Len(t) : t[i].key # k
    BY DEF ListOver
  <1>4. CASE v = Absent /\ w = Absent
    BY <1>2, <1>3, <1>4
  <1>5. CASE v = Absent /\ w # Absent
    <2>1. s = t \o <<q>>
      BY <1>2, <1>3, <1>5
    <2>2. Len(s) = Len(t) + 1 /\ s[Len(s)] = q
      BY <1>2, <1>3, <2>1
    <2> QED
      BY <1>1, <1>3, <2>2
  <1>6. CASE v # Absent /\ w = Absent
    <2>1. t = s \o <<r>>
      BY <1>2, <1>3, <1>6
    <2>2. Len(t) = Len(s) + 1 /\ t[Len(t)] = r
      BY <1>2, <1>3, <2>1
    <2> QED
      BY <1>1, <1>3, <2>2
  <1>7. CASE v # Absent /\ w # Absent
    <2>1. s \o <<r>> = t \o <<q>>
      BY <1>2, <1>7
    <2>2. Len(s) + 1 = Len(t) + 1
      BY <1>2, <1>3, <2>1
    <2>3. Len(s) = Len(t) /\ Len(s) \in Nat
      BY <1>3, <2>2
    <2>4. /\ (s \o <<r>>)[Len(s) + 1] = r /\ (t \o <<q>>)[Len(t) + 1] = q
          /\ \A i \in 1..Len(s) : (s \o <<r>>)[i] = s[i]
          /\ \A i \in 1..Len(t) : (t \o <<q>>)[i] = t[i]
      BY <1>2, <1>3
    <2>5. r = q /\ \A i \in 1..Len(s) : s[i] = t[i]
      BY <2>1, <2>3, <2>4
    <2>6. s = t
      BY <1>3, <2>3, <2>5
    <2> QED
      BY <1>1, <2>5, <2>6
  <1> QED
    BY <1>4, <1>5, <1>6, <1>7

\* Two records of the six parameters of which the code writes the same list are
\* the same: CanonicalParams keeps what is present and what it is.
LEMMA CanonicalInjective ==
    ASSUME NEW p, NEW q, ParamsShape(p), ParamsShape(q), CanonicalParams(p) = CanonicalParams(q)
    PROVE  p = q
  <1> DEFINE Keys == {"created", "expires", "nonce", "alg", "keyid", "tag"}
             Values == {p.created, p.expires, p.nonce, p.alg, p.keyid, p.tag,
                        q.created, q.expires, q.nonce, q.alg, q.keyid, q.tag}
             S == {[key |-> k, value |-> v] : k \in Keys, v \in Values}
             Upto1(x) == IfPresent("created", x.created)
             Upto2(x) == With(Upto1(x), "expires", x.expires)
             Upto3(x) == With(Upto2(x), "nonce", x.nonce)
             Upto4(x) == With(Upto3(x), "alg", x.alg)
             Upto5(x) == With(Upto4(x), "keyid", x.keyid)
             Upto6(x) == With(Upto5(x), "tag", x.tag)
             K1 == {"created"}
             K2 == K1 \cup {"expires"}
             K3 == K2 \cup {"nonce"}
             K4 == K3 \cup {"alg"}
             K5 == K4 \cup {"keyid"}
  <1>1. \A x \in {p, q} :
          /\ Param("created", x.created, S)
          /\ Param("expires", x.expires, S)
          /\ Param("nonce", x.nonce, S)
          /\ Param("alg", x.alg, S)
          /\ Param("keyid", x.keyid, S)
          /\ Param("tag", x.tag, S)
    BY DEF Param
  <1>2. /\ "expires" \notin K1 /\ "nonce" \notin K2 /\ "alg" \notin K3
        /\ "keyid" \notin K4 /\ "tag" \notin K5
    OBVIOUS
  <1>3. Upto6(p) = Upto6(q)
    BY DEF CanonicalParams, With
  <1> HIDE DEF S
  <1> HIDE DEF K1, K2, K3, K4, K5, Upto1, Upto2, Upto3, Upto4, Upto5, Upto6
  <1>5. \A x \in {p, q} : ListOver(Upto1(x), S, K1)
    BY <1>1 DEF Upto1, K1, ListOver, IfPresent, Param
  <1>6. \A x \in {p, q} : ListOver(Upto2(x), S, K2)
    BY <1>1, <1>5, Lengthened DEF Upto2, K2
  <1>7. \A x \in {p, q} : ListOver(Upto3(x), S, K3)
    BY <1>1, <1>6, Lengthened DEF Upto3, K3
  <1>8. \A x \in {p, q} : ListOver(Upto4(x), S, K4)
    BY <1>1, <1>7, Lengthened DEF Upto4, K4
  <1>9. \A x \in {p, q} : ListOver(Upto5(x), S, K5)
    BY <1>1, <1>8, Lengthened DEF Upto5, K5
  <1>10. p.tag = q.tag /\ Upto5(p) = Upto5(q)
    <2>1. With(Upto5(p), "tag", p.tag) = With(Upto5(q), "tag", q.tag)
      BY <1>3 DEF Upto6
    <2>2. /\ ListOver(Upto5(p), S, K5) /\ ListOver(Upto5(q), S, K5)
          /\ "tag" \notin K5
          /\ Param("tag", p.tag, S) /\ Param("tag", q.tag, S)
      BY <1>1, <1>2, <1>9
    <2> QED
      BY ONLY <2>1, <2>2, LastParameter
  <1>11. p.keyid = q.keyid /\ Upto4(p) = Upto4(q)
    <2>1. With(Upto4(p), "keyid", p.keyid) = With(Upto4(q), "keyid", q.keyid)
      BY <1>10 DEF Upto5
    <2>2. /\ ListOver(Upto4(p), S, K4) /\ ListOver(Upto4(q), S, K4)
          /\ "keyid" \notin K4
          /\ Param("keyid", p.keyid, S) /\ Param("keyid", q.keyid, S)
      BY <1>1, <1>2, <1>8
    <2> QED
      BY ONLY <2>1, <2>2, LastParameter
  <1>12. p.alg = q.alg /\ Upto3(p) = Upto3(q)
    <2>1. With(Upto3(p), "alg", p.alg) = With(Upto3(q), "alg", q.alg)
      BY <1>11 DEF Upto4
    <2>2. /\ ListOver(Upto3(p), S, K3) /\ ListOver(Upto3(q), S, K3)
          /\ "alg" \notin K3
          /\ Param("alg", p.alg, S) /\ Param("alg", q.alg, S)
      BY <1>1, <1>2, <1>7
    <2> QED
      BY ONLY <2>1, <2>2, LastParameter
  <1>13. p.nonce = q.nonce /\ Upto2(p) = Upto2(q)
    <2>1. With(Upto2(p), "nonce", p.nonce) = With(Upto2(q), "nonce", q.nonce)
      BY <1>12 DEF Upto3
    <2>2. /\ ListOver(Upto2(p), S, K2) /\ ListOver(Upto2(q), S, K2)
          /\ "nonce" \notin K2
          /\ Param("nonce", p.nonce, S) /\ Param("nonce", q.nonce, S)
      BY <1>1, <1>2, <1>6
    <2> QED
      BY ONLY <2>1, <2>2, LastParameter
  <1>14. p.expires = q.expires /\ Upto1(p) = Upto1(q)
    <2>1. With(Upto1(p), "expires", p.expires) = With(Upto1(q), "expires", q.expires)
      BY <1>13 DEF Upto2
    <2>2. /\ ListOver(Upto1(p), S, K1) /\ ListOver(Upto1(q), S, K1)
          /\ "expires" \notin K1
          /\ Param("expires", p.expires, S) /\ Param("expires", q.expires, S)
      BY <1>1, <1>2, <1>5
    <2> QED
      BY ONLY <2>1, <2>2, LastParameter
  <1>15. p.created = q.created
    BY <1>14 DEF Upto1, IfPresent
  <1> QED
    BY <1>10, <1>11, <1>12, <1>13, <1>14, <1>15 DEF ParamsShape, IntKeys, StrKeys

\* The parser returns the six parameters.
LEMMA ParsedParams ==
    ASSUME NEW dict, ParseSignatureInput(dict).ok,
           NEW l \in DOMAIN ParseSignatureInput(dict).signatures
    PROVE  ParamsShape(ParseSignatureInput(dict).signatures[l].params)
  <1>1. /\ ParseSignatureInput(dict).signatures =
             [k \in DOMAIN dict |-> parseSignatureEntryFromInput(dict[k])]
        /\ \A k \in DOMAIN dict : parseSignatureEntryFromInput(dict[k]).ok
    BY DEF ParseSignatureInput
  <1>2. l \in DOMAIN dict /\ parseSignatureEntryFromInput(dict[l]).ok
    BY <1>1
  <1>3. /\ parseSignatureEntryFromInput(dict[l]).params =
             extractSignatureParams(dict[l].params).params
        /\ extractSignatureParams(dict[l].params).ok
    BY <1>2 DEF parseSignatureEntryFromInput
  <1>4. ParamsShape(extractSignatureParams(dict[l].params).params)
    BY <1>3 DEF extractSignatureParams, ParamsShape
  <1> QED
    BY <1>1, <1>2, <1>3, <1>4

-----------------------------------------------------------------------------
(* The list of parameters that is written, and what is read of it.         *)

Keys == {"created", "expires", "nonce", "alg", "keyid", "tag"}

Entry(p, k) == [key |-> k, value |-> p[k]]

\* s lists the parameters of p that are present and have a key in K.
Lists(s, p, K) ==
    /\ s \in Seq({Entry(p, k) : k \in Keys})
    /\ \A i \in 1..Len(s) : \E k \in K : s[i] = Entry(p, k) /\ p[k] # Absent
    /\ \A k \in K : p[k] # Absent => \E i \in 1..Len(s) : s[i] = Entry(p, k)

LEMMA ListsNext ==
    ASSUME NEW s, NEW p, NEW K, Lists(s, p, K), NEW k \in Keys
    PROVE  Lists(With(s, k, p[k]), p, K \cup {k})
  <1> DEFINE S == {Entry(p, x) : x \in Keys}
             r == Entry(p, k)
  <1>1. s \in Seq(S) /\ r \in S
    BY DEF Lists
  <1>2. IfPresent(k, p[k]) = IF p[k] = Absent THEN <<>> ELSE <<r>>
    BY DEF IfPresent, Entry
  <1>3. CASE p[k] = Absent
    <2> HIDE DEF S
    <2>1. With(s, k, p[k]) = s
      BY <1>1, <1>2, <1>3 DEF With
    <2> QED
      BY <1>3, <2>1 DEF Lists
  <1>4. CASE p[k] # Absent
    <2>1. With(s, k, p[k]) = s \o <<r>>
      BY <1>2, <1>4 DEF With
    <2> DEFINE t == s \o <<r>>
    <2> HIDE DEF S, r
    <2>2. /\ t \in Seq(S) /\ Len(t) = Len(s) + 1 /\ Len(s) \in Nat
          /\ \A i \in 1..Len(s) : t[i] = s[i]
          /\ t[Len(s) + 1] = r
      BY <1>1
    <2> HIDE DEF t
    <2>3. \A i \in 1..Len(t) : \E x \in K \cup {k} : t[i] = Entry(p, x) /\ p[x] # Absent
      <3>1. ASSUME NEW i \in 1..Len(t)
            PROVE  \E x \in K \cup {k} : t[i] = Entry(p, x) /\ p[x] # Absent
        <4>1. CASE i \in 1..Len(s)
          BY <2>2, <4>1 DEF Lists
        <4>2. CASE i = Len(s) + 1
          BY <1>4, <2>2, <4>2 DEF r
        <4> QED
          BY <2>2, <4>1, <4>2
      <3> QED
        BY <3>1
    <2>4. \A x \in K \cup {k} : p[x] # Absent => \E i \in 1..Len(t) : t[i] = Entry(p, x)
      <3>1. ASSUME NEW x \in K, p[x] # Absent PROVE \E i \in 1..Len(t) : t[i] = Entry(p, x)
        <4>1. PICK i \in 1..Len(s) : s[i] = Entry(p, x)
          BY <3>1 DEF Lists
        <4> QED
          BY <2>2, <4>1
      <3>2. \E i \in 1..Len(t) : t[i] = Entry(p, k)
        BY <2>2 DEF r
      <3> QED
        BY <3>1, <3>2
    <2>5. t \in Seq({Entry(p, x) : x \in Keys})
      BY <2>2 DEF S
    <2> QED
      BY <2>1, <2>3, <2>4, <2>5 DEF Lists, t
  <1> QED
    BY <1>3, <1>4

\* CanonicalParams writes what is present, and nothing else.
LEMMA CanonicalLists ==
    ASSUME NEW p, ParamsShape(p)
    PROVE  Lists(CanonicalParams(p), p, Keys)
  <1> DEFINE s1 == With(<<>>, "created", p["created"])
             s2 == With(s1, "expires", p["expires"])
             s3 == With(s2, "nonce", p["nonce"])
             s4 == With(s3, "alg", p["alg"])
             s5 == With(s4, "keyid", p["keyid"])
             s6 == With(s5, "tag", p["tag"])
  <1>1. CanonicalParams(p) = s6
    BY DEF CanonicalParams, With, IfPresent
  <1>2. Lists(<<>>, p, {})
    BY DEF Lists
  <1> HIDE DEF s1, s2, s3, s4, s5, s6
  <1> DEFINE K1 == {} \cup {"created"}
             K2 == K1 \cup {"expires"}
             K3 == K2 \cup {"nonce"}
             K4 == K3 \cup {"alg"}
             K5 == K4 \cup {"keyid"}
             K6 == K5 \cup {"tag"}
  <1>3. /\ "created" \in Keys /\ "expires" \in Keys /\ "nonce" \in Keys
        /\ "alg" \in Keys /\ "keyid" \in Keys /\ "tag" \in Keys
    BY DEF Keys
  <1>4. K6 = Keys
    BY DEF Keys
  <1> HIDE DEF K1, K2, K3, K4, K5, K6
  <1>5. Lists(s1, p, K1)
    BY <1>2, <1>3, ListsNext DEF s1, K1
  <1>6. Lists(s2, p, K2)
    BY <1>5, <1>3, ListsNext DEF s2, K2
  <1>7. Lists(s3, p, K3)
    BY <1>6, <1>3, ListsNext DEF s3, K3
  <1>8. Lists(s4, p, K4)
    BY <1>7, <1>3, ListsNext DEF s4, K4
  <1>9. Lists(s5, p, K5)
    BY <1>8, <1>3, ListsNext DEF s5, K5
  <1>10. Lists(s6, p, K6)
    BY <1>9, <1>3, ListsNext DEF s6, K6
  <1> QED
    BY <1>1, <1>4, <1>10

\* The parser finds the parameters that were written, and no others.
LEMMA ParamsReadBack ==
    ASSUME NEW p, TypedParams(p)
    PROVE  extractSignatureParams(CanonicalParams(p)) = [ok |-> TRUE, params |-> p]
  <1> DEFINE s         == CanonicalParams(p)
             hits(key) == {i \in 1..Len(s) : s[i].key = key}
             Found(key) == IF hits(key) = {} THEN Absent
                          ELSE s[CHOOSE i \in hits(key) : \A j \in hits(key) : i >= j].value
  <1>1. Lists(s, p, Keys)
    BY CanonicalLists DEF TypedParams
  <1>2. Len(s) \in Nat
    BY <1>1 DEF Lists
  <1>3. extractSignatureParams(s) =
          IF \E i \in 1..Len(s) : ~WellTyped(s[i]) THEN [ok |-> FALSE]
          ELSE [ok |-> TRUE, params |-> [key \in IntKeys \cup StrKeys |-> Found(key)]]
    BY DEF extractSignatureParams
  <1> HIDE DEF s
  <1>4. Keys = IntKeys \cup StrKeys
    BY DEF Keys, IntKeys, StrKeys
  <1>5. \A i \in 1..Len(s) : WellTyped(s[i])
    BY <1>1, <1>4 DEF Lists, TypedParams, Entry
  <1>6. ASSUME NEW key \in Keys PROVE Found(key) = p[key]
    <2>1. \A i \in hits(key) : s[i].value = p[key] /\ p[key] # Absent
      <3>1. \A i \in 1..Len(s) : \E k \in Keys : s[i] = Entry(p, k) /\ p[k] # Absent
        BY <1>1 DEF Lists
      <3>2. \A k : Entry(p, k).key = k /\ Entry(p, k).value = p[k]
        BY DEF Entry
      <3> QED
        BY <3>1, <3>2
    <2>2. p[key] # Absent => hits(key) # {}
      <3>1. p[key] # Absent => \E i \in 1..Len(s) : s[i] = Entry(p, key)
        BY <1>1 DEF Lists
      <3>2. Entry(p, key).key = key
        BY DEF Entry
      <3> QED
        BY <3>1, <3>2
    <2>3. hits(key) # {} => \E i \in hits(key) : \A j \in hits(key) : i >= j
      <3>1. hits(key) \subseteq 1..Len(s)
        OBVIOUS
      <3> HIDE DEF hits
      <3> SUFFICES ASSUME hits(key) # {} PROVE \E i \in hits(key) : \A j \in hits(key) : i >= j
        OBVIOUS
      <3>2. PICK i \in hits(key) : \A j \in hits(key) : j <= i
        BY <1>2, <3>1, LastPosition
      <3> QED
        BY <1>2, <3>1, <3>2
    <2> HIDE DEF hits
    <2> QED
      BY <2>1, <2>2, <2>3
  <1>7. [key \in IntKeys \cup StrKeys |-> Found(key)] = p
    <2> HIDE DEF Found
    <2> QED
      BY <1>4, <1>6 DEF TypedParams, ParamsShape
  <1> QED
    BY <1>3, <1>5, <1>7 DEF s

-----------------------------------------------------------------------------
(* The items, and whole members.                                           *)

\* What the parser returns of a member, it would return again of what the
\* serializer makes of it.
LEMMA EntryReadBack ==
    ASSUME NEW cs, Len(cs) \in Nat, cs = [i \in 1..Len(cs) |-> cs[i]],
           \A i \in 1..Len(cs) : ParsedComponent(cs[i]) = cs[i],
           \A i \in 1..Len(cs) : validateComponentIdentifier(cs[i]),
           NEW p, TypedParams(p), serializeSignatureInput(cs, p).ok
    PROVE  parseSignatureEntryFromInput(serializeSignatureInput(cs, p).member)
             = [ok |-> TRUE, comps |-> cs, params |-> p]
  <1> DEFINE items == [i \in 1..Len(cs) |-> [name |-> cs[i].name, params |-> cs[i].params]]
             back  == [i \in 1..Len(items) |-> ParsedComponent(items[i])]
             m     == [items |-> items, params |-> CanonicalParams(p)]
  <1>1. serializeSignatureInput(cs, p).member = m
    BY DEF serializeSignatureInput, signatureParamsToSFV
  <1>2. Len(items) = Len(cs)
    BY LenOf
  <1>3. back = [i \in 1..Len(cs) |-> cs[i]]
    BY <1>2 DEF ParsedComponent
  <1>4. back = cs
    BY <1>3
  <1>5. extractSignatureParams(CanonicalParams(p)) = [ok |-> TRUE, params |-> p]
    BY ParamsReadBack
  <1>6. m.items = items /\ m.params = CanonicalParams(p)
    OBVIOUS
  <1>7. parseSignatureEntryFromInput(m) =
          IF (\E i \in 1..Len(back) : ~validateComponentIdentifier(back[i]))
               \/ ~extractSignatureParams(m.params).ok
          THEN [ok |-> FALSE]
          ELSE [ok |-> TRUE, comps |-> back,
                params |-> extractSignatureParams(m.params).params]
    BY <1>6 DEF parseSignatureEntryFromInput
  <1> HIDE DEF back, items, m
  <1> QED
    BY <1>1, <1>4, <1>5, <1>6, <1>7

-----------------------------------------------------------------------------
(* Lines of fields without newlines.                                       *)

\* The scan leaves a line without newlines as it is.
LEMMA PlainLine ==
    ASSUME NEW S, S \cap Newline = {}, "invalid" \notin S, NEW s \in Seq(S)
    PROVE  normalizeLineFolding(s) = s
  <1> DEFINE n    == Len(s)
             D    == 1..(n + 1)
             F(f) == [i \in D |->
                        IF i > Len(s) THEN <<>>
                        ELSE IF s[i] \notin Newline THEN Prepend(s[i], f[i + 1])
                        ELSE LET next == skipObsFold(s, i)
                             IN  IF next = 0 THEN Invalid ELSE Prepend(SP, f[next])]
             Rest(i) == [k \in 1..(n + 1 - i) |-> s[i + k - 1]]
             scan    == CHOOSE f : f = F(f)
  <1>1. normalizeLineFolding(s) = scan[1]
    BY DEF normalizeLineFolding
  <1>2. n \in Nat /\ \A i \in 1..n : s[i] \in S /\ s[i] \notin Newline
    OBVIOUS
  <1>3. \A i \in D : Rest(i) \in Seq(S) /\ Rest(i) # Invalid
    <2>1. ASSUME NEW i \in D PROVE Rest(i) \in Seq(S)
      <3>1. \A k \in 1..(n + 1 - i) : s[i + k - 1] \in S
        BY <1>2
      <3> QED
        BY <1>2, <3>1
    <2>2. \A t \in Seq(S) : t # Invalid
      BY DEF Invalid
    <2> QED
      BY <2>1, <2>2
  <1>4. ASSUME NEW i \in 1..n PROVE Prepend(s[i], Rest(i + 1)) = Rest(i)
    <2>1. Rest(i + 1) \in Seq(S) /\ Rest(i + 1) # Invalid /\ Rest(i) \in Seq(S)
      <3> HIDE DEF Rest
      <3> QED
        BY <1>2, <1>3
    <2>2. Prepend(s[i], Rest(i + 1)) = <<s[i]>> \o Rest(i + 1)
      BY <2>1 DEF Prepend
    <2>3. Len(Rest(i + 1)) = n - i /\ Len(Rest(i)) = n + 1 - i
      BY <1>2, <2>1, LenOf
    <2> DEFINE t == <<s[i]>> \o Rest(i + 1)
    <2>4. /\ t \in Seq(S) /\ Len(t) = n + 1 - i
          /\ \A k \in 1..(n + 1 - i) : t[k] = IF k = 1 THEN s[i] ELSE Rest(i + 1)[k - 1]
      <3> DEFINE r == Rest(i + 1)
      <3>1. s[i] \in S /\ r \in Seq(S) /\ Len(r) = n - i
        BY <1>2, <2>1, <2>3
      <3> HIDE DEF r
      <3> QED
        BY <1>2, <3>1
    <2>5. \A k \in 1..(n + 1 - i) : t[k] = Rest(i)[k]
      <3>1. \A k \in 2..(n + 1 - i) : Rest(i + 1)[k - 1] = s[i + k - 1]
        BY <1>2
      <3>2. \A k \in 1..(n + 1 - i) : Rest(i)[k] = s[i + k - 1]
        OBVIOUS
      <3> HIDE DEF t, Rest
      <3>3. ASSUME NEW k \in 1..(n + 1 - i) PROVE t[k] = Rest(i)[k]
        <4>1. CASE k = 1
          BY <1>2, <2>4, <3>2, <4>1
        <4>2. CASE k \in 2..(n + 1 - i)
          BY <1>2, <2>4, <3>1, <3>2, <4>2
        <4> QED
          BY <1>2, <4>1, <4>2
      <3> QED
        BY <3>3
    <2> HIDE DEF t, Rest
    <2>6. t = Rest(i)
      BY <1>2, <2>1, <2>3, <2>4, <2>5
    <2> QED
      BY <2>2, <2>6 DEF t
  <1>5. Rest(n + 1) = <<>> /\ Rest(1) = s
    BY <1>2
  <1> HIDE DEF Rest
  <1>6. \E f : f = F(f)
    <2> DEFINE g == [i \in D |-> Rest(i)]
    <2>1. \A i \in D : g[i] = F(g)[i]
      <3>1. \A i \in 1..n : g[i + 1] = Rest(i + 1)
        BY <1>2
      <3> HIDE DEF g
      <3>2. \A i \in 1..n : F(g)[i] = Prepend(s[i], g[i + 1])
        BY <1>2
      <3>3. F(g)[n + 1] = <<>>
        BY <1>2
      <3>4. \A i \in D : g[i] = Rest(i)
        BY DEF g
      <3> HIDE DEF F
      <3>5. ASSUME NEW i \in D PROVE g[i] = F(g)[i]
        <4>1. CASE i = n + 1
          BY <1>5, <3>3, <3>4, <4>1
        <4>2. CASE i \in 1..n
          BY <1>4, <3>1, <3>2, <3>4, <4>2
        <4> QED
          BY <1>2, <4>1, <4>2
      <3> QED
        BY <3>5
    <2>2. g = F(g)
      <3> HIDE DEF F
      <3>1. DOMAIN F(g) = D /\ F(g) = [i \in D |-> F(g)[i]]
        BY DEF F
      <3> QED
        BY <2>1, <3>1
    <2> QED
      BY <2>2
  <1> HIDE DEF F
  <1>7. scan = F(scan)
    BY <1>6
  <1> HIDE DEF scan
  <1>8. \A i \in D : scan[i] = Rest(i)
    <2> DEFINE wrong == {i \in D : scan[i] # Rest(i)}
    <2> SUFFICES ASSUME wrong # {} PROVE FALSE
      OBVIOUS
    <2>1. wrong \subseteq 1..(n + 1) /\ n + 1 \in Nat
      BY <1>2
    <2> HIDE DEF wrong
    <2>2. PICK i \in wrong : \A j \in wrong : j <= i
      BY <2>1, LastPosition
    <2>3. CASE i = n + 1
      BY <1>2, <1>5, <1>7, <2>2, <2>3 DEF F, wrong
    <2>4. CASE i \in 1..n
      <3>1. scan[i + 1] = Rest(i + 1)
        BY <1>2, <2>2, <2>4 DEF wrong
      <3>2. scan[i] = Prepend(s[i], scan[i + 1])
        BY <1>2, <1>7, <2>4 DEF F
      <3> QED
        BY <1>4, <2>2, <2>4, <3>1, <3>2 DEF wrong
    <2> QED
      BY <1>2, <2>1, <2>2, <2>3, <2>4
  <1> QED
    BY <1>1, <1>2, <1>5, <1>8

\* A line that begins and ends with something visible is not trimmed.
LEMMA TrimmedLine ==
    ASSUME NEW S, NEW s \in Seq(S), Len(s) > 0,
           s[1] \notin Blank, s[Len(s)] \notin Blank
    PROVE  TrimSpace(s) = s
  <1> DEFINE solid == {i \in 1..Len(s) : s[i] \notin Blank}
             a     == CHOOSE i \in solid : \A j \in solid : i <= j
             b     == CHOOSE i \in solid : \A j \in solid : i >= j
  <1>1. TrimSpace(s) = IF solid = {} THEN <<>> ELSE SubSeq(s, a, b)
    BY DEF TrimSpace
  <1>2. 1 \in solid /\ Len(s) \in solid /\ \A i \in solid : 1 <= i /\ Len(s) >= i /\ i \in Int
    OBVIOUS
  <1> HIDE DEF solid
  <1>3. a = 1 /\ b = Len(s)
    BY <1>2
  <1> HIDE DEF a, b
  <1>4. SubSeq(s, 1, Len(s)) = s
    OBVIOUS
  <1> QED
    BY <1>1, <1>2, <1>3, <1>4

\* Appending y to x gives z, seen from the entries.
LEMMA Concatenation ==
    ASSUME NEW S, NEW x \in Seq(S), NEW y \in Seq(S), NEW z \in Seq(S),
           Len(z) = Len(x) + Len(y),
           \A i \in 1..Len(x) : z[i] = x[i],
           \A i \in 1..Len(y) : z[Len(x) + i] = y[i]
    PROVE  x \o y = z
  <1> DEFINE t == x \o y
  <1>1. t \in Seq(S) /\ Len(t) = Len(z)
    OBVIOUS
  <1>2. ASSUME NEW i \in 1..Len(z) PROVE t[i] = z[i]
    <2>1. CASE i \in 1..Len(x)
      BY <2>1
    <2>2. CASE i - Len(x) \in 1..Len(y)
      BY <2>2
    <2> QED
      BY <2>1, <2>2
  <1> HIDE DEF t
  <1>3. t = z
    BY <1>1, <1>2
  <1> QED
    BY <1>3 DEF t

\* The loop of strings.Join over v, with f[n] what it has after n values.
Joins(f, v) ==
    /\ f[0] = <<>>
    /\ \A n \in 1..Len(v) :
         f[n] = f[n - 1] \o (IF n = 1 THEN <<>> ELSE <<",", SP>>) \o v[n]

\* It gets through every list.
LEMMA JoinSteps ==
    ASSUME NEW v, Len(v) \in Nat
    PROVE  \E f : Joins(f, v) /\ JoinComma(v) = f[Len(v)]
  <1> DEFINE N       == Len(v)
             Next(n, t) == t \o (IF n = 1 THEN <<>> ELSE <<",", SP>>) \o v[n]
             F(f, m) == [n \in 0..m |-> IF n = 0 THEN <<>> ELSE Next(n, f[n - 1])]
             joined  == CHOOSE f : f = F(f, N)
             good    == {m \in 1..(N + 1) : \E f : f = F(f, m - 1)}
  <1>1. JoinComma(v) = joined[N]
    BY DEF JoinComma
  <1> HIDE DEF Next
  <1>2. 1 \in good
    <2> DEFINE g == [n \in 0..0 |-> <<>>]
    <2>1. g = [n \in 0..0 |-> IF n = 0 THEN <<>> ELSE Next(n, g[n - 1])]
      OBVIOUS
    <2>2. 1 - 1 = 0 /\ 1 \in 1..(N + 1)
      OBVIOUS
    <2> HIDE DEF g
    <2>3. g = F(g, 1 - 1)
      BY <2>1, <2>2
    <2> QED
      BY <2>2, <2>3
  <1>3. ASSUME NEW m \in good, m # N + 1 PROVE m + 1 \in good
    <2>1. m \in 1..N
      BY <1>3
    <2>2. PICK f : f = F(f, m - 1)
      BY <1>3
    <2> DEFINE g == [n \in 0..m |-> IF n = m THEN Next(m, f[m - 1]) ELSE f[n]]
    <2>3. \A n \in 0..(m - 1) : f[n] = IF n = 0 THEN <<>> ELSE Next(n, f[n - 1])
      BY <2>2
    <2>4. \A n \in 0..(m - 1) : g[n] = f[n]
      BY <2>1
    <2>5. g[m] = Next(m, g[m - 1])
      BY <2>1, <2>4
    <2>6. \A n \in 0..m : g[n] = IF n = 0 THEN <<>> ELSE Next(n, g[n - 1])
      <3> HIDE DEF g
      <3> QED
        BY <2>1, <2>3, <2>4, <2>5
    <2>7. g = [n \in 0..m |-> g[n]]
      OBVIOUS
    <2> HIDE DEF g
    <2>8. g = F(g, m)
      BY <2>6, <2>7
    <2>9. (m + 1) - 1 = m /\ m + 1 \in 1..(N + 1)
      BY <2>1
    <2> QED
      BY <2>8, <2>9
  <1>4. N + 1 \in good
    <2>1. good \subseteq 1..(N + 1) /\ N + 1 \in Nat
      OBVIOUS
    <2> HIDE DEF good
    <2>2. PICK m \in good : \A k \in good : k <= m
      BY <1>2, <2>1, LastPosition
    <2> QED
      BY <1>3, <2>1, <2>2
  <1>5. \E f : f = F(f, N)
    <2>1. (N + 1) - 1 = N
      OBVIOUS
    <2> HIDE DEF F
    <2> QED
      BY <1>4, <2>1
  <1>6. joined = F(joined, N)
    <2> HIDE DEF F
    <2> QED
      BY <1>5
  <1> HIDE DEF joined
  <1>7. /\ joined[0] = <<>>
        /\ \A n \in 1..N : joined[n] = Next(n, joined[n - 1])
    BY <1>6
  <1> QED
    BY <1>1, <1>7 DEF Next, Joins

\* strings.Join of one value, and of two.
LEMMA JoinOf ==
    ASSUME NEW v
    PROVE  /\ Len(v) = 1 => JoinComma(v) = <<>> \o <<>> \o v[1]
           /\ Len(v) = 2 =>
                JoinComma(v) = <<>> \o <<>> \o v[1] \o <<",", SP>> \o v[2]
  <1>1. ASSUME NEW f, Joins(f, v), Len(v) \in {1, 2}
        PROVE  /\ f[1] = <<>> \o <<>> \o v[1]
               /\ Len(v) = 2 => f[2] = <<>> \o <<>> \o v[1] \o <<",", SP>> \o v[2]
    <2>1. f[1] = f[1 - 1] \o (IF 1 = 1 THEN <<>> ELSE <<",", SP>>) \o v[1]
      <3>1. 1 \in 1..Len(v)
        BY <1>1
      <3> QED
        BY <1>1, <3>1 DEF Joins
    <2>2. f[0] = <<>>
      BY <1>1, Zenon DEF Joins
    <2>3. f[1] = <<>> \o <<>> \o v[1]
      <3>1. 1 - 1 = 0 /\ 1 = 1
        OBVIOUS
      <3> QED
        BY <2>1, <2>2, <3>1, Zenon
    <2>4. ASSUME Len(v) = 2 PROVE f[2] = f[1] \o <<",", SP>> \o v[2]
      <3>1. 2 \in 1..Len(v)
        BY <2>4
      <3>2. f[2] = f[2 - 1] \o (IF 2 = 1 THEN <<>> ELSE <<",", SP>>) \o v[2]
        BY <1>1, <3>1 DEF Joins
      <3>3. 2 - 1 = 1 /\ 2 # 1
        OBVIOUS
      <3> QED
        BY <3>2, <3>3
    <2> QED
      BY <2>3, <2>4
  <1>2. ASSUME Len(v) \in {1, 2} PROVE \E f : Joins(f, v) /\ JoinComma(v) = f[Len(v)]
    <2>1. Len(v) \in Nat
      BY <1>2
    <2> QED
      BY ONLY <2>1, JoinSteps
  <1> QED
    BY <1>1, <1>2

\* A single line stays as it is, and two lines of one character are put on one.
LEMMA JoinOne ==
    ASSUME NEW S, NEW x \in Seq(S)
    PROVE  JoinComma(<<x>>) = x
  <1>1. JoinComma(<<x>>) = <<>> \o <<>> \o x
    <2> DEFINE v == <<x>>
    <2>1. Len(v) = 1 /\ v[1] = x
      OBVIOUS
    <2>2. Len(v) = 1 => JoinComma(v) = <<>> \o <<>> \o v[1]
      BY JoinOf
    <2> HIDE DEF v
    <2>3. JoinComma(v) = <<>> \o <<>> \o x
      BY <2>1, <2>2
    <2> QED
      BY <2>3 DEF v
  <1>2. <<>> \o <<>> \o x = x
    OBVIOUS
  <1> QED
    BY <1>1, <1>2

LEMMA JoinTwo ==
    ASSUME NEW x, NEW y
    PROVE  JoinComma(<< <<x>>, <<y>> >>) = <<x, ",", SP, y>>
  <1> DEFINE S == {x, y, ",", SP}
  <1>1. JoinComma(<< <<x>>, <<y>> >>) = <<>> \o <<>> \o <<x>> \o <<",", SP>> \o <<y>>
    <2> DEFINE v == << <<x>>, <<y>> >>
    <2>1. Len(v) = 2 /\ v[1] = <<x>> /\ v[2] = <<y>>
      OBVIOUS
    <2>2. Len(v) = 2 => JoinComma(v) = <<>> \o <<>> \o v[1] \o <<",", SP>> \o v[2]
      BY JoinOf
    <2> HIDE DEF v
    <2>3. JoinComma(v) = <<>> \o <<>> \o <<x>> \o <<",", SP>> \o <<y>>
      BY <2>1, <2>2
    <2> QED
      BY <2>3 DEF v
  <1>2. <<>> \o <<>> \o <<x>> = <<x>>
    OBVIOUS
  <1>3. ASSUME NEW a, NEW b, NEW c, NEW d, NEW T, {a, b, c, d} \subseteq T
        PROVE  <<a>> \o <<b, c>> \o <<d>> = <<a, b, c, d>>
    <2>1. <<a>> \o <<b, c>> = <<a, b, c>>
      <3> DEFINE p == <<a>>
                 q == <<b, c>>
                 r == <<a, b, c>>
      <3>1. /\ p \in Seq(T) /\ Len(p) = 1 /\ p[1] = a
            /\ q \in Seq(T) /\ Len(q) = 2 /\ q[1] = b /\ q[2] = c
            /\ r \in Seq(T) /\ Len(r) = 3 /\ r[1] = a /\ r[2] = b /\ r[3] = c
        BY <1>3
      <3> HIDE DEF p, q, r
      <3>2. /\ \A i \in 1..Len(p) : r[i] = p[i]
            /\ \A i \in 1..Len(q) : r[Len(p) + i] = q[i]
            /\ Len(r) = Len(p) + Len(q)
        BY <3>1
      <3>3. p \in Seq(T) /\ q \in Seq(T) /\ r \in Seq(T)
        BY <3>1
      <3>4. p \o q = r
        BY ONLY <3>2, <3>3, Concatenation
      <3> QED
        BY <3>4 DEF p, q, r
    <2>2. <<a, b, c>> \o <<d>> = <<a, b, c, d>>
      <3> DEFINE p == <<a, b, c>>
                 q == <<d>>
                 r == <<a, b, c, d>>
      <3>1. /\ p \in Seq(T) /\ Len(p) = 3 /\ p[1] = a /\ p[2] = b /\ p[3] = c
            /\ q \in Seq(T) /\ Len(q) = 1 /\ q[1] = d
            /\ r \in Seq(T) /\ Len(r) = 4 /\ r[1] = a /\ r[2] = b /\ r[3] = c /\ r[4] = d
        BY <1>3
      <3> HIDE DEF p, q, r
      <3>2. /\ \A i \in 1..Len(p) : r[i] = p[i]
            /\ \A i \in 1..Len(q) : r[Len(p) + i] = q[i]
            /\ Len(r) = Len(p) + Len(q)
        BY <3>1
      <3>3. p \in Seq(T) /\ q \in Seq(T) /\ r \in Seq(T)
        BY <3>1
      <3>4. p \o q = r
        BY ONLY <3>2, <3>3, Concatenation
      <3> QED
        BY <3>4 DEF p, q, r
    <2> QED
      BY <2>1, <2>2
  <1> QED
    BY <1>1, <1>2, <1>3

\* A line that is plain and not trimmed is its own canonical value.
LEMMA CanonicalOne ==
    ASSUME NEW S, S \cap Newline = {}, "invalid" \notin S, NEW s \in Seq(S), Len(s) > 0,
           s[1] \notin Blank, s[Len(s)] \notin Blank
    PROVE  canonicalizeFieldValues(<<s>>) = s
  <1> DEFINE v          == <<s>>
             normalized == [i \in 1..Len(v) |-> normalizeLineFolding(v[i])]
             trimmed    == [i \in 1..Len(v) |-> TrimSpace(normalized[i])]
  <1>1. canonicalizeFieldValues(v) =
          IF \E i \in 1..Len(v) : normalized[i] = Invalid THEN Invalid ELSE JoinComma(trimmed)
    BY DEF canonicalizeFieldValues
  <1>2. Len(v) = 1 /\ v[1] = s /\ 1..1 = {1}
    OBVIOUS
  <1>3. normalizeLineFolding(s) = s /\ TrimSpace(s) = s
    BY PlainLine, TrimmedLine
  <1>4. s # Invalid
    BY DEF Invalid
  <1>5. normalized = [i \in 1..1 |-> s]
    BY <1>2, <1>3
  <1>6. trimmed = <<s>>
    <2>1. trimmed = [i \in 1..1 |-> s]
      BY <1>2, <1>3, <1>5
    <2> QED
      BY <2>1
  <1>7. JoinComma(<<s>>) = s
    BY JoinOne
  <1> HIDE DEF v, trimmed
  <1>8. canonicalizeFieldValues(v) = s
    BY <1>1, <1>2, <1>4, <1>5, <1>6, <1>7
  <1> QED
    BY <1>8 DEF v

\* The same for two lines of one character.
LEMMA CanonicalTwo ==
    ASSUME NEW S, S \cap (Newline \cup Blank) = {}, "invalid" \notin S, NEW x \in S, NEW y \in S
    PROVE  canonicalizeFieldValues(<< <<x>>, <<y>> >>) = <<x, ",", SP, y>>
  <1> DEFINE v          == << <<x>>, <<y>> >>
             normalized == [i \in 1..Len(v) |-> normalizeLineFolding(v[i])]
             trimmed    == [i \in 1..Len(v) |-> TrimSpace(normalized[i])]
  <1>1. canonicalizeFieldValues(v) =
          IF \E i \in 1..Len(v) : normalized[i] = Invalid THEN Invalid ELSE JoinComma(trimmed)
    BY DEF canonicalizeFieldValues
  <1>2. Len(v) = 2 /\ v[1] = <<x>> /\ v[2] = <<y>> /\ 1..2 = {1, 2}
    OBVIOUS
  <1>3. ASSUME NEW c \in S
        PROVE  /\ normalizeLineFolding(<<c>>) = <<c>> /\ TrimSpace(<<c>>) = <<c>>
               /\ <<c>> # Invalid
    <2> DEFINE t == <<c>>
    <2>1. t \in Seq(S) /\ Len(t) = 1 /\ t[1] = c /\ c \notin Blank /\ c # "invalid"
      BY <1>3
    <2>2. t # Invalid
      BY <2>1 DEF Invalid
    <2> HIDE DEF t
    <2>3. normalizeLineFolding(t) = t
      BY <2>1, PlainLine
    <2>4. TrimSpace(t) = t
      BY <2>1, TrimmedLine
    <2> QED
      BY <2>2, <2>3, <2>4 DEF t
  <1>4. normalized[1] = <<x>> /\ normalized[2] = <<y>>
    BY <1>2, <1>3
  <1>5. trimmed[1] = <<x>> /\ trimmed[2] = <<y>>
    BY <1>2, <1>3, <1>4
  <1>6. trimmed = v
    <2>1. v = [i \in 1..2 |-> IF i = 1 THEN <<x>> ELSE <<y>>]
      OBVIOUS
    <2>2. trimmed = [i \in 1..2 |-> trimmed[i]]
      BY <1>2
    <2> HIDE DEF v, trimmed
    <2> QED
      BY <1>2, <1>5, <2>1, <2>2
  <1>7. JoinComma(v) = <<x, ",", SP, y>>
    BY JoinTwo
  <1>8. \A i \in 1..Len(v) : normalized[i] # Invalid
    BY <1>2, <1>3, <1>4
  <1> HIDE DEF v, trimmed, normalized
  <1>9. canonicalizeFieldValues(v) = <<x, ",", SP, y>>
    BY <1>1, <1>6, <1>7, <1>8
  <1> QED
    BY <1>9 DEF v

\* A parameter req that is the only one leaves none.
LEMMA ReqRemoved ==
    ASSUME NEW c, NEW r, r.key = "req",
           c = [name |-> c.name, type |-> c.type, params |-> <<r>>]
    PROVE  WithoutReq(c) = [name |-> c.name, type |-> c.type, params |-> <<>>]
  <1> DEFINE F(f) == [n \in 0..Len(c.params) |->
                        IF n = 0 THEN <<>>
                        ELSE IF c.params[n].key = "req" THEN f[n - 1]
                        ELSE Append(f[n - 1], c.params[n])]
             kept == CHOOSE f : f = F(f)
             g == [n \in 0..1 |-> <<>>]
  <1>1. c.params = <<r>> /\ Len(c.params) = 1
    OBVIOUS
  <1>2. WithoutReq(c) = [c EXCEPT !.params = kept[1]]
    BY <1>1 DEF WithoutReq
  <1>3. \A f : F(f) = [n \in 0..1 |-> IF n = 0 THEN <<>> ELSE f[0]]
    BY <1>1
  <1>4. g = F(g)
    <2>1. F(g) = [n \in 0..1 |-> IF n = 0 THEN <<>> ELSE g[0]]
      BY <1>3
    <2> HIDE DEF F
    <2> QED
      BY <2>1
  <1> HIDE DEF F
  <1>5. kept = F(kept)
    BY <1>4
  <1> HIDE DEF kept, g
  <1>6. kept[1] = <<>>
    BY <1>3, <1>5
  <1> QED
    BY <1>2, <1>6

-----------------------------------------------------------------------------
(* Components of a request at the client and at the server.                *)

\* A request with other fields.
RequestOf(method, url, host, tls, header, trailer) ==
    [kind |-> "request", method |-> method, url |-> url, Host |-> host, tls |-> tls,
     header |-> header, trailer |-> trailer]

WithFields(q, method, url, host, tls) ==
    [q EXCEPT !.method = method, !.Host = host, !.tls = tls, !.url = url]

LEMMA RequestFields ==
    ASSUME NEW method, NEW url, NEW host, NEW tls, NEW header, NEW trailer
    PROVE  LET q == RequestOf(method, url, host, tls, header, trailer)
           IN  /\ q.kind = "request" /\ q.method = method /\ q.url = url /\ q.Host = host
               /\ q.tls = tls /\ q.header = header /\ q.trailer = trailer
               /\ \A h : [q EXCEPT !.header = h] = RequestOf(method, url, host, tls, h, trailer)
  BY DEF RequestOf

LEMMA RequestWith ==
    ASSUME NEW q, NEW method, NEW url, NEW host, NEW tls, NEW header, NEW trailer,
           q = RequestOf(method, url, host, tls, header, trailer),
           NEW a, NEW b, NEW c, NEW d
    PROVE  WithFields(q, a, d, b, c) = RequestOf(a, d, b, c, header, trailer)
  <1> DEFINE e == [q EXCEPT !.method = a, !.Host = b, !.tls = c, !.url = d]
             r == RequestOf(a, d, b, c, header, trailer)
             F == {"kind", "method", "url", "Host", "tls", "header", "trailer"}
  <1>1. DOMAIN q = F /\ DOMAIN r = F
    BY DEF RequestOf
  <1>2. q["kind"] = "request" /\ q["header"] = header /\ q["trailer"] = trailer
    BY DEF RequestOf
  <1>3. /\ r["kind"] = "request" /\ r["header"] = header /\ r["trailer"] = trailer
        /\ r["method"] = a /\ r["Host"] = b /\ r["tls"] = c /\ r["url"] = d
    BY DEF RequestOf
  <1>4. r = [x \in F |-> r[x]]
    BY DEF RequestOf
  <1> HIDE DEF r
  <1>5. e = [x \in F |-> e[x]]
    BY <1>1
  <1>6. /\ e["kind"] = "request" /\ e["header"] = header /\ e["trailer"] = trailer
        /\ e["method"] = a /\ e["Host"] = b /\ e["tls"] = c /\ e["url"] = d
    BY <1>1, <1>2
  <1> HIDE DEF e
  <1>7. \A x \in F : e[x] = r[x]
    BY <1>3, <1>6
  <1>8. e = r
    BY <1>4, <1>5, <1>7
  <1> QED
    BY <1>8 DEF e, r, WithFields

\* A server's form of a request, field by field.
LEMMA ServerViewIs ==
    ASSUME NEW q, RequestShape(q)
    PROVE  ServerView(q) =
             RequestOf(IF q.method = "" THEN "GET" ELSE q.method, ServerURL(q.url),
                       IF q.Host # "" THEN q.Host ELSE q.url.host,
                       q.url.scheme = "https", q.header, q.trailer)
  <1> DEFINE method == IF q.method = "" THEN "GET" ELSE q.method
             host   == IF q.Host # "" THEN q.Host ELSE q.url.host
             tls    == q.url.scheme = "https"
             url    == ServerURL(q.url)
  <1>1. ServerView(q) = WithFields(q, method, url, host, tls)
    BY DEF ServerView, WithFields
  <1>2. q = RequestOf(q.method, q.url, q.Host, q.tls, q.header, q.trailer)
    BY DEF RequestShape, RequestOf
  <1>3. WithFields(q, method, url, host, tls) =
          RequestOf(method, url, host, tls, q.header, q.trailer)
    <2> HIDE DEF method, host, tls, url
    <2> QED
      BY ONLY <1>2, RequestWith
  <1> QED
    BY <1>1, <1>3, Zenon

LEMMA ServerKeepsHeader ==
    ASSUME NEW q, RequestShape(q)
    PROVE  ServerView(q).header = q.header
  <1> DEFINE method == IF q.method = "" THEN "GET" ELSE q.method
             host   == IF q.Host # "" THEN q.Host ELSE q.url.host
             tls    == q.url.scheme = "https"
             url    == ServerURL(q.url)
  <1>1. ServerView(q) = RequestOf(method, url, host, tls, q.header, q.trailer)
    BY ServerViewIs, Zenon
  <1> HIDE DEF method, host, tls, url
  <1> QED
    BY <1>1, RequestFields

\* resolveRequestURL gives a portable request the URL the client wrote, but for
\* an empty path and the fragment.
LEMMA ResolvedURL ==
    ASSUME NEW q, RequestShape(q), Portable(q)
    PROVE  LET v == ServerView(q)
               u == resolveRequestURL(v)
           IN  /\ v.kind = "request" /\ v.method = q.method /\ v.url = ServerURL(q.url)
               /\ v.header = q.header /\ v.trailer = q.trailer
               /\ resolveRequestURL(q) = q.url
               /\ u.scheme = q.url.scheme /\ u.host = q.url.host
               /\ u.path = PathOrSlash(q.url) /\ u.query = q.url.query /\ u.fragment = ""
               /\ u.opaque = "" /\ u.user = "" /\ ~u.forceQuery
  <1> DEFINE host == IF q.Host # "" THEN q.Host ELSE q.url.host
             tls  == q.url.scheme = "https"
             method == IF q.method = "" THEN "GET" ELSE q.method
             v    == ServerView(q)
  <1>1. /\ q.url # NoURL /\ q.url.scheme # "" /\ q.url.host # ""
        /\ q.Host \in {"", q.url.host} /\ q.method # ""
        /\ q.url.opaque = "" /\ q.url.user = ""
        /\ q.url.scheme \in {"", "http", "https"}
    <2>1. q.url.scheme \in {"", "http", "https"}
      BY DEF Portable, RequestShape
    <2> QED
      BY <2>1 DEF Portable
  <1>2. v = RequestOf(method, ServerURL(q.url), host, tls, q.header, q.trailer)
    BY ServerViewIs, Zenon
  <1> HIDE DEF v
  <1>3. /\ v.kind = "request" /\ v.method = method /\ v.url = ServerURL(q.url)
        /\ v.Host = host /\ v.tls = tls /\ v.header = q.header /\ v.trailer = q.trailer
    <2> HIDE DEF method, host, tls
    <2> QED
      BY <1>2, RequestFields
  <1>4. method = q.method /\ host = q.url.host
    BY <1>1
  <1>5. resolveRequestURL(q) = q.url
    BY <1>1 DEF resolveRequestURL
  <1> DEFINE s == ServerURL(q.url)
             u == resolveRequestURL(v)
             scheme == IF tls THEN "https" ELSE "http"
  <1>6. scheme = q.url.scheme
    BY <1>1
  <1>7. /\ s.scheme = "" /\ s.host = "" /\ s.path = PathOrSlash(q.url)
        /\ s.query = q.url.query /\ s.fragment = ""
    BY <1>1 DEF ServerURL
  <1> HIDE DEF s
  <1>8. /\ u.scheme = (IF v.tls THEN "https" ELSE "http") /\ u.host = v.Host
        /\ u.path = s.path /\ u.query = s.query /\ u.fragment = s.fragment
        /\ u.opaque = "" /\ u.user = "" /\ ~u.forceQuery
    <2>1. u = URLFrom(s, IF v.tls THEN "https" ELSE "http", v.Host)
      BY <1>3, <1>7 DEF resolveRequestURL, s
    <2> HIDE DEF u
    <2> QED
      BY <2>1 DEF URLFrom
  <1> QED
    BY <1>3, <1>4, <1>5, <1>6, <1>7, <1>8 DEF v

\* The client's form of a portable request and the server's give every component
\* the same value.
LEMMA SameAtServer ==
    ASSUME NEW q, RequestShape(q), Portable(q), NEW c, URISafe(c, q)
    PROVE  ExtractHere(ServerView(q), c) = ExtractHere(q, c)
  <1> DEFINE v == ServerView(q)
             w == resolveRequestURL(v)
             u == q.url
  <1>1. /\ v.kind = "request" /\ v.method = q.method /\ v.url = ServerURL(q.url)
        /\ v.header = q.header /\ v.trailer = q.trailer
        /\ resolveRequestURL(q) = u
        /\ w.scheme = u.scheme /\ w.host = u.host
        /\ w.path = PathOrSlash(u) /\ w.query = u.query /\ w.fragment = ""
        /\ w.opaque = "" /\ w.user = "" /\ ~w.forceQuery
    BY ResolvedURL
  <1>2. v.url # NoURL /\ v.url.query = u.query /\ q.url # NoURL /\ q.kind = "request"
    <2>1. q.url # NoURL
      BY DEF Portable
    <2>2. ServerURL(q.url) # NoURL /\ ServerURL(q.url).query = u.query
      BY <2>1 DEF RequestShape, ServerURL
    <2>3. q.kind = "request"
      <3>1. q = RequestOf(q.method, q.url, q.Host, q.tls, q.header, q.trailer)
        BY DEF RequestShape, RequestOf
      <3> QED
        BY <3>1, RequestFields
    <2> QED
      BY <1>1, <2>1, <2>2, <2>3
  <1>3. PathOrSlash(w) = PathOrSlash(u)
    BY <1>1 DEF PathOrSlash
  <1> HIDE DEF v
  <1>4. c.name = "@target-uri" =>
          /\ w.path = u.path /\ u.fragment = "" /\ (u.forceQuery => u.query # <<>>)
          /\ u.opaque = "" /\ u.user = ""
    BY <1>1 DEF URISafe, PathOrSlash, Portable
  <1> HIDE DEF w, u
  <1>5. /\ IsRequest(v) /\ IsRequest(q) /\ ~IsResponse(v) /\ ~IsResponse(q)
    BY <1>1, <1>2 DEF IsRequest, IsResponse
  <1>6. ASSUME c.type = "field" PROVE extractHTTPFieldValue(v, c) = extractHTTPFieldValue(q, c)
    BY <1>1 DEF extractHTTPFieldValue, HeaderValues, TrailerValues
  <1>7. extractMethod(v) = extractMethod(q)
    BY <1>1, <1>5 DEF extractMethod
  <1>8. c.name = "@target-uri" => extractTargetURI(v) = extractTargetURI(q)
    <2> SUFFICES ASSUME c.name = "@target-uri"
                 PROVE  extractTargetURI(v) = extractTargetURI(q)
      OBVIOUS
    <2>1. Hierarchy(w) = Hierarchy(u)
      BY <1>1, <1>4 DEF Hierarchy
    <2>2. QueryPart(w) = QueryPart(u)
      BY <1>1, <1>4 DEF QueryPart
    <2>3. FragmentPart(w) = FragmentPart(u)
      BY <1>1, <1>4 DEF FragmentPart
    <2> QED
      BY <1>1, <1>2, <1>5, <2>1, <2>2, <2>3 DEF extractTargetURI, FromURL, w
  <1>9. extractAuthority(v) = extractAuthority(q) /\ extractScheme(v) = extractScheme(q)
    BY <1>1, <1>2, <1>5 DEF extractAuthority, extractScheme, FromURL, w
  <1>10. extractRequestTarget(v) = extractRequestTarget(q)
    BY <1>1, <1>2, <1>3, <1>5 DEF extractRequestTarget, FromURL, w
  <1>11. extractPath(v) = extractPath(q) /\ extractQuery(v) = extractQuery(q)
    BY <1>1, <1>2, <1>3, <1>5 DEF extractPath, extractQuery, FromURL, w
  <1>12. extractQueryParam(v, c) = extractQueryParam(q, c)
    BY <1>2, <1>5 DEF extractQueryParam, u
  <1>13. extractStatus(v) = extractStatus(q)
    BY <1>5 DEF extractStatus
  <1>14. extractDerivedComponentValue(v, c) = extractDerivedComponentValue(q, c)
    BY <1>7, <1>8, <1>9, <1>10, <1>11, <1>12, <1>13 DEF extractDerivedComponentValue
  <1>15. ExtractHere(v, c) = ExtractHere(q, c)
    BY <1>6, <1>14 DEF ExtractHere
  <1> QED
    BY <1>15 DEF v

-----------------------------------------------------------------------------
(* The scan of a line.                                                     *)

\* The blanks of a fold end at a character that is none, or with the line.
LEMMA BlanksEnd ==
    ASSUME NEW s, Len(s) \in Nat, NEW j \in 1..Len(s)
    PROVE  LET k == SkipBlanks(s, j)
           IN  /\ k \in j..(Len(s) + 1)
               /\ \A m \in j..(k - 1) : s[m] \in Blank
               /\ k <= Len(s) => s[k] \notin Blank
  <1> DEFINE n == Len(s)
             T == {k \in j..n : s[k] \notin Blank} \cup {n + 1}
             Ends(k) == /\ \A m \in j..(k - 1) : s[m] \in Blank
                        /\ k <= n => s[k] \notin Blank
  <1>1. T \subseteq 1..(n + 1) /\ T # {} /\ n + 1 \in Nat
    OBVIOUS
  <1> HIDE DEF T
  <1>2. PICK k \in T : \A m \in T : k <= m
    BY <1>1, FirstPosition
  <1>3. k \in j..(n + 1) /\ Ends(k)
    <2>1. k \in j..(n + 1) /\ (k <= n => s[k] \notin Blank)
      BY DEF T
    <2>2. ASSUME NEW m \in j..(k - 1), s[m] \notin Blank PROVE FALSE
      <3>1. m \in T
        BY <2>1, <2>2 DEF T
      <3> QED
        BY <1>2, <2>1, <2>2, <3>1
    <2> QED
      BY <2>1, <2>2
  <1>4. SkipBlanks(s, j) = CHOOSE x \in j..(n + 1) : Ends(x)
    BY DEF SkipBlanks
  <1> QED
    BY <1>3, <1>4

\* The position of the LF of the newline at i, if it is one.
LFAt(s, i) == IF s[i] = CR THEN i + 1 ELSE i

\* What skipObsFold finds at a newline: no fold, and then a newline that folds
\* nothing; or an LF, blanks, and the next position.
LEMMA FoldAt ==
    ASSUME NEW s, Len(s) \in Nat, NEW i \in 1..Len(s), s[i] \in Newline
    PROVE  LET next == skipObsFold(s, i)
               l    == LFAt(s, i)
           IN  \/ /\ next = 0
                  /\ \/ s[i] = CR /\ (i = Len(s) \/ s[i + 1] # LF)
                     \/ /\ l <= Len(s) /\ s[l] = LF
                        /\ l = Len(s) \/ s[l + 1] \notin Blank
               \/ /\ next \in (l + 2)..(Len(s) + 1)
                  /\ l + 1 <= Len(s) /\ s[l] = LF
                  /\ \A m \in (l + 1)..(next - 1) : s[m] \in Blank
                  /\ next <= Len(s) => s[next] \notin Blank
  <1> DEFINE next == skipObsFold(s, i)
             l    == LFAt(s, i)
             j    == l + 1
             bare == s[i] = CR /\ (i + 1 > Len(s) \/ s[i + 1] # LF)
  <1>1. next = IF bare \/ j > Len(s) \/ s[j] \notin Blank THEN 0 ELSE SkipBlanks(s, j)
    BY DEF skipObsFold, LFAt
  <1>2. l \in i..(i + 1) /\ (s[i] = CR => l = i + 1) /\ (s[i] # CR => l = i /\ s[i] = LF)
    BY DEF LFAt, Newline
  <1> HIDE DEF next, l
  <1>3. CASE bare
    BY <1>1, <1>3 DEF next
  <1>4. CASE ~bare
    <2>1. l <= Len(s) /\ s[l] = LF
      BY <1>2, <1>4
    <2>2. CASE j > Len(s) \/ s[j] \notin Blank
      BY <1>1, <1>2, <2>1, <2>2 DEF next, l
    <2>3. CASE j <= Len(s) /\ s[j] \in Blank
      <3>1. /\ next \in j..(Len(s) + 1)
            /\ \A m \in j..(next - 1) : s[m] \in Blank
            /\ next <= Len(s) => s[next] \notin Blank
        BY <1>1, <1>2, <1>4, <2>3, BlanksEnd
      <3>2. next # j
        BY <2>3, <3>1
      <3>3. next \in (l + 2)..(Len(s) + 1)
        BY <1>2, <2>3, <3>1, <3>2
      <3> QED
        BY <2>1, <2>3, <3>1, <3>3 DEF next, l
    <2> QED
      BY <1>2, <2>2, <2>3
  <1> QED
    BY <1>3, <1>4

\* The scan at position i, with f[k] what it returns from k on.
ScanStep(s, i, f) ==
    IF i > Len(s) THEN <<>>
    ELSE IF s[i] \notin Newline THEN Prepend(s[i], f[i + 1])
    ELSE IF skipObsFold(s, i) = 0 THEN Invalid
    ELSE Prepend(SP, f[skipObsFold(s, i)])

Scans(f, s) == \A i \in 1..(Len(s) + 1) : f[i] = ScanStep(s, i, f)

\* It looks at later positions only.
LEMMA ScanLooksAhead ==
    ASSUME NEW s, Len(s) \in Nat, NEW i \in 1..(Len(s) + 1), NEW f, NEW g,
           \A k \in (i + 1)..(Len(s) + 1) : f[k] = g[k]
    PROVE  ScanStep(s, i, f) = ScanStep(s, i, g)
  <1>1. CASE i = Len(s) + 1
    BY <1>1 DEF ScanStep
  <1>2. CASE i \in 1..Len(s) /\ s[i] \notin Newline
    BY <1>2 DEF ScanStep
  <1>3. CASE i \in 1..Len(s) /\ s[i] \in Newline
    <2>1. skipObsFold(s, i) = 0 \/ skipObsFold(s, i) \in (i + 1)..(Len(s) + 1)
      BY <1>3, FoldAt DEF LFAt
    <2> QED
      BY <1>3, <2>1 DEF ScanStep
  <1> QED
    BY <1>1, <1>2, <1>3

\* It gets through every line.
LEMMA ScanSteps ==
    ASSUME NEW s, Len(s) \in Nat
    PROVE  \E f : Scans(f, s) /\ normalizeLineFolding(s) = f[1]
  <1> DEFINE N       == Len(s) + 1
             F(f, m) == [i \in m..N |-> ScanStep(s, i, f)]
             scan    == CHOOSE f : f = F(f, 1)
             good    == {m \in 1..N : \E f : f = F(f, m)}
  <1>1. normalizeLineFolding(s) = scan[1]
    <2>1. normalizeLineFolding(s) =
            (CHOOSE f : f = [i \in 1..(Len(s) + 1) |-> ScanStep(s, i, f)])[1]
      BY DEF normalizeLineFolding, ScanStep
    <2> QED
      BY <2>1
  <1>2. N \in good
    <2> DEFINE g == [i \in N..N |-> <<>>]
    <2>1. \A i \in N..N : ScanStep(s, i, g) = <<>>
      BY DEF ScanStep
    <2>2. g = F(g, N)
      <3> HIDE DEF g
      <3>1. g = [i \in N..N |-> <<>>]
        BY DEF g
      <3> QED
        BY <2>1, <3>1
    <2>3. N \in 1..N
      OBVIOUS
    <2> HIDE DEF g, F, N
    <2> QED
      BY <2>2, <2>3
  <1>3. ASSUME NEW m \in good, m # 1 PROVE m - 1 \in good
    <2>1. m \in 2..N
      BY <1>3
    <2>2. PICK f : f = F(f, m)
      BY <1>3
    <2> DEFINE g == [i \in (m - 1)..N |-> IF i = m - 1 THEN ScanStep(s, m - 1, f) ELSE f[i]]
    <2>3. \A i \in m..N : f[i] = ScanStep(s, i, f)
      BY <2>2
    <2>4. \A i \in m..N : g[i] = f[i]
      BY <2>1
    <2>5. \A i \in (m - 1)..N : g[i] = ScanStep(s, i, f)
      <3>1. g[m - 1] = ScanStep(s, m - 1, f)
        BY <2>1
      <3> HIDE DEF g
      <3> QED
        BY <2>1, <2>3, <2>4, <3>1
    <2>6. g = [i \in (m - 1)..N |-> g[i]]
      OBVIOUS
    <2> HIDE DEF g
    <2>7. \A i \in (m - 1)..N : ScanStep(s, i, f) = ScanStep(s, i, g)
      <3>1. ASSUME NEW i \in (m - 1)..N PROVE ScanStep(s, i, f) = ScanStep(s, i, g)
        <4>1. i \in 1..(Len(s) + 1) /\ \A k \in (i + 1)..(Len(s) + 1) : f[k] = g[k]
          BY <2>1, <2>4
        <4> QED
          BY <4>1, ScanLooksAhead
      <3> QED
        BY <3>1
    <2>8. g = F(g, m - 1)
      BY <2>5, <2>6, <2>7
    <2> QED
      BY <2>1, <2>8
  <1>4. 1 \in good
    <2>1. good \subseteq 1..N /\ N \in Nat
      OBVIOUS
    <2> HIDE DEF good
    <2>2. PICK m \in good : \A k \in good : m <= k
      BY <1>2, <2>1, FirstPosition
    <2> QED
      BY <1>3, <2>1, <2>2
  <1>5. scan = F(scan, 1)
    <2>1. \E f : f = F(f, 1)
      BY <1>4
    <2> HIDE DEF F
    <2> QED
      BY <2>1
  <1> HIDE DEF scan
  <1>6. Scans(scan, s)
    BY <1>5 DEF Scans
  <1> QED
    BY <1>1, <1>6

LEMMA Prepended ==
    ASSUME NEW T, NEW c \in T, NEW x \in Seq(T), x # Invalid
    PROVE  /\ Prepend(c, x) \in Seq(T) /\ Len(Prepend(c, x)) = Len(x) + 1
           /\ Prepend(c, x)[1] = c
           /\ \A p \in 1..Len(x) : Prepend(c, x)[p + 1] = x[p]
  <1>1. Prepend(c, x) = <<c>> \o x
    BY DEF Prepend
  <1>2. /\ <<c>> \o x \in Seq(T) /\ Len(<<c>> \o x) = Len(x) + 1
        /\ (<<c>> \o x)[1] = c
        /\ \A p \in 1..Len(x) : (<<c>> \o x)[p + 1] = x[p]
    OBVIOUS
  <1> QED
    BY <1>1, <1>2

\* A line that unfolds at all unfolds to what is visible on it, and to blanks.
Unfolding(s, S, t) ==
    /\ t \in Seq((S \ Newline) \cup {SP})
    /\ \A k \in 1..Len(s) : s[k] \notin Blank \cup Newline =>
         \E p \in 1..Len(t) : t[p] = s[k]

LEMMA LineUnfolds ==
    ASSUME NEW S, NEW s \in Seq(S), normalizeLineFolding(s) # Invalid
    PROVE  Unfolding(s, S, normalizeLineFolding(s))
  <1> DEFINE n == Len(s)
             T == (S \ Newline) \cup {SP}
             Shown(t, i) == \A k \in i..n : s[k] \notin Blank \cup Newline =>
                              \E p \in 1..Len(t) : t[p] = s[k]
  <1>1. n \in Nat /\ \A i \in 1..n : s[i] \in S
    OBVIOUS
  <1>2. PICK f : Scans(f, s) /\ normalizeLineFolding(s) = f[1]
    BY <1>1, ScanSteps
  <1> DEFINE Good(i) == f[i] = Invalid \/ (f[i] \in Seq(T) /\ Shown(f[i], i))
             wrong   == {i \in 1..(n + 1) : ~Good(i)}
  <1> HIDE DEF T
  <1>3. ASSUME NEW i \in 1..n, NEW c \in T, NEW next \in (i + 1)..(n + 1), Good(next),
               f[i] = Prepend(c, f[next]),
               \A k \in i..(next - 1) : s[k] \notin Blank \cup Newline => s[k] = c
        PROVE  Good(i)
    <2>1. CASE f[next] = Invalid
      BY <1>3, <2>1 DEF Prepend
    <2>2. CASE f[next] # Invalid
      <3> DEFINE x == f[next]
                 y == f[i]
      <3>1. x \in Seq(T) /\ x # Invalid /\ Shown(x, next)
        BY <1>3, <2>2
      <3>2. /\ y \in Seq(T) /\ Len(y) = Len(x) + 1 /\ y[1] = c
            /\ \A p \in 1..Len(x) : y[p + 1] = x[p]
        BY <1>3, <3>1, Prepended
      <3> HIDE DEF x, y
      <3>3. ASSUME NEW k \in i..n, s[k] \notin Blank \cup Newline
            PROVE  \E p \in 1..Len(y) : y[p] = s[k]
        <4>1. CASE k \in i..(next - 1)
          BY <1>3, <3>1, <3>2, <3>3, <4>1
        <4>2. CASE k \in next..n
          <5>1. PICK p \in 1..Len(x) : x[p] = s[k]
            BY <3>1, <3>3, <4>2
          <5>2. p + 1 \in 1..Len(y) /\ y[p + 1] = s[k]
            BY <3>1, <3>2, <5>1
          <5> QED
            BY <5>2
        <4> QED
          BY <1>3, <4>1, <4>2
      <3> QED
        BY <3>2, <3>3 DEF y
    <2> QED
      BY <2>1, <2>2
  <1>4. ASSUME NEW i \in 1..(n + 1), \A j \in (i + 1)..(n + 1) : Good(j)
        PROVE  Good(i)
    <2>1. f[i] = ScanStep(s, i, f)
      BY <1>2 DEF Scans
    <2>2. CASE i = n + 1
      <3>1. f[i] = <<>>
        BY <1>1, <2>1, <2>2 DEF ScanStep
      <3> QED
        BY <1>1, <2>2, <3>1
    <2>3. CASE i \in 1..n /\ s[i] \notin Newline
      <3>1. f[i] = Prepend(s[i], f[i + 1]) /\ s[i] \in T
        BY <1>1, <2>1, <2>3 DEF ScanStep, T
      <3>2. i + 1 \in (i + 1)..(n + 1) /\ \A k \in i..((i + 1) - 1) : k = i
        BY <1>1, <2>3
      <3>3. Good(i + 1)
        BY <1>4, <3>2
      <3> HIDE DEF Good
      <3> QED
        BY <1>3, <2>3, <3>1, <3>2, <3>3
    <2>4. CASE i \in 1..n /\ s[i] \in Newline
      <3> DEFINE next == skipObsFold(s, i)
                 l    == LFAt(s, i)
      <3>1. CASE next = 0
        BY <1>1, <2>1, <2>4, <3>1 DEF ScanStep
      <3>2. CASE next # 0
        <4>1. /\ next \in (l + 2)..(n + 1) /\ l + 1 <= n /\ s[l] = LF
              /\ \A m \in (l + 1)..(next - 1) : s[m] \in Blank
          BY <1>1, <2>4, <3>2, FoldAt
        <4>2. l \in i..(i + 1)
          BY <2>4 DEF LFAt
        <4>3. f[i] = Prepend(SP, f[next]) /\ SP \in T
          BY <1>1, <2>1, <2>4, <3>2 DEF ScanStep, T
        <4> HIDE DEF next, l
        <4>4. \A k \in i..(next - 1) : s[k] \in Blank \cup Newline
          <5>1. ASSUME NEW k \in i..(next - 1) PROVE k = i \/ k = l \/ k \in (l + 1)..(next - 1)
            BY <1>1, <4>1, <4>2
          <5> QED
            BY <2>4, <4>1, <5>1 DEF Newline
        <4>5. next \in (i + 1)..(n + 1)
          BY <1>1, <2>4, <4>1, <4>2
        <4>6. Good(next)
          BY <1>4, <4>5
        <4> HIDE DEF Good
        <4> QED
          BY <1>3, <2>4, <4>3, <4>4, <4>5, <4>6
      <3> QED
        BY <3>1, <3>2
    <2> QED
      BY <1>1, <2>2, <2>3, <2>4
  <1>5. wrong = {}
    <2> SUFFICES ASSUME wrong # {} PROVE FALSE
      OBVIOUS
    <2>1. wrong \subseteq 1..(n + 1) /\ n + 1 \in Nat
      BY <1>1
    <2> HIDE DEF wrong
    <2>2. PICK i \in wrong : \A j \in wrong : j <= i
      BY <2>1, LastPosition
    <2>3. \A j \in (i + 1)..(n + 1) : Good(j)
      <3>1. ASSUME NEW j \in (i + 1)..(n + 1), ~Good(j) PROVE FALSE
        <4>1. j \in 1..(n + 1)
          BY <1>1, <2>1
        <4>2. j \in wrong
          BY <3>1, <4>1 DEF wrong
        <4> QED
          BY <1>1, <2>1, <2>2, <4>2
      <3> QED
        BY <3>1
    <2> HIDE DEF Good
    <2> QED
      BY <1>4, <2>1, <2>2, <2>3 DEF wrong
  <1>6. Good(1)
    <2> HIDE DEF Good
    <2> QED
      BY <1>1, <1>5
  <1> QED
    BY <1>1, <1>2, <1>6 DEF Unfolding, T

-----------------------------------------------------------------------------
(* The lines of a field.                                                   *)

\* A line with something visible on both ends.
Solid(s) == Len(s) > 0 /\ s[1] \notin Blank /\ s[Len(s)] \notin Blank

LEMMA TrimmedEnds ==
    ASSUME NEW S, NEW s \in Seq(S)
    PROVE  /\ TrimSpace(s) \in Seq(S)
           /\ (\E i \in 1..Len(s) : s[i] \notin Blank) => Solid(TrimSpace(s))
  <1> DEFINE solid == {i \in 1..Len(s) : s[i] \notin Blank}
             a     == CHOOSE i \in solid : \A j \in solid : i <= j
             b     == CHOOSE i \in solid : \A j \in solid : i >= j
  <1>1. TrimSpace(s) = IF solid = {} THEN <<>> ELSE SubSeq(s, a, b)
    BY DEF TrimSpace
  <1>2. CASE solid = {}
    BY <1>1, <1>2
  <1>3. CASE solid # {}
    <2>1. solid \subseteq 1..Len(s) /\ Len(s) \in Nat /\ \A i \in solid : s[i] \notin Blank
      OBVIOUS
    <2> HIDE DEF solid
    <2>2. a \in solid /\ \A j \in solid : a <= j
      <3>1. \E i \in solid : \A j \in solid : i <= j
        BY <1>3, <2>1, FirstPosition
      <3> QED
        BY <3>1
    <2>3. b \in solid /\ \A j \in solid : b >= j
      <3>1. \E i \in solid : \A j \in solid : j <= i
        BY <1>3, <2>1, LastPosition
      <3>2. \E i \in solid : \A j \in solid : i >= j
        BY <2>1, <3>1
      <3> QED
        BY <3>2
    <2> HIDE DEF a, b
    <2>4. a \in 1..Len(s) /\ b \in 1..Len(s) /\ a <= b
      BY <2>1, <2>2, <2>3
    <2> DEFINE t == SubSeq(s, a, b)
    <2>5. /\ t \in Seq(S) /\ Len(t) = b - a + 1
          /\ t[1] = s[a] /\ t[b - a + 1] = s[b]
      BY <2>4
    <2>6. Solid(t)
      BY <2>1, <2>2, <2>3, <2>4, <2>5 DEF Solid
    <2> QED
      BY <1>1, <1>3, <2>5, <2>6
  <1> QED
    BY <1>2, <1>3

\* A line put after another one, with or without a separator.
LEMMA SeparatedEnds ==
    ASSUME NEW U, NEW x \in Seq(U), NEW sep \in Seq(U), NEW y \in Seq(U)
    PROVE  /\ x \o sep \o y \in Seq(U)
           /\ Solid(y) /\ (Solid(x) \/ (x = <<>> /\ sep = <<>>)) => Solid(x \o sep \o y)
  <1> DEFINE w == x \o sep
             z == w \o y
  <1>1. /\ w \in Seq(U) /\ Len(w) = Len(x) + Len(sep)
        /\ Len(x) > 0 => w[1] = x[1]
    OBVIOUS
  <1>2. Len(x) \in Nat /\ Len(sep) \in Nat /\ Len(y) \in Nat /\ Len(<<>>) = 0
    OBVIOUS
  <1> HIDE DEF w
  <1>3. /\ z \in Seq(U) /\ Len(z) = Len(w) + Len(y)
        /\ Len(w) > 0 => z[1] = w[1]
        /\ Len(w) = 0 /\ Len(y) > 0 => z[1] = y[1]
        /\ Len(y) > 0 => z[Len(z)] = y[Len(y)]
    <2>1. w \in Seq(U)
      BY <1>1
    <2>2. /\ z \in Seq(U) /\ Len(z) = Len(w) + Len(y)
          /\ \A i \in 1..Len(w) : z[i] = w[i]
          /\ \A i \in (Len(w) + 1)..(Len(w) + Len(y)) : z[i] = y[i - Len(w)]
      BY <2>1
    <2>3. Len(w) \in Nat /\ Len(y) \in Nat
      BY <2>1
    <2> HIDE DEF z
    <2>4. Len(w) > 0 => z[1] = w[1]
      BY ONLY <2>2, <2>3
    <2>5. Len(w) = 0 /\ Len(y) > 0 => z[1] = y[1]
      BY ONLY <2>2, <2>3
    <2>6. Len(y) > 0 => z[Len(z)] = y[Len(y)]
      BY ONLY <2>2, <2>3
    <2> QED
      BY <2>2, <2>4, <2>5, <2>6
  <1> HIDE DEF z
  <1>4. Solid(y) /\ Solid(x) => Solid(z)
    BY <1>1, <1>2, <1>3 DEF Solid
  <1>5. Solid(y) /\ x = <<>> /\ sep = <<>> => Solid(z)
    BY <1>1, <1>2, <1>3 DEF Solid
  <1>6. z = x \o sep \o y
    BY DEF z, w
  <1> QED
    BY <1>3, <1>4, <1>5, <1>6

Separator == <<",", SP>>
LinesOver(v, U) == Len(v) \in Nat /\ \A i \in 1..Len(v) : v[i] \in Seq(U)

\* Joined lines that are solid make a solid line.
LEMMA JoinedEnds ==
    ASSUME NEW U, Separator \in Seq(U), NEW v, LinesOver(v, U)
    PROVE  /\ JoinComma(v) \in Seq(U)
           /\ Len(v) > 0 /\ (\A i \in 1..Len(v) : Solid(v[i])) => Solid(JoinComma(v))
  <1> DEFINE N == Len(v)
  <1>0. N \in Nat
    BY DEF LinesOver
  <1>1. PICK f : Joins(f, v) /\ JoinComma(v) = f[N]
    BY <1>0, JoinSteps
  <1> HIDE DEF N
  <1> DEFINE Good(n) == /\ f[n] \in Seq(U)
                        /\ (\A i \in 1..N : Solid(v[i])) => Solid(f[n])
             wrong   == {n \in 1..N : ~Good(n)}
  <1>2. f[0] = <<>> /\ <<>> \in Seq(U)
    <2>1. f[0] = <<>>
      BY <1>1, Zenon DEF Joins
    <2> QED
      BY <2>1
  <1>4. ASSUME NEW n \in 1..N, n = 1 \/ Good(n - 1) PROVE Good(n)
    <2> DEFINE sep == IF n = 1 THEN <<>> ELSE Separator
               x   == f[n - 1]
               y   == v[n]
    <2>1. f[n] = x \o sep \o y
      BY <1>1 DEF Joins, N, Separator
    <2>2. x \in Seq(U) /\ y \in Seq(U) /\ sep \in Seq(U)
      <3>1. x \in Seq(U)
        <4>1. n = 1 => x = f[0]
          OBVIOUS
        <4> QED
          BY <1>2, <1>4, <4>1
      <3>2. y \in Seq(U)
        BY DEF LinesOver, N
      <3> QED
        BY <1>2, <3>1, <3>2
    <2>3. ASSUME \A i \in 1..N : Solid(v[i])
          PROVE  Solid(y) /\ (Solid(x) \/ (x = <<>> /\ sep = <<>>))
      <3>1. CASE n = 1
        BY <1>2, <2>3, <3>1
      <3>2. CASE n # 1
        <4>1. Good(n - 1)
          BY <1>4, <3>2
        <4>2. Solid(f[n - 1])
          BY ONLY <2>3, <4>1
        <4>3. Solid(v[n])
          BY <2>3
        <4> QED
          BY ONLY <4>2, <4>3
      <3> QED
        BY <3>1, <3>2
    <2> HIDE DEF sep, x, y
    <2>4. /\ x \o sep \o y \in Seq(U)
          /\ Solid(y) /\ (Solid(x) \/ (x = <<>> /\ sep = <<>>)) => Solid(x \o sep \o y)
      BY <2>2, SeparatedEnds
    <2> QED
      BY <2>1, <2>3, <2>4
  <1> HIDE DEF Good
  <1>5. wrong = {}
    <2> SUFFICES ASSUME wrong # {} PROVE FALSE
      OBVIOUS
    <2>1. wrong \subseteq 1..N /\ N \in Nat
      BY <1>0
    <2>2. \A n \in wrong : n \in 1..N /\ ~Good(n)
      OBVIOUS
    <2>3. \A n \in 1..N : n \notin wrong => Good(n)
      OBVIOUS
    <2> HIDE DEF wrong
    <2>4. PICK n \in wrong : \A m \in wrong : n <= m
      BY <2>1, FirstPosition
    <2>5. n \in 1..N /\ ~Good(n)
      BY <2>2
    <2>6. n = 1 \/ Good(n - 1)
      <3>1. n # 1 => n - 1 \in 1..N /\ ~(n <= n - 1)
        BY <2>1, <2>5
      <3>2. n # 1 => n - 1 \notin wrong
        BY <2>4, <3>1
      <3> QED
        BY <2>3, <3>1, <3>2
    <2> QED
      BY <1>4, <2>5, <2>6
  <1>6. CASE N = 0
    <2>1. JoinComma(v) = <<>>
      BY <1>1, <1>2, <1>6
    <2>2. ~(Len(v) > 0)
      BY <1>6 DEF N
    <2> QED
      BY <1>2, <2>1, <2>2
  <1>7. CASE N > 0
    <2>1. Good(N)
      BY <1>0, <1>5, <1>7
    <2> QED
      BY <1>1, <1>7, <2>1 DEF Good, N
  <1> QED
    BY <1>0, <1>6, <1>7

\* canonicalizeFieldValues of lines over S: blanks and commas are added, newlines
\* do not remain.
Canonical(S) == (S \ Newline) \cup {SP, ","}

LEMMA CanonicalEnds ==
    ASSUME NEW S, NEW v \in Seq(Seq(S)), canonicalizeFieldValues(v) # Invalid
    PROVE  /\ canonicalizeFieldValues(v) \in Seq(Canonical(S))
           /\ /\ v # <<>>
              /\ \A i \in 1..Len(v) : \E k \in 1..Len(v[i]) : v[i][k] \notin Blank \cup Newline
              => Solid(canonicalizeFieldValues(v))
  <1> DEFINE normalized == [i \in 1..Len(v) |-> normalizeLineFolding(v[i])]
             trimmed    == [i \in 1..Len(v) |-> TrimSpace(normalized[i])]
  <1>1. /\ Len(v) \in Nat /\ \A i \in 1..Len(v) : v[i] \in Seq(S)
        /\ v # <<>> => Len(v) > 0
    OBVIOUS
  <1>2. /\ canonicalizeFieldValues(v) = JoinComma(trimmed)
        /\ \A i \in 1..Len(v) : normalized[i] # Invalid
    <2>1. canonicalizeFieldValues(v) =
            IF \E i \in 1..Len(v) : normalized[i] = Invalid THEN Invalid ELSE JoinComma(trimmed)
      BY DEF canonicalizeFieldValues
    <2> HIDE DEF normalized, trimmed
    <2> QED
      BY <2>1
  <1>3. Len(trimmed) = Len(v)
    BY <1>1, LenOf
  <1>4. ASSUME NEW i \in 1..Len(v)
        PROVE  /\ trimmed[i] \in Seq(Canonical(S))
               /\ (\E k \in 1..Len(v[i]) : v[i][k] \notin Blank \cup Newline)
                    => Solid(trimmed[i])
    <2> DEFINE s == v[i]
               t == normalizeLineFolding(s)
    <2>1. t # Invalid /\ s \in Seq(S)
      BY <1>1, <1>2
    <2>2. Unfolding(s, S, t)
      BY <2>1, LineUnfolds
    <2>3. trimmed[i] = TrimSpace(t)
      OBVIOUS
    <2> HIDE DEF trimmed, s, t
    <2>4. t \in Seq(Canonical(S))
      <3>1. (S \ Newline) \cup {SP} \subseteq Canonical(S)
        BY DEF Canonical
      <3>2. \A T, U : T \subseteq U => Seq(T) \subseteq Seq(U)
        OBVIOUS
      <3> QED
        BY <2>2, <3>1, <3>2 DEF Unfolding
    <2>5. (\E k \in 1..Len(s) : s[k] \notin Blank \cup Newline) => \E p \in 1..Len(t) : t[p] \notin Blank
      BY <2>2 DEF Unfolding
    <2> QED
      BY <2>3, <2>4, <2>5, TrimmedEnds DEF s
  <1> HIDE DEF trimmed
  <1>5. Separator \in Seq(Canonical(S))
    <2>1. \A a, b, U : a \in U /\ b \in U => <<a, b>> \in Seq(U)
      OBVIOUS
    <2>2. SP \in Canonical(S) /\ "," \in Canonical(S)
      BY DEF Canonical
    <2> QED
      BY <2>1, <2>2, Zenon DEF Separator
  <1>6. LinesOver(trimmed, Canonical(S))
    BY <1>1, <1>3, <1>4 DEF LinesOver
  <1> QED
    BY <1>1, <1>2, <1>3, <1>4, <1>5, <1>6, JoinedEnds

\* canonicalizeFieldValues leaves what it made: the value of visible lines, put on
\* one line, has itself for its value.
LEMMA CanonicalAgain ==
    ASSUME NEW S, "invalid" \notin S, NEW v \in Seq(Seq(S)), v # <<>>,
           canonicalizeFieldValues(v) # Invalid,
           \A i \in 1..Len(v) : \E k \in 1..Len(v[i]) : v[i][k] \notin Blank \cup Newline
    PROVE  canonicalizeFieldValues(<<canonicalizeFieldValues(v)>>) = canonicalizeFieldValues(v)
  <1> DEFINE once == canonicalizeFieldValues(v)
  <1>1. once \in Seq(Canonical(S)) /\ Solid(once)
    BY CanonicalEnds
  <1>2. Canonical(S) \cap Newline = {} /\ "invalid" \notin Canonical(S)
    BY DEF Canonical, Newline, SP, CR, LF
  <1> HIDE DEF once
  <1>3. canonicalizeFieldValues(<<once>>) = once
    BY <1>1, <1>2, CanonicalOne DEF Solid
  <1> QED
    BY <1>3 DEF once

-----------------------------------------------------------------------------
(* Concatenation of a list of texts.                                        *)

\* FlattenSeq over v, with h[n] the first n sequences in one.
Flattens(h, v) ==
    /\ h[0] = <<>>
    /\ \A n \in 1..Len(v) : h[n] = h[n - 1] \o v[n]

LEMMA FlatSteps ==
    ASSUME NEW T, NEW v \in Seq(Seq(T))
    PROVE  \E h : /\ Flattens(h, v) /\ FlattenSeq(v) = h[Len(v)]
                  /\ \A n \in 0..Len(v) : h[n] \in Seq(T)
  <1> DEFINE N       == Len(v)
             Next(n, t) == IF n = 1 THEN v[n] ELSE t \o v[n]
             F(f, m) == [n \in 1..m |-> Next(n, f[n - 1])]
             flat    == CHOOSE f : f = F(f, N)
             good    == {m \in 1..(N + 1) : \E f : f = F(f, m - 1)}
  <1>1. N \in Nat /\ \A n \in 1..N : v[n] \in Seq(T)
    OBVIOUS
  <1>2. FlattenSeq(v) = IF N = 0 THEN v ELSE flat[N]
    BY DEF FlattenSeq
  <1> HIDE DEF N, Next
  <1>3. 1 \in good
    <2> DEFINE g == [n \in 1..0 |-> <<>>]
    <2>1. g = [n \in 1..0 |-> Next(n, g[n - 1])]
      OBVIOUS
    <2>2. 1 - 1 = 0 /\ 1 \in 1..(N + 1)
      BY <1>1
    <2> HIDE DEF g
    <2>3. g = F(g, 1 - 1)
      BY <2>1, <2>2
    <2> QED
      BY <2>2, <2>3
  <1>4. ASSUME NEW m \in good, m # N + 1 PROVE m + 1 \in good
    <2>1. m \in 1..N
      BY <1>1, <1>4
    <2>2. PICK f : f = F(f, m - 1)
      BY <1>4
    <2> DEFINE g == [n \in 1..m |-> IF n = m THEN Next(m, f[m - 1]) ELSE f[n]]
    <2>3. \A n \in 1..(m - 1) : f[n] = Next(n, f[n - 1])
      BY <2>2
    <2>4. \A n \in 1..(m - 1) : g[n] = f[n]
      BY <1>1, <2>1
    <2>5. g[m] = Next(m, f[m - 1])
      BY <1>1, <2>1
    <2>6. g = [n \in 1..m |-> g[n]]
      OBVIOUS
    <2> HIDE DEF g
    <2>7. ASSUME NEW n \in 1..m PROVE g[n] = Next(n, g[n - 1])
      <3>1. CASE n = 1
        <4>1. g[n] = Next(n, f[n - 1])
          BY <1>1, <2>1, <2>3, <2>4, <2>5, <3>1
        <4> QED
          BY <3>1, <4>1 DEF Next
      <3>2. CASE n # 1
        <4>1. n - 1 \in 1..(m - 1)
          BY <1>1, <2>1, <3>2
        <4>2. g[n - 1] = f[n - 1]
          BY <2>4, <4>1
        <4> QED
          BY <1>1, <2>1, <2>3, <2>4, <2>5, <4>2
      <3> QED
        BY <3>1, <3>2
    <2>8. g = F(g, m)
      BY <2>6, <2>7
    <2>9. (m + 1) - 1 = m /\ m + 1 \in 1..(N + 1)
      BY <1>1, <2>1
    <2> HIDE DEF F
    <2> QED
      BY <2>8, <2>9
  <1>5. N + 1 \in good
    <2>1. good \subseteq 1..(N + 1) /\ N + 1 \in Nat
      BY <1>1
    <2> HIDE DEF good
    <2>2. PICK m \in good : \A k \in good : k <= m
      BY <1>3, <2>1, LastPosition
    <2> QED
      BY <1>1, <1>4, <2>1, <2>2
  <1>6. flat = F(flat, N)
    <2>1. (N + 1) - 1 = N
      BY <1>1
    <2> HIDE DEF F
    <2>2. \E f : f = F(f, N)
      BY <1>5, <2>1
    <2> QED
      BY <2>2
  <1> HIDE DEF flat, good
  <1>7. \A n \in 1..N : flat[n] = Next(n, flat[n - 1])
    BY <1>6
  <1> DEFINE h == [n \in 0..N |-> IF n = 0 THEN <<>> ELSE flat[n]]
  <1>8. /\ h[0] = <<>> /\ \A n \in 1..N : h[n] = flat[n]
        /\ \A n \in 2..N : h[n - 1] = flat[n - 1]
    BY <1>1
  <1> HIDE DEF h, F
  <1> DEFINE Good(n) == h[n] = h[n - 1] \o v[n] /\ h[n] \in Seq(T)
             wrong   == {n \in 1..N : ~Good(n)}
  <1>9. ASSUME NEW n \in 1..N, n = 1 \/ h[n - 1] \in Seq(T) PROVE Good(n)
    <2>1. CASE n = 1
      <3>1. h[n] = v[n] /\ h[n - 1] = <<>> /\ v[n] \in Seq(T)
        BY <1>1, <1>7, <1>8, <2>1 DEF Next
      <3>2. <<>> \o v[n] = v[n]
        BY <3>1
      <3> QED
        BY <3>1, <3>2
    <2>2. CASE n # 1
      <3>1. n \in 2..N
        BY <1>1, <2>2
      <3>2. h[n] = h[n - 1] \o v[n]
        BY <1>7, <1>8, <2>2, <3>1 DEF Next
      <3>3. h[n - 1] \in Seq(T) /\ v[n] \in Seq(T)
        BY <1>1, <1>9, <2>2
      <3>4. h[n - 1] \o v[n] \in Seq(T)
        BY <3>3
      <3> QED
        BY <3>2, <3>4
    <2> QED
      BY <2>1, <2>2
  <1>10. wrong = {}
    <2> SUFFICES ASSUME wrong # {} PROVE FALSE
      OBVIOUS
    <2>1. /\ wrong \subseteq 1..N
          /\ \A n \in wrong : n \in 1..N /\ ~Good(n)
          /\ \A n \in 1..N : n \notin wrong => Good(n)
      OBVIOUS
    <2> HIDE DEF wrong
    <2>2. PICK n \in wrong : \A m \in wrong : n <= m
      BY <1>1, <2>1, FirstPosition
    <2>3. n \in 1..N /\ ~Good(n)
      BY <2>1
    <2>4. n # 1 => n - 1 \in 1..N /\ n - 1 \notin wrong
      BY <1>1, <2>2, <2>3
    <2>5. n # 1 => Good(n - 1)
      BY <2>1, <2>4
    <2> QED
      BY <1>9, <2>3, <2>5
  <1>11. \A n \in 0..N : h[n] \in Seq(T)
    <2>1. \A n \in 1..N : h[n] \in Seq(T)
      BY <1>10
    <2>2. h[0] \in Seq(T)
      BY <1>8
    <2> QED
      BY <1>1, <2>1, <2>2
  <1>12. FlattenSeq(v) = h[N]
    <2>1. CASE N = 0
      <3>1. v = <<>>
        BY <2>1 DEF N
      <3> QED
        BY <1>2, <1>8, <2>1, <3>1
    <2>2. CASE N # 0
      BY <1>1, <1>2, <1>8, <2>2
    <2> QED
      BY <2>1, <2>2
  <1>13. Flattens(h, v)
    BY <1>8, <1>10 DEF Flattens, N
  <1> QED
    BY <1>11, <1>12, <1>13 DEF N

-----------------------------------------------------------------------------
(* What a signature base says.                                             *)

\* Piece i is in the whole at the place where the pieces before it end.
PieceAt(h, v, i) ==
    /\ Len(h[i]) = Len(h[i - 1]) + Len(v[i])
    /\ \A k \in 1..Len(v[i]) : h[Len(v)][Len(h[i - 1]) + k] = v[i][k]

\* Every piece is.
LEMMA PiecesPlaced ==
    ASSUME NEW T, NEW v \in Seq(Seq(T)), NEW h, Flattens(h, v),
           \A n \in 0..Len(v) : h[n] \in Seq(T), NEW i \in 1..Len(v)
    PROVE  PieceAt(h, v, i)
  <1> DEFINE N == Len(v)
             Begins(a, b) == Len(a) <= Len(b) /\ \A k \in 1..Len(a) : b[k] = a[k]
             wrong == {n \in 1..N : ~Begins(h[n], h[N])}
  <1>1. N \in Nat /\ wrong \subseteq 1..N
    OBVIOUS
  <1>2. ASSUME NEW n \in 1..N
        PROVE  /\ h[n] = h[n - 1] \o v[n] /\ h[n - 1] \in Seq(T) /\ v[n] \in Seq(T)
               /\ h[n] \in Seq(T)
    <2>1. n \in 0..N /\ n - 1 \in 0..N
      BY <1>1
    <2>2. h[n] = h[n - 1] \o v[n]
      BY Zenon DEF Flattens
    <2> QED
      BY <1>1, <2>1, <2>2
  <1>3. ASSUME NEW n \in 1..N
        PROVE  /\ Len(h[n]) = Len(h[n - 1]) + Len(v[n]) /\ Begins(h[n - 1], h[n])
               /\ \A k \in 1..Len(v[n]) : h[n][Len(h[n - 1]) + k] = v[n][k]
    <2> DEFINE a == h[n - 1]
               c == v[n]
               b == h[n]
    <2>1. a \in Seq(T) /\ c \in Seq(T) /\ b = a \o c
      BY <1>2
    <2> HIDE DEF a, b, c
    <2>2. /\ Len(b) = Len(a) + Len(c) /\ Begins(a, b)
          /\ \A k \in 1..Len(c) : b[Len(a) + k] = c[k]
      BY ONLY <2>1
    <2> QED
      BY <2>2 DEF a, b, c
  <1>4. wrong = {}
    <2> SUFFICES ASSUME wrong # {} PROVE FALSE
      OBVIOUS
    <2>1. \A n \in 1..N : n \in wrong <=> ~Begins(h[n], h[N])
      OBVIOUS
    <2> HIDE DEF wrong
    <2>2. PICK n \in wrong : \A m \in wrong : m <= n
      BY <1>1, LastPosition
    <2>3. n \in 1..N /\ ~Begins(h[n], h[N])
      BY <1>1, <2>1
    <2>4. n # N
      BY <1>2, <2>3
    <2>5. n + 1 \in 1..N /\ (n + 1) - 1 = n /\ n + 1 \notin wrong
      BY <1>1, <2>2, <2>3, <2>4
    <2>6. Begins(h[n], h[n + 1]) /\ Begins(h[n + 1], h[N])
      <3>1. Begins(h[(n + 1) - 1], h[n + 1])
        BY <1>3, <2>5
      <3> HIDE DEF Begins
      <3>2. Begins(h[n + 1], h[N])
        BY <2>1, <2>5
      <3> QED
        BY <2>5, <3>1, <3>2
    <2>7. h[n] \in Seq(T) /\ h[n + 1] \in Seq(T) /\ h[N] \in Seq(T)
      BY <1>1, <1>2, <2>3, <2>5
    <2> DEFINE a == h[n]
               b == h[n + 1]
               c == h[N]
    <2>8. /\ a \in Seq(T) /\ b \in Seq(T) /\ c \in Seq(T)
          /\ Begins(a, b) /\ Begins(b, c) /\ ~Begins(a, c)
      BY <2>3, <2>6, <2>7
    <2> HIDE DEF a, b, c
    <2> QED
      BY ONLY <2>8
  <1>5. Begins(h[i], h[N])
    BY <1>4
  <1> DEFINE a == h[i - 1]
             c == v[i]
             b == h[i]
             t == h[N]
  <1>6. /\ a \in Seq(T) /\ b \in Seq(T) /\ c \in Seq(T)
        /\ Len(b) = Len(a) + Len(c) /\ \A k \in 1..Len(c) : b[Len(a) + k] = c[k]
        /\ \A k \in 1..Len(b) : t[k] = b[k]
    BY <1>2, <1>3, <1>5
  <1> HIDE DEF a, b, c, t
  <1>7. \A k \in 1..Len(c) : t[Len(a) + k] = c[k]
    BY ONLY <1>6
  <1> QED
    BY <1>6, <1>7 DEF a, b, c, t, PieceAt

\* Lines end with a newline.
LinesEnd(v)     == \A i \in 1..Len(v) : Len(v[i]) > 0 /\ v[i][Len(v[i])] = LF
Unbroken(v)  == \A i \in 1..Len(v) : \A k \in 1..(Len(v[i]) - 1) : v[i][k] # LF

\* As many lines of one text as of another, the same text, and those of the other
\* have no newlines but at their ends: they are the same lines.
LEMMA SameLines ==
    ASSUME NEW T, NEW x \in Seq(Seq(T)), NEW y \in Seq(Seq(T)), Len(x) = Len(y),
           LinesEnd(x), LinesEnd(y), Unbroken(y), FlattenSeq(x) = FlattenSeq(y)
    PROVE  \A i \in 1..Len(x) : x[i] = y[i]
  <1> DEFINE N == Len(x)
  <1>1. PICK g : /\ Flattens(g, x) /\ FlattenSeq(x) = g[N]
                 /\ \A n \in 0..N : g[n] \in Seq(T)
    BY FlatSteps
  <1>2. PICK h : /\ Flattens(h, y) /\ FlattenSeq(y) = h[N]
                 /\ \A n \in 0..N : h[n] \in Seq(T)
    BY FlatSteps
  <1> DEFINE text == g[N]
             e(n) == Len(g[n])
             f(n) == Len(h[n])
  <1>3. N \in Nat /\ h[N] = text /\ \A n \in 1..N : x[n] \in Seq(T) /\ y[n] \in Seq(T)
    <2>1. h[N] = text
      BY <1>1, <1>2
    <2>2. N \in Nat /\ \A n \in 1..N : x[n] \in Seq(T) /\ y[n] \in Seq(T)
      OBVIOUS
    <2> QED
      BY <2>1, <2>2
  <1>4. ASSUME NEW n \in 1..N
        PROVE  /\ e(n) = e(n - 1) + Len(x[n]) /\ Len(x[n]) > 0 /\ text[e(n)] = LF
               /\ \A k \in 1..Len(x[n]) : text[e(n - 1) + k] = x[n][k]
    <2>1. /\ e(n) = e(n - 1) + Len(x[n])
          /\ \A k \in 1..Len(x[n]) : text[e(n - 1) + k] = x[n][k]
      <3>1. Flattens(g, x) /\ \A k \in 0..Len(x) : g[k] \in Seq(T)
        BY <1>1
      <3>2. n \in 1..Len(x)
        OBVIOUS
      <3>3. PieceAt(g, x, n)
        BY ONLY <3>1, <3>2, x \in Seq(Seq(T)), PiecesPlaced
      <3> QED
        BY ONLY <3>3, Zenon DEF PieceAt
    <2>2. Len(x[n]) > 0 /\ x[n][Len(x[n])] = LF /\ Len(x[n]) \in Nat
      BY <1>3 DEF LinesEnd
    <2>3. text[e(n - 1) + Len(x[n])] = LF
      <3>1. Len(x[n]) \in 1..Len(x[n])
        BY <2>2
      <3> QED
        BY <2>1, <2>2, <3>1, Zenon
    <2>4. text[e(n)] = LF
      BY <2>1, <2>3, Zenon
    <2> QED
      BY <2>1, <2>2, <2>4
  <1>5. ASSUME NEW n \in 1..N
        PROVE  /\ f(n) = f(n - 1) + Len(y[n]) /\ Len(y[n]) > 0
               /\ \A k \in 1..Len(y[n]) : text[f(n - 1) + k] = y[n][k]
               /\ \A k \in 1..(Len(y[n]) - 1) : text[f(n - 1) + k] # LF
    <2>1. /\ f(n) = f(n - 1) + Len(y[n])
          /\ \A k \in 1..Len(y[n]) : text[f(n - 1) + k] = y[n][k]
      <3>1. Flattens(h, y) /\ \A k \in 0..Len(y) : h[k] \in Seq(T)
        BY <1>2
      <3>2. n \in 1..Len(y) /\ h[Len(y)] = text
        BY <1>3
      <3>3. PieceAt(h, y, n)
        BY ONLY <3>1, <3>2, y \in Seq(Seq(T)), PiecesPlaced
      <3> QED
        BY <3>2, <3>3, Zenon DEF PieceAt
    <2>2. /\ Len(y[n]) > 0 /\ Len(y[n]) \in Nat
          /\ \A k \in 1..(Len(y[n]) - 1) : y[n][k] # LF
      BY <1>3 DEF LinesEnd, Unbroken
    <2>3. ASSUME NEW k \in 1..(Len(y[n]) - 1) PROVE text[f(n - 1) + k] # LF
      <3>1. k \in 1..Len(y[n]) /\ y[n][k] # LF
        BY <2>2
      <3> QED
        BY <2>1, <3>1, Zenon
    <2> QED
      BY <2>1, <2>2, <2>3, Zenon
  <1>6. /\ e(0) = 0 /\ f(0) = 0 /\ e(N) = f(N)
        /\ \A n \in 0..N : e(n) \in Nat /\ f(n) \in Nat
        /\ \A n \in 1..N : Len(x[n]) \in Nat /\ Len(y[n]) \in Nat
    <2>1. Len(g[0]) = 0 /\ Len(h[0]) = 0
      BY <1>1, <1>2 DEF Flattens
    <2>2. \A n \in 0..N : Len(g[n]) \in Nat /\ Len(h[n]) \in Nat
      BY <1>1, <1>2
    <2>3. \A n \in 1..N : Len(x[n]) \in Nat /\ Len(y[n]) \in Nat
      BY <1>3
    <2>4. Len(g[N]) = Len(h[N])
      BY <1>3, Zenon
    <2> QED
      BY <2>1, <2>2, <2>3, <2>4, Zenon
  <1> HIDE DEF e, f, text, N
  \* No line of x ends inside a line of y.
  <1>7. ASSUME NEW n \in 1..N, NEW m \in 1..N, f(n - 1) < e(m), e(m) < f(n) PROVE FALSE
    <2> DEFINE k == e(m) - f(n - 1)
    <2>1. n - 1 \in 0..N /\ n \in 0..N /\ m \in 0..N
      BY <1>3
    <2>2. k \in 1..(Len(y[n]) - 1) /\ f(n - 1) + k = e(m)
      <3>1. f(n) = f(n - 1) + Len(y[n])
        BY <1>5, Zenon
      <3>2. /\ f(n) \in Nat /\ f(n - 1) \in Nat /\ e(m) \in Nat /\ Len(y[n]) \in Nat
        BY <1>6, <2>1, Zenon
      <3> QED
        BY ONLY <1>7, <3>1, <3>2
    <2> HIDE DEF k
    <2>3. text[f(n - 1) + k] # LF
      BY <1>5, <2>2
    <2> QED
      BY <1>4, <2>2, <2>3
  <1> DEFINE late  == {n \in 1..N : e(n) > f(n)}
             early == {n \in 1..N : e(n) < f(n)}
  <1>8. late = {}
    <2> SUFFICES ASSUME late # {} PROVE FALSE
      OBVIOUS
    <2>1. late \subseteq 1..N /\ \A n \in 1..N : n \in late <=> e(n) > f(n)
      OBVIOUS
    <2> HIDE DEF late
    <2>2. PICK n \in late : \A m \in late : m <= n
      BY <1>3, <2>1, LastPosition
    <2>3. n \in 1..N /\ e(n) > f(n) /\ n # N
      BY <1>3, <1>6, <2>1
    <2>4. n + 1 \in 1..N /\ (n + 1) - 1 = n /\ n + 1 \notin late
      BY <1>3, <2>2, <2>3
    <2>5. ~(e(n + 1) > f(n + 1)) /\ e(n) < e(n + 1)
      <3>1. e(n + 1) = e(n) + Len(x[n + 1]) /\ Len(x[n + 1]) > 0
        BY <1>4, <2>4
      <3>2. n \in 0..N /\ n + 1 \in 0..N
        BY <1>3, <2>4
      <3> QED
        BY <1>6, <2>1, <2>4, <3>1, <3>2
    <2>6. f(n) < e(n) /\ e(n) < f(n + 1)
      <3>1. n \in 0..N /\ n + 1 \in 0..N
        BY <1>3, <2>4
      <3> QED
        BY <1>6, <2>3, <2>5, <3>1
    <2> QED
      BY <1>7, <2>3, <2>4, <2>6
  <1>9. early = {}
    <2> SUFFICES ASSUME early # {} PROVE FALSE
      OBVIOUS
    <2>1. early \subseteq 1..N /\ \A n \in 1..N : n \in early <=> e(n) < f(n)
      OBVIOUS
    <2> HIDE DEF early
    <2>2. PICK n \in early : \A m \in early : n <= m
      BY <1>3, <2>1, FirstPosition
    <2>3. n \in 1..N /\ e(n) < f(n) /\ n \in 0..N /\ n - 1 \in 0..N
      BY <1>3, <2>1
    <2>4. e(n - 1) >= f(n - 1)
      <3>1. CASE n = 1
        BY <1>6, <3>1
      <3>2. CASE n # 1
        <4>1. n - 1 \in 1..N /\ n - 1 \notin early
          BY <1>3, <2>2, <2>3, <3>2
        <4> QED
          BY <1>6, <2>1, <2>3, <4>1
      <3> QED
        BY <3>1, <3>2
    <2>5. f(n - 1) < e(n)
      BY <1>4, <1>6, <2>3, <2>4
    <2> QED
      BY <1>7, <2>3, <2>5
  <1>10. ASSUME NEW n \in 0..N PROVE e(n) = f(n)
    <2>1. CASE n = 0
      BY <1>6, <2>1
    <2>2. CASE n # 0
      <3>1. n \in 1..N
        BY <1>3, <2>2
      <3>2. ~(e(n) > f(n)) /\ ~(e(n) < f(n))
        BY <1>8, <1>9, <3>1
      <3> QED
        BY <1>6, <3>2
    <2> QED
      BY <2>1, <2>2
  <1>11. ASSUME NEW n \in 1..N PROVE x[n] = y[n]
    <2>1. n - 1 \in 0..N /\ n \in 0..N
      BY <1>3
    <2>2. e(n) = f(n) /\ e(n - 1) = f(n - 1)
      BY <1>10, <2>1
    <2>3. Len(x[n]) = Len(y[n])
      BY <1>4, <1>5, <1>6, <2>1, <2>2
    <2>4. ASSUME NEW k \in 1..Len(x[n]) PROVE x[n][k] = y[n][k]
      <3>1. text[e(n - 1) + k] = x[n][k] /\ text[f(n - 1) + k] = y[n][k]
        BY <1>4, <1>5, <2>3, Zenon
      <3> QED
        BY <2>2, <3>1, Zenon
    <2> DEFINE a == x[n]
               b == y[n]
    <2>5. a \in Seq(T) /\ b \in Seq(T) /\ Len(a) = Len(b) /\ \A k \in 1..Len(a) : a[k] = b[k]
      BY <1>3, <2>3, <2>4
    <2> HIDE DEF a, b
    <2>6. a = b
      BY ONLY <2>5
    <2> QED
      BY <2>6 DEF a, b
  <1> QED
    BY <1>11 DEF N

\* A value that is there is a text.
LEMMA ValueIsText ==
    ASSUME NEW x, NEW c, extractComponentValue(x, c).ok
    PROVE  LET text == extractComponentValue(x, c).text IN text \in Seq(Range(text))
  <1> DEFINE Texts(v) == v.ok => v.text \in Seq(Range(v.text))
  <1>1. \A t : Texts(Ok(t))
    BY DEF Ok
  <1>2. Texts(Error)
    BY DEF Error
  <1> HIDE DEF Texts
  <1>3. ASSUME NEW y, NEW d PROVE Texts(extractDerivedComponentValue(y, d))
    <2>1. Texts(extractMethod(y)) /\ Texts(extractStatus(y)) /\ Texts(extractQueryParam(y, d))
      BY <1>1, <1>2 DEF extractMethod, extractStatus, extractQueryParam
    <2>2. Texts(extractTargetURI(y)) /\ Texts(extractAuthority(y)) /\ Texts(extractScheme(y))
      BY <1>1, <1>2 DEF extractTargetURI, extractAuthority, extractScheme, FromURL
    <2>3. Texts(extractRequestTarget(y)) /\ Texts(extractPath(y)) /\ Texts(extractQuery(y))
      BY <1>1, <1>2 DEF extractRequestTarget, extractPath, extractQuery, FromURL
    <2> QED
      BY <1>2, <2>1, <2>2, <2>3 DEF extractDerivedComponentValue
  <1>4. ASSUME NEW y, NEW d PROVE Texts(extractHTTPFieldValue(y, d))
    <2>1. \A p, raw : Texts(FieldText(p, raw))
      BY <1>1, <1>2 DEF FieldText, serializeStructuredFieldValue
    <2> QED
      BY <1>2, <2>1 DEF extractHTTPFieldValue
  <1>5. ASSUME NEW y, NEW d PROVE Texts(ExtractHere(y, d))
    BY <1>2, <1>3, <1>4 DEF ExtractHere
  <1>6. Texts(extractComponentValue(x, c))
    BY <1>2, <1>5 DEF extractComponentValue, extractFromRelatedRequest
  <1> QED
    BY <1>6 DEF Texts

\* The line of a component: its identifier, its value, a newline.
LineOf(x, c) == writeComponentLine(c, extractComponentValue(x, c).text) \o <<LF>>

LinesOf(x, comps) == [i \in 1..Len(comps) |-> LineOf(x, comps[i])]

\* A text with one character before it, and a newline after it.
Framed(line, first, text) ==
    /\ line \in Seq({first, LF} \cup Range(text))
    /\ Len(line) = Len(text) + 2 /\ Len(text) \in Nat
    /\ line[1] = first /\ line[Len(line)] = LF
    /\ \A k \in 1..Len(text) : line[k + 1] = text[k]

LEMMA LineShape ==
    ASSUME NEW x, NEW c, extractComponentValue(x, c).ok
    PROVE  Framed(LineOf(x, c), IdentifierText(writeComponentIdentifier(c)),
                  extractComponentValue(x, c).text)
  <1> DEFINE text == extractComponentValue(x, c).text
             id   == IdentifierText(writeComponentIdentifier(c))
             S    == {id, LF} \cup Range(text)
             a    == <<id>>
             b    == a \o text
             line == b \o <<LF>>
  <1>1. text \in Seq(Range(text))
    BY ValueIsText
  <1> HIDE DEF text, id
  <1>2. text \in Seq(S) /\ a \in Seq(S) /\ Len(a) = 1 /\ a[1] = id
    <2>1. \A A, B, s : s \in Seq(A) /\ A \subseteq B => s \in Seq(B)
      OBVIOUS
    <2> QED
      BY <1>1, <2>1
  <1>3. LF \in S /\ Len(text) \in Nat
    BY <1>1
  <1> HIDE DEF a, S
  <1>4. /\ b \in Seq(S) /\ Len(b) = Len(text) + 1 /\ b[1] = id /\ Len(text) \in Nat
        /\ \A k \in 1..Len(text) : b[k + 1] = text[k]
    <2>1. /\ b \in Seq(S) /\ Len(b) = Len(a) + Len(text) /\ b[1] = a[1]
          /\ \A k \in 1..Len(text) : b[Len(a) + k] = text[k]
      <3>1. ASSUME NEW U, NEW s \in Seq(U), NEW t \in Seq(U), Len(s) = 1
            PROVE  /\ s \o t \in Seq(U) /\ Len(s \o t) = Len(s) + Len(t)
                   /\ (s \o t)[1] = s[1]
                   /\ \A k \in 1..Len(t) : (s \o t)[Len(s) + k] = t[k]
        <4>1. s \o t \in Seq(U) /\ Len(s \o t) = Len(s) + Len(t) /\ Len(t) \in Nat
          OBVIOUS
        <4>2. \A k \in 1..Len(t) : (s \o t)[Len(s) + k] = t[k]
          OBVIOUS
        <4>3. (s \o t)[1] = s[1]
          <5>1. 1 \in 1..(Len(s) + Len(t)) /\ 1 <= Len(s)
            BY <3>1, <4>1
          <5> QED
            BY <5>1, ConcatProperties
        <4> QED
          BY <4>1, <4>2, <4>3
      <3>2. a \in Seq(S) /\ text \in Seq(S) /\ Len(a) = 1
        BY <1>2
      <3>3. /\ a \o text \in Seq(S) /\ Len(a \o text) = Len(a) + Len(text)
            /\ (a \o text)[1] = a[1]
            /\ \A k \in 1..Len(text) : (a \o text)[Len(a) + k] = text[k]
        BY ONLY <3>1, <3>2
      <3> QED
        BY <3>3, Zenon
    <2> HIDE DEF b
    <2>2. \A k \in 1..Len(text) : b[1 + k] = text[k]
      BY <1>2, <2>1, Zenon
    <2>3. \A k \in 1..Len(text) : 1 + k = k + 1
      BY <1>3
    <2> QED
      BY <1>2, <1>3, <2>1, <2>2, <2>3
  <1> HIDE DEF b
  <1>5. /\ line \in Seq(S) /\ Len(line) = Len(b) + 1 /\ line[Len(b) + 1] = LF
        /\ \A k \in 1..Len(b) : line[k] = b[k]
    BY <1>3, <1>4
  <1> HIDE DEF line
  <1>6. line[1] = id /\ line[Len(line)] = LF /\ Len(line) = Len(text) + 2
    BY <1>4, <1>5
  <1>7. ASSUME NEW k \in 1..Len(text) PROVE line[k + 1] = text[k]
    <2>1. k + 1 \in 1..Len(b)
      BY <1>4
    <2> QED
      BY <1>4, <1>5, <2>1
  <1>8. line = LineOf(x, c)
    BY DEF line, b, a, id, text, LineOf, writeComponentLine
  <1> QED
    BY <1>4, <1>5, <1>6, <1>7, <1>8 DEF text, id, S, Framed

\* A base ends with the @signature-params line; before it are the lines of the
\* components, all of them present.
LEMMA BaseText ==
    ASSUME NEW x, NEW comps, Len(comps) \in Nat, NEW params, NEW b,
           Build(x, comps, params) = [ok |-> TRUE, base |-> b]
    PROVE  LET lines == LinesOf(x, comps)
           IN  /\ \A i \in 1..Len(comps) : extractComponentValue(x, comps[i]).ok
               /\ LinesEnd(lines) /\ Len(lines) = Len(comps)
               /\ b = FlattenSeq(lines) \o <<writeSignatureParamsLine(comps, params)>>
               /\ \E S : lines \in Seq(Seq(S))
  <1> DEFINE lines == LinesOf(x, comps)
             N == Len(comps)
             Texts == {extractComponentValue(x, comps[i]).text : i \in 1..N}
             S == {LF} \cup {IdentifierText(writeComponentIdentifier(comps[i])) : i \in 1..N}
                    \cup UNION {Range(t) : t \in Texts}
  <1>1. /\ \A i \in 1..N : extractComponentValue(x, comps[i]).ok
        /\ b = FlattenSeq(lines) \o <<writeSignatureParamsLine(comps, params)>>
    <2> DEFINE values == [i \in 1..N |-> extractComponentValue(x, comps[i])]
    <2>1. BaseOf(comps, params, values) = [ok |-> TRUE, base |-> b]
      BY DEF Build
    <2>2. \A i \in 1..N : values[i] = extractComponentValue(x, comps[i])
      OBVIOUS
    <2>3. lines = [i \in 1..N |-> writeComponentLine(comps[i], values[i].text) \o <<LF>>]
      BY <2>2 DEF LinesOf, LineOf
    <2> HIDE DEF values, lines
    <2>4. \A i \in 1..N : values[i].ok
      BY <2>1 DEF BaseOf
    <2>5. b = FlattenSeq(lines) \o <<writeSignatureParamsLine(comps, params)>>
      BY <2>1, <2>3, <2>4 DEF BaseOf
    <2> QED
      BY <2>2, <2>4, <2>5 DEF lines
  <1>2. ASSUME NEW i \in 1..N
        PROVE  lines[i] \in Seq(S) /\ Len(lines[i]) > 0 /\ lines[i][Len(lines[i])] = LF
    <2> DEFINE text == extractComponentValue(x, comps[i]).text
               id   == IdentifierText(writeComponentIdentifier(comps[i]))
    <2>1. lines[i] = LineOf(x, comps[i])
      BY DEF LinesOf
    <2>2. /\ LineOf(x, comps[i]) \in Seq({id, LF} \cup Range(text))
          /\ Len(LineOf(x, comps[i])) = Len(text) + 2 /\ Len(text) \in Nat
          /\ LineOf(x, comps[i])[Len(LineOf(x, comps[i]))] = LF
      <3>1. extractComponentValue(x, comps[i]).ok
        BY <1>1
      <3>2. Framed(LineOf(x, comps[i]), id, text)
        BY ONLY <3>1, LineShape
      <3> QED
        BY ONLY <3>2, Zenon DEF Framed
    <2>3. {id, LF} \cup Range(text) \subseteq S
      OBVIOUS
    <2> HIDE DEF lines, S, text, id
    <2>4. LineOf(x, comps[i]) \in Seq(S)
      BY <2>2, <2>3
    <2> QED
      BY <2>1, <2>2, <2>4
  <1>3. DOMAIN lines = 1..N /\ lines = [i \in 1..N |-> lines[i]]
    BY DEF LinesOf
  <1> HIDE DEF lines, S
  <1>4. Len(lines) = N
    BY <1>3, LenOf
  <1>5. lines \in Seq(Seq(S))
    BY <1>2, <1>3
  <1>6. LinesEnd(lines)
    BY <1>2, <1>4 DEF LinesEnd
  <1> QED
    BY <1>1, <1>4, <1>5, <1>6 DEF lines

\* Lists of texts that have a common alphabet.
Alike(v, w) == \E S : v \in Seq(Seq(S)) /\ w \in Seq(Seq(S))

\* Two equal bases have the same last line, and the same text before it.
LEMMA EqualBases ==
    ASSUME NEW m, NEW n, NEW cs, NEW ds, Len(cs) \in Nat, Len(ds) \in Nat, NEW p, NEW q, NEW b,
           Build(m, cs, p) = [ok |-> TRUE, base |-> b],
           Build(n, ds, q) = [ok |-> TRUE, base |-> b]
    PROVE  /\ writeSignatureParamsLine(cs, p) = writeSignatureParamsLine(ds, q)
           /\ FlattenSeq(LinesOf(m, cs)) = FlattenSeq(LinesOf(n, ds))
           /\ Alike(LinesOf(m, cs), LinesOf(n, ds))
  <1> DEFINE x == LinesOf(m, cs)
             y == LinesOf(n, ds)
             u == writeSignatureParamsLine(cs, p)
             v == writeSignatureParamsLine(ds, q)
             e == FlattenSeq(x)
             f == FlattenSeq(y)
  <1>1. b = e \o <<u>> /\ \E S : x \in Seq(Seq(S))
    BY BaseText
  <1>2. b = f \o <<v>> /\ \E S : y \in Seq(Seq(S))
    BY BaseText
  <1> HIDE DEF x, y, u, v
  <1>3. PICK S : x \in Seq(Seq(S))
    BY <1>1
  <1>4. PICK U : y \in Seq(Seq(U))
    BY <1>2
  <1> DEFINE V == S \cup U \cup {u, v}
  <1>5. x \in Seq(Seq(V)) /\ y \in Seq(Seq(V)) /\ u \in V /\ v \in V
    <2>1. Seq(S) \subseteq Seq(V) /\ Seq(U) \subseteq Seq(V)
      OBVIOUS
    <2> HIDE DEF V
    <2>2. \A A, B, s : s \in Seq(A) /\ A \subseteq B => s \in Seq(B)
      OBVIOUS
    <2> QED
      BY <1>3, <1>4, <2>1, <2>2 DEF V
  <1> HIDE DEF V
  <1>6. ASSUME NEW z \in Seq(Seq(V)) PROVE FlattenSeq(z) \in Seq(V)
    <2>1. PICK h : FlattenSeq(z) = h[Len(z)] /\ \A i \in 0..Len(z) : h[i] \in Seq(V)
      BY FlatSteps
    <2>2. Len(z) \in 0..Len(z)
      OBVIOUS
    <2> QED
      BY <2>1, <2>2
  <1>7. e \in Seq(V) /\ f \in Seq(V)
    BY <1>5, <1>6
  <1> HIDE DEF e, f
  <1>8. e \o <<u>> = f \o <<v>>
    BY <1>1, <1>2
  <1>9. Len(e) = Len(f)
    <2>1. Len(e \o <<u>>) = Len(e) + 1 /\ Len(f \o <<v>>) = Len(f) + 1
      BY <1>5, <1>7
    <2> QED
      BY <1>7, <1>8, <2>1
  <1>10. /\ (e \o <<u>>)[Len(e) + 1] = u /\ (f \o <<v>>)[Len(f) + 1] = v
         /\ \A i \in 1..Len(e) : (e \o <<u>>)[i] = e[i]
         /\ \A i \in 1..Len(f) : (f \o <<v>>)[i] = f[i]
    BY <1>5, <1>7
  <1>11. u = v /\ \A i \in 1..Len(e) : e[i] = f[i]
    BY <1>8, <1>9, <1>10
  <1>12. e = f
    BY <1>7, <1>9, <1>11
  <1> QED
    BY <1>5, <1>11, <1>12 DEF x, y, u, v, e, f, Alike

\* Equal bases name the same components; and they say the same of their values
\* where those of one message have no newlines.
LEMMA BaseInjective ==
    ASSUME NEW m, NEW n, NEW cs, NEW ds, NEW p, NEW q, NEW b,
           WellFormedList(cs), WellFormedList(ds),
           Build(m, cs, p) = [ok |-> TRUE, base |-> b],
           Build(n, ds, q) = [ok |-> TRUE, base |-> b]
    PROVE  /\ cs = ds
           /\ OneLineEach(n, ds) => \A i \in 1..Len(cs) : SameValue(m, n, cs[i])
  <1> DEFINE x == LinesOf(m, cs)
             y == LinesOf(n, ds)
             N == Len(cs)
  <1>1. Len(cs) \in Nat /\ Len(ds) \in Nat
    BY DEF WellFormedList
  <1>2. /\ writeSignatureParamsLine(cs, p) = writeSignatureParamsLine(ds, q)
        /\ FlattenSeq(x) = FlattenSeq(y)
        /\ Alike(x, y)
    BY <1>1, EqualBases
  <1>3. cs = ds
    <2>1. Identifiers(cs) = Identifiers(ds)
      BY <1>2 DEF writeSignatureParamsLine
    <2>2. 1..Len(cs) = 1..Len(ds)
      BY <2>1 DEF Identifiers
    <2>3. Len(cs) = Len(ds)
      BY <1>1, <2>2
    <2>4. \A i \in 1..Len(cs) : writeComponentIdentifier(cs[i]) = writeComponentIdentifier(ds[i])
      BY <2>1, <2>2 DEF Identifiers
    <2>5. \A i \in 1..Len(cs) : cs[i] = ds[i]
      BY <2>2, <2>4, IdentifierInjective DEF WellFormedList
    <2> QED
      BY <2>3, <2>5 DEF WellFormedList
  <1>4. /\ \A i \in 1..N : extractComponentValue(m, cs[i]).ok
        /\ LinesEnd(x) /\ Len(x) = N
    BY <1>1, BaseText
  <1>5. /\ \A i \in 1..N : extractComponentValue(n, cs[i]).ok
        /\ LinesEnd(y) /\ Len(y) = N
    BY <1>1, <1>3, BaseText
  <1>6. ASSUME OneLineEach(n, ds), NEW i \in 1..N PROVE SameValue(m, n, cs[i])
    <2> DEFINE Id(j) == IdentifierText(writeComponentIdentifier(cs[j]))
               r == extractComponentValue(m, cs[i]).text
               s == extractComponentValue(n, cs[i]).text
    <2>1. ASSUME NEW j \in 1..N, NEW k \in 1..(Len(y[j]) - 1) PROVE y[j][k] # LF
      <3> DEFINE t == extractComponentValue(n, cs[j]).text
      <3>1. y[j] = LineOf(n, cs[j])
        BY <1>3 DEF LinesOf
      <3>2. /\ Len(y[j]) = Len(t) + 2 /\ Len(t) \in Nat /\ y[j][1] = Id(j)
            /\ \A l \in 1..Len(t) : y[j][l + 1] = t[l]
        <4>1. extractComponentValue(n, cs[j]).ok
          BY <1>5
        <4>2. Framed(LineOf(n, cs[j]), Id(j), t)
          BY ONLY <4>1, LineShape
        <4> HIDE DEF t, Id, y
        <4> QED
          BY <3>1, <4>2, Zenon DEF Framed
      <3>3. Id(j) # LF
        BY DEF WellFormedList, WellFormed
      <3>4. \A l \in 1..Len(t) : t[l] # LF
        BY <1>3, <1>6 DEF OneLineEach
      <3> HIDE DEF t, Id, y
      <3>5. CASE k = 1
        BY <3>2, <3>3, <3>5
      <3>6. CASE k # 1
        <4>1. k - 1 \in 1..Len(t) /\ (k - 1) + 1 = k
          BY <3>2, <3>6
        <4> QED
          BY <3>2, <3>4, <4>1
      <3> QED
        BY <3>5, <3>6
    <2>2. Unbroken(y)
      BY <1>5, <2>1 DEF Unbroken
    <2>3. x[i] = y[i]
      <3>1. PICK S : x \in Seq(Seq(S)) /\ y \in Seq(Seq(S))
        BY <1>2 DEF Alike
      <3> HIDE DEF x, y
      <3> QED
        BY <1>2, <1>4, <1>5, <2>2, <3>1, SameLines
    <2>4. LineOf(m, cs[i]) = LineOf(n, cs[i])
      BY <1>3, <2>3 DEF LinesOf
    <2>5. /\ Len(LineOf(m, cs[i])) = Len(r) + 2 /\ Len(r) \in Nat
          /\ \A k \in 1..Len(r) : LineOf(m, cs[i])[k + 1] = r[k]
      <3>1. extractComponentValue(m, cs[i]).ok
        BY <1>4
      <3>2. Framed(LineOf(m, cs[i]), Id(i), r)
        BY ONLY <3>1, LineShape
      <3> QED
        BY ONLY <3>2, Zenon DEF Framed
    <2>6. /\ Len(LineOf(n, cs[i])) = Len(s) + 2 /\ Len(s) \in Nat
          /\ \A k \in 1..Len(s) : LineOf(n, cs[i])[k + 1] = s[k]
      <3>1. extractComponentValue(n, cs[i]).ok
        BY <1>5
      <3>2. Framed(LineOf(n, cs[i]), Id(i), s)
        BY ONLY <3>1, LineShape
      <3> QED
        BY ONLY <3>2, Zenon DEF Framed
    <2>7. r \in Seq(Range(r)) /\ s \in Seq(Range(s))
      BY <1>4, <1>5, ValueIsText
    <2> HIDE DEF r, s
    <2>8. Len(r) = Len(s) /\ \A k \in 1..Len(r) : r[k] = s[k]
      BY <2>4, <2>5, <2>6
    <2>9. r = s
      BY <2>7, <2>8
    <2> QED
      BY <1>4, <1>5, <2>9 DEF SameValue, r, s
  <1> QED
    BY <1>3, <1>6

\* Equal bases announce the same parameters.
LEMMA BaseParams ==
    ASSUME NEW m, NEW n, NEW cs, NEW ds, Len(cs) \in Nat, Len(ds) \in Nat, NEW p, NEW q, NEW b,
           ParamsShape(p), ParamsShape(q),
           Build(m, cs, p) = [ok |-> TRUE, base |-> b],
           Build(n, ds, q) = [ok |-> TRUE, base |-> b]
    PROVE  p = q
  <1>1. writeSignatureParamsLine(cs, p) = writeSignatureParamsLine(ds, q)
    <2>1. /\ writeSignatureParamsLine(cs, p) = writeSignatureParamsLine(ds, q)
          /\ FlattenSeq(LinesOf(m, cs)) = FlattenSeq(LinesOf(n, ds))
          /\ Alike(LinesOf(m, cs), LinesOf(n, ds))
      BY EqualBases
    <2> QED
      BY <2>1
  <1>2. CanonicalParams(p) = CanonicalParams(q)
    BY <1>1 DEF writeSignatureParamsLine
  <1> QED
    BY <1>2, CanonicalInjective

=============================================================================
