------------------------ MODULE ResponseExchangeProof ------------------------
(***************************************************************************)
(* What a client that accepts a response knows of the request: for every   *)
(* set of requests, responses, Signers and options, any number of          *)
(* signatures, and whatever is changed on the way.                         *)
(*                                                                         *)
(* The invariant RInv keeps what the code establishes on the two sides:    *)
(* every signature there is was made over a base of its message, and an    *)
(* accepted outcome was compared with a base of the response.  With equal  *)
(* bases, BaseInjective gives equal components with equal values; the rest *)
(* is what extractFromRelatedRequest does with each of them.               *)
(***************************************************************************)
EXTENDS ResponseExchange, SignatureBaseProof

SignaturesBuilt ==
    \A n \in DOMAIN made :
      /\ made[n].signer \in DOMAIN Signers
      /\ Build(made[n].msg, Signers[made[n].signer].comps, Signers[made[n].signer].params) =
           [ok |-> TRUE, base |-> made[n].base]

OutcomeBuilt ==
    Accepted =>
      /\ IsResponse(outcome.resp)
      /\ outcome.result.name \in DOMAIN made
      /\ Signing.base = outcome.result.base
      /\ WellFormedList(Covered)
      /\ Build(outcome.resp, Covered, outcome.result.params) =
           [ok |-> TRUE, base |-> outcome.result.base]
      /\ validateRequiredComponents(outcome.options.required, Covered)

RInv == SignaturesBuilt /\ OutcomeBuilt

-----------------------------------------------------------------------------
(* Whose signature a message carries.                                      *)

\* A client's request is unsigned or has the signature SignRequest gave it.
OneSignature ==
    \/ Lines(request.header, "Signature") = <<>>
    \/ \E n \in DOMAIN made : Lines(request.header, "Signature") = << <<n>> >>

\* Messages have their fields, and the client's requests one signature at most.
Formed ==
    /\ DOMAIN made \subseteq Names
    /\ \A n \in DOMAIN made : IF IsResponse(made[n].msg) THEN ResponseShape(made[n].msg)
                             ELSE RequestShape(made[n].msg)
    /\ RequestShape(request) /\ OneSignature

\* q has what signature n covers, unless a value broken over lines was signed.
Shared(n, q) ==
    LET comps == Signers[made[n].signer].comps
    IN  OneLineEach(made[n].msg, comps) =>
          \A i \in 1..Len(comps) : SameValue(made[n].msg, q, comps[i])

\* A server that signs after it has verified: if the request carried just the
\* signature n, that is the one it verified.
ServerKnows ==
    \A k \in DOMAIN made, n \in Names :
      LET seen == made[k].msg.related
      IN  /\ made[k].checked /\ seen # NoRequest
          /\ Lines(seen.header, "Signature") # <<>>
          /\ canonicalizeFieldValues(Lines(seen.header, "Signature")) = <<n>>
          => n \in DOMAIN made /\ Shared(n, seen)

\* The request a response was verified with, and the response, carry signatures
\* that were there at the time.
OutcomeKnown ==
    outcome # NoOutcome =>
      /\ \/ Lines(Asked.header, "Signature") = <<>>
         \/ \E n \in DOMAIN made : Lines(Asked.header, "Signature") = << <<n>> >>
      /\ \A n \in Names :
           Lines(outcome.resp.header, "Signature") = << <<n>> >> => n \in DOMAIN made

SInv == RInv /\ Formed /\ ServerKnows /\ OutcomeKnown

-----------------------------------------------------------------------------
(* Header lines.                                                           *)

\* Every member of the dictionary of a line is on the line, under its label.
LEMMA DictionaryMembers ==
    ASSUME NEW line, Len(line) \in Nat, NEW label,
           NEW l \in DOMAIN DictionaryOf(line, label)
    PROVE  /\ DictionaryOf(line, label)[l] \in DOMAIN label
           /\ label[DictionaryOf(line, label)[l]] = l
  <1> DEFINE at  == {i \in 1..Len(line) : line[i] \in DOMAIN label}
             has == {i \in at : label[line[i]] = l}
  <1>1. has \subseteq 1..Len(line) /\ has # {}
    BY DEF DictionaryOf
  <1>2. \E i \in has : \A j \in has : j <= i
    BY <1>1, LastPosition
  <1>3. DictionaryOf(line, label)[l] = line[CHOOSE i \in has : \A j \in has : j <= i]
    BY DEF DictionaryOf
  <1> QED
    BY <1>2, <1>3

\* A dictionary of one member.
LEMMA DictionaryOfOne ==
    ASSUME NEW label, NEW x \in DOMAIN label
    PROVE  DictionaryOf(<<x>>, label) = [l \in {label[x]} |-> x]
  <1> DEFINE line   == <<x>>
             at     == {i \in 1..Len(line) : line[i] \in DOMAIN label}
             has(l) == {i \in at : label[line[i]] = l}
  <1>1. Len(line) = 1 /\ line[1] = x /\ 1..1 = {1}
    OBVIOUS
  <1>2. at = {1}
    BY <1>1
  <1>3. {label[line[i]] : i \in at} = {label[x]}
    BY <1>1, <1>2
  <1>4. has(label[x]) = {1}
    BY <1>1, <1>2
  <1>5. line[CHOOSE i \in has(label[x]) : \A j \in has(label[x]) : j <= i] = x
    <2> HIDE DEF has, line
    <2>1. (CHOOSE i \in has(label[x]) : \A j \in has(label[x]) : j <= i) = 1
      BY <1>4
    <2> QED
      BY <1>1, <2>1
  <1>6. DictionaryOf(line, label) =
          [l \in {label[line[i]] : i \in at} |->
             line[CHOOSE i \in has(l) : \A j \in has(l) : j <= i]]
    BY DEF DictionaryOf
  <1> HIDE DEF at, has, line
  <1>7. DictionaryOf(line, label) = [l \in {label[x]} |-> x]
    BY <1>3, <1>5, <1>6
  <1> QED
    BY <1>7 DEF line

\* A signed request is a request with two more fields.
LEMMA SignedShape ==
    ASSUME NEW q, RequestShape(q), NEW inputs, NEW sigs
    PROVE  LET w == WithHeaders(q, inputs, sigs)
           IN  /\ RequestShape(w)
               /\ w.header = Set(Set(q.header, "Signature-Input", inputs), "Signature", sigs)
  <1> DEFINE w == WithHeaders(q, inputs, sigs)
             h == Set(Set(q.header, "Signature-Input", inputs), "Signature", sigs)
  <1>1. q = RequestOf(q.method, q.url, q.Host, q.tls, q.header, q.trailer)
    BY DEF RequestShape, RequestOf
  <1>2. w = [q EXCEPT !.header = h]
    BY DEF WithHeaders
  <1> HIDE DEF h
  <1>3. w = RequestOf(q.method, q.url, q.Host, q.tls, h, q.trailer)
    BY ONLY <1>1, <1>2, RequestFields
  <1> HIDE DEF w
  <1>4. w.method = q.method /\ w.url = q.url /\ w.Host = q.Host /\ w.tls = q.tls
        /\ w.header = h /\ w.trailer = q.trailer
    BY <1>3, RequestFields
  <1>5. w = RequestOf(w.method, w.url, w.Host, w.tls, w.header, w.trailer)
    BY <1>3, <1>4
  <1>6. RequestShape(w)
    BY <1>4, <1>5 DEF RequestShape, RequestOf
  <1> QED
    BY <1>4, <1>6 DEF w, h

\* The headers of a response on its way, and of a request at the server.
LEMMA HeadersArrive ==
    ASSUME NEW b \in Bundles
    PROVE  LET H(h) == Set(Set(h, "Signature-Input", b.inputs), "Signature", b.sigs)
           IN  /\ \A m, q : ResponseShape(m) =>
                    LET msg == [Carrying(m, b) EXCEPT !.related = q]
                    IN  /\ msg = [kind |-> "response", status |-> m.status,
                                  header |-> H(m.header), trailer |-> m.trailer,
                                  related |-> q]
                        /\ ResponseShape(msg)
               /\ \A q : RequestShape(q) => ServerView(Carrying(q, b)).header = H(q.header)
  <1> DEFINE H(h) == Set(Set(h, "Signature-Input", b.inputs), "Signature", b.sigs)
  <1>1. ASSUME NEW m, NEW q, ResponseShape(m)
        PROVE  LET msg == [Carrying(m, b) EXCEPT !.related = q]
               IN  /\ msg = [kind |-> "response", status |-> m.status,
                             header |-> H(m.header), trailer |-> m.trailer,
                             related |-> q]
                   /\ ResponseShape(msg)
    <2> HIDE DEF H
    <2>1. WithHeaders(m, b.inputs, b.sigs) =
            [kind |-> "response", status |-> m.status, header |-> H(m.header),
             trailer |-> m.trailer, related |-> m.related]
      BY <1>1 DEF ResponseShape, WithHeaders, H
    <2> QED
      BY <2>1 DEF ResponseShape, Carrying
  <1>2. ASSUME NEW q, RequestShape(q)
        PROVE  ServerView(Carrying(q, b)).header = H(q.header)
    <2> HIDE DEF H
    <2> DEFINE w == WithHeaders(q, b.inputs, b.sigs)
    <2>1. RequestShape(w) /\ w.header = H(q.header)
      BY <1>2, SignedShape DEF H
    <2> HIDE DEF w
    <2>2. ServerView(w).header = H(q.header)
      BY <2>1, ServerKeepsHeader
    <2> QED
      BY <2>2 DEF Carrying, w
  <1> QED
    BY <1>1, <1>2

\* The two fields as the receiver finds them.
LEMMA FieldsFound ==
    ASSUME NEW h, NEW inputs, NEW sigs
    PROVE  LET g == Set(Set(h, "Signature-Input", inputs), "Signature", sigs)
           IN  Lines(g, "Signature-Input") = inputs /\ Lines(g, "Signature") = sigs
  BY DEF Set, Lines

\* The lines of the two headers that arrive are sequences.
LEMMA LinesArrive ==
    ASSUME NEW msg, NEW b \in Bundles, NEW h,
           msg.header = Set(Set(h, "Signature-Input", b.inputs), "Signature", b.sigs),
           NEW key \in {"Signature-Input", "Signature"}
    PROVE  Len(Get(msg.header, key)) \in Nat
  <1> DEFINE lines == IF key = "Signature" THEN b.sigs ELSE b.inputs
  <1>1. msg.header = Set(Set(h, "Signature-Input", b.inputs), "Signature", b.sigs)
    OBVIOUS
  <1>2. key \in DOMAIN msg.header /\ msg.header[key] = lines
    BY <1>1 DEF Set
  <1>3. lines # <<>> => Len(lines[1]) \in Nat
    <2>1. CASE b = Headers(<<>>, <<>>)
      BY <2>1 DEF Headers
    <2>2. CASE \E n \in DOMAIN made : b = One(n)
      BY <2>2 DEF One, Headers
    <2>3. CASE \E p \in Pairs : b = Headers(<<Line(SignerOf(p[1]), SignerOf(p[2]))>>,
                                            <<Line(p[1], p[2])>>)
      <3>1. \A x, y : Len(Line(x, y)) \in Nat
        BY DEF Line
      <3> QED
        BY <2>3, <3>1 DEF Headers
    <2>4. CASE \E p \in Pairs : b = Headers(<< <<SignerOf(p[1])>>, <<SignerOf(p[2])>> >>,
                                            << <<p[1]>>, <<p[2]>> >>)
      BY <2>4 DEF Headers
    <2> QED
      BY <2>1, <2>2, <2>3, <2>4 DEF Bundles
  <1>4. Get(msg.header, key) = IF lines = <<>> THEN <<>> ELSE lines[1]
    BY <1>2 DEF Get, Lines
  <1>5. Len(<<>>) \in Nat
    OBVIOUS
  <1> QED
    BY <1>3, <1>4, <1>5

\* A Signature field of one signature reads as that signature.
LEMMA OneText ==
    ASSUME NEW n \in Names
    PROVE  canonicalizeFieldValues(<< <<n>> >>) = <<n>>
  <1> DEFINE s == <<n>>
  <1>1. Names \cap (Newline \cup Blank) = {} /\ "invalid" \notin Names
    BY ExchangeAssumption
  <1>2. s \in Seq(Names) /\ Len(s) = 1 /\ s[1] = n /\ n \notin Blank
    BY <1>1
  <1> HIDE DEF s
  <1>3. canonicalizeFieldValues(<<s>>) = s
    BY <1>1, <1>2, CanonicalOne
  <1> QED
    BY <1>3 DEF s

\* The text of the signatures a message carries tells whether it is just one.
LEMMA BundleText ==
    ASSUME DOMAIN made \subseteq Names, NEW b \in Bundles, b.sigs # <<>>, NEW n \in Names,
           canonicalizeFieldValues(b.sigs) = <<n>>
    PROVE  b.sigs = << <<n>> >> /\ n \in DOMAIN made
  <1>1. /\ Names \cap (Newline \cup Blank) = {} /\ "invalid" \notin Names
        /\ SP \notin Newline /\ "," \notin Newline /\ "invalid" \notin {",", SP}
    BY ExchangeAssumption DEF Newline, SP, CR, LF
  <1>2. ASSUME NEW x, NEW y PROVE <<n>> # <<x, ",", SP, y>>
    OBVIOUS
  <1>3. ASSUME NEW T, NEW t1 \in T, NEW t2 \in T, NEW t3 \in T, NEW t4 \in T
        PROVE  LET t == <<t1, t2, t3, t4>>
               IN  t \in Seq(T) /\ Len(t) = 4 /\ t[1] = t1 /\ t[4] = t4
    OBVIOUS
  <1>4. CASE b = Headers(<<>>, <<>>)
    BY <1>4 DEF Headers
  <1>5. CASE \E k \in DOMAIN made : b = One(k)
    <2>1. PICK k \in DOMAIN made : b = One(k)
      BY <1>5
    <2> DEFINE s == <<k>>
    <2>2. b.sigs = <<s>>
      BY <2>1 DEF One, Headers
    <2>3. k \in Names /\ k \notin Blank
      BY <1>1
    <2>4. canonicalizeFieldValues(<<s>>) = s
      BY <2>3, OneText
    <2> HIDE DEF s
    <2>5. s = <<n>>
      BY <2>2, <2>4
    <2>6. k = n
      BY <2>5 DEF s
    <2> QED
      BY <2>2, <2>5, <2>6
  <1>6. CASE \E p \in Pairs : b = Headers(<<Line(SignerOf(p[1]), SignerOf(p[2]))>>,
                                          <<Line(p[1], p[2])>>)
    <2>1. PICK p \in Pairs : b.sigs = <<Line(p[1], p[2])>>
      BY <1>6 DEF Headers
    <2> DEFINE x == p[1]
               y == p[2]
               S == Names \cup {",", SP}
    <2>2. x \in Names /\ y \in Names
      <3>1. p[1] \in DOMAIN made /\ p[2] \in DOMAIN made
        BY DEF Pairs
      <3> QED
        BY <3>1
    <2> HIDE DEF x, y
    <2> DEFINE s == <<x, ",", SP, y>>
    <2>3. /\ s \in Seq(S) /\ Len(s) = 4 /\ s[1] = x /\ s[4] = y
      <3>1. x \in S /\ y \in S /\ "," \in S /\ SP \in S
        BY <2>2
      <3> HIDE DEF S
      <3> QED
        BY ONLY <1>3, <3>1
    <2>4. S \cap Newline = {} /\ "invalid" \notin S /\ x \notin Blank /\ y \notin Blank
      BY <1>1, <2>2
    <2>5. b.sigs = <<s>>
      BY <2>1 DEF Line, x, y
    <2> HIDE DEF s, S
    <2>6. canonicalizeFieldValues(<<s>>) = s
      <3>1. s \in Seq(S) /\ Len(s) > 0 /\ s[1] \notin Blank /\ s[Len(s)] \notin Blank
        BY ONLY <2>3, <2>4
      <3>2. S \cap Newline = {} /\ "invalid" \notin S
        BY <2>4
      <3> QED
        BY ONLY <3>1, <3>2, CanonicalOne
    <2> QED
      BY <1>2, <2>5, <2>6 DEF s
  <1>7. CASE \E p \in Pairs : b = Headers(<< <<SignerOf(p[1])>>, <<SignerOf(p[2])>> >>,
                                          << <<p[1]>>, <<p[2]>> >>)
    <2>1. PICK p \in Pairs : b.sigs = << <<p[1]>>, <<p[2]>> >>
      BY <1>7 DEF Headers
    <2>2. p[1] \in Names /\ p[2] \in Names
      BY DEF Pairs
    <2>3. canonicalizeFieldValues(b.sigs) = <<p[1], ",", SP, p[2]>>
      BY <1>1, <2>1, <2>2, CanonicalTwo
    <2> QED
      BY <1>2, <2>3
  <1> QED
    BY <1>4, <1>5, <1>6, <1>7 DEF Bundles

\* "signature";req selects the Signature lines of the request, unparsed.
LEMMA SignatureOfRequest ==
    ASSUME NEW m, extractComponentValue(m, SignatureReq).ok
    PROVE  LET lines == Lines(m.related.header, "Signature")
           IN  /\ m.related # NoRequest /\ lines # <<>>
               /\ extractComponentValue(m, SignatureReq).text = canonicalizeFieldValues(lines)
  <1> DEFINE c == [name |-> "signature", type |-> "field", params |-> <<>>]
             q == m.related
             p == [isTrailer |-> FALSE, useSF |-> FALSE, useBS |-> FALSE, keyName |-> ""]
             lines == Lines(q.header, "Signature")
  <1>1. WithoutReq(SignatureReq) = c
    <2> DEFINE r == [key |-> "req", value |-> True]
    <2>1. r.key = "req" /\ SignatureReq = [name |-> "signature", type |-> "field", params |-> <<r>>]
      BY DEF SignatureReq, OfRequest
    <2> HIDE DEF r
    <2>2. /\ SignatureReq.name = "signature" /\ SignatureReq.type = "field"
          /\ SignatureReq = [name |-> SignatureReq.name, type |-> SignatureReq.type,
                             params |-> <<r>>]
      BY <2>1
    <2> QED
      BY <2>1, <2>2, ReqRemoved
  <1>2. hasReqParameter(SignatureReq)
    <2> DEFINE hits == {i \in 1..Len(SignatureReq.params) : SignatureReq.params[i].key = "req"}
    <2>1. SignatureReq.params = OfRequest /\ Len(OfRequest) = 1
          /\ OfRequest[1] = [key |-> "req", value |-> True]
      BY DEF SignatureReq, OfRequest
    <2>2. hits = {1}
      BY <2>1
    <2>3. (CHOOSE i \in hits : \A j \in hits : i <= j) = 1
      BY <2>2
    <2> QED
      BY <2>1, <2>2, <2>3 DEF hasReqParameter
  <1>3. m.related # NoRequest /\ extractComponentValue(m, SignatureReq) = ExtractHere(q, c)
    BY <1>1, <1>2 DEF extractComponentValue, extractFromRelatedRequest, Error
  <1>4. ExtractHere(q, c) = extractHTTPFieldValue(q, c)
    BY DEF ExtractHere
  <1>5. parseHTTPFieldParams(c.params) = p
    <2>1. \A key, T : {i \in 1..Len(<<>>) : FALSE} = {}
      OBVIOUS
    <2>2. /\ LastOf(<<>>, "tr", IsBool) = NilItem /\ LastOf(<<>>, "sf", IsBool) = NilItem
          /\ LastOf(<<>>, "bs", IsBool) = NilItem /\ LastOf(<<>>, "key", IsStr) = NilItem
      BY DEF LastOf
    <2>3. NilItem # True
      BY DEF NilItem, True
    <2> QED
      BY <2>2, <2>3 DEF parseHTTPFieldParams
  <1>6. HeaderValues(q, "signature") = lines
    BY ExchangeAssumption DEF HeaderValues
  <1>7. /\ p.isTrailer = FALSE /\ p.useSF = FALSE /\ p.useBS = FALSE /\ p.keyName = ""
        /\ c.name = "signature"
    OBVIOUS
  <1> HIDE DEF p, c, lines
  <1>8. extractHTTPFieldValue(q, c) =
          IF lines = <<>> THEN Error ELSE FieldText(p, canonicalizeFieldValues(lines))
    BY <1>5, <1>6, <1>7 DEF extractHTTPFieldValue
  <1>9. lines # <<>> /\ FieldText(p, canonicalizeFieldValues(lines)).ok
    BY <1>3, <1>4, <1>8 DEF Error
  <1>10. FieldText(p, canonicalizeFieldValues(lines)) = Ok(canonicalizeFieldValues(lines))
    BY <1>7, <1>9 DEF FieldText, Error
  <1> QED
    BY <1>3, <1>4, <1>8, <1>9, <1>10 DEF Ok, lines

-----------------------------------------------------------------------------
(* The invariant.                                                          *)

LEMMA RInitHolds == RInit => RInv
  BY DEF RInit, RInv, SignaturesBuilt, OutcomeBuilt, Accepted

\* A new signature is over a base of its message; the ones there are stay.
LEMMA SigningKeeps ==
    ASSUME RInv, NEW n, NEW s \in DOMAIN Signers, NEW msg, NEW checked,
           signMessage(n, s, msg, checked), UNCHANGED outcome
    PROVE  RInv'
  <1> DEFINE built == Build(msg, Signers[s].comps, Signers[s].params)
             entry == [signer |-> s, msg |-> msg, base |-> built.base, checked |-> checked]
  <1>1. n \notin DOMAIN made /\ built.ok /\ made' = Set(made, n, entry)
    BY DEF signMessage
  <1>2. built = [ok |-> TRUE, base |-> entry.base]
    BY <1>1, BuildResult
  <1>3. /\ DOMAIN made' = DOMAIN made \cup {n}
        /\ made'[n] = entry
        /\ \A k \in DOMAIN made : made'[k] = made[k]
    BY <1>1 DEF Set
  <1>4. SignaturesBuilt'
    <2>1. ASSUME NEW k \in DOMAIN made'
          PROVE  /\ made'[k].signer \in DOMAIN Signers
                 /\ Build(made'[k].msg, Signers[made'[k].signer].comps,
                          Signers[made'[k].signer].params) =
                      [ok |-> TRUE, base |-> made'[k].base]
      <3>1. CASE k = n
        <4>1. /\ made'[k].signer = s /\ made'[k].msg = msg
              /\ made'[k].base = built.base
          BY <1>3, <3>1
        <4> QED
          BY <1>2, <4>1
      <3>2. CASE k \in DOMAIN made
        BY <1>3, <3>2 DEF RInv, SignaturesBuilt
      <3> QED
        BY <1>3, <3>1, <3>2
    <2> QED
      BY <2>1 DEF SignaturesBuilt
  <1>5. OutcomeBuilt'
    BY <1>3 DEF RInv, OutcomeBuilt, Accepted, Signing, Covered
  <1> QED
    BY <1>4, <1>5 DEF RInv

\* What verifyMessage accepts it has compared with the base of the message.
LEMMA VerifyingCompares ==
    ASSUME RInv, NEW msg, NEW o, verifyMessage(msg, o).ok,
           Len(Get(msg.header, "Signature-Input")) \in Nat,
           Len(Get(msg.header, "Signature")) \in Nat
    PROVE  LET r == verifyMessage(msg, o)
               sigs == SigsOf(Get(msg.header, "Signature"))
           IN  /\ \E l \in DOMAIN sigs : r.name = sigs[l]
               /\ r.name \in DOMAIN made
               /\ made[r.name].base = r.base
               /\ WellFormedList(r.comps)
               /\ Build(msg, r.comps, r.params) = [ok |-> TRUE, base |-> r.base]
               /\ validateRequiredComponents(o.required, r.comps)
  <1> DEFINE input  == Get(msg.header, "Signature-Input")
             sigs   == SigsOf(Get(msg.header, "Signature"))
             dict   == SignatureInputs(input)
             parsed == ParseSignatureInput(dict)
             label  == SelectLabel(o, parsed.signatures)
             entry  == parsed.signatures[label]
             built  == Build(msg, entry.comps, entry.params)
  <1>1. /\ parsed.ok /\ label \in DOMAIN parsed.signatures /\ label \in DOMAIN sigs
        /\ validateRequiredComponents(o.required, entry.comps)
        /\ built.ok
        /\ SignatureValid(sigs[label], o.key, built.base)
        /\ verifyMessage(msg, o) = [ok |-> TRUE, name |-> sigs[label], comps |-> entry.comps,
                                    params |-> entry.params, base |-> built.base]
    BY DEF verifyMessage, Refused
  <1>2. sigs[label] \in DOMAIN made
    <2>1. \A l \in DOMAIN sigs : sigs[l] \in DOMAIN made
      BY DictionaryMembers DEF SigsOf
    <2> HIDE DEF sigs, label
    <2> QED
      BY <1>1, <2>1
  <1>3. \A l \in DOMAIN dict : WellFormedInput(dict[l])
    <2>1. ASSUME NEW l \in DOMAIN InputsOf(input) PROVE InputsOf(input)[l] \in DOMAIN Signers
      BY DictionaryMembers DEF InputsOf
    <2>2. \A s \in DOMAIN Signers : WellFormedInput(MemberOf[s])
      BY ExchangeAssumption, WrittenWellFormed DEF MemberOf
    <2>3. /\ DOMAIN dict = DOMAIN InputsOf(input)
          /\ \A l \in DOMAIN dict : dict[l] = MemberOf[InputsOf(input)[l]]
      BY DEF SignatureInputs
    <2> QED
      BY <2>1, <2>2, <2>3
  <1>4. WellFormedList(entry.comps)
    <2> HIDE DEF dict, label
    <2> QED
      BY <1>1, <1>3, ParsedWellFormed
  <1>5. built = [ok |-> TRUE, base |-> built.base]
    BY <1>1, BuildResult
  <1>6. made[sigs[label]].base = built.base
    BY <1>1 DEF SignatureValid
  <1> DEFINE name == sigs[label]
             result == [ok |-> TRUE, name |-> name, comps |-> entry.comps,
                        params |-> entry.params, base |-> built.base]
  <1>7. verifyMessage(msg, o) = result
    BY <1>1
  <1>8. /\ validateRequiredComponents(o.required, entry.comps)
        /\ \E l \in DOMAIN sigs : name = sigs[l]
    BY <1>1
  <1> HIDE DEF name, entry
  <1>9. Build(msg, entry.comps, entry.params) = [ok |-> TRUE, base |-> built.base]
    BY <1>5
  <1> HIDE DEF built
  <1>10. /\ result.name = name /\ result.comps = entry.comps
         /\ result.params = entry.params /\ result.base = built.base
    OBVIOUS
  <1> HIDE DEF result
  <1> QED
    BY <1>2, <1>4, <1>6, <1>7, <1>8, <1>9, <1>10 DEF name

LEMMA ReceivingKeeps == ASSUME RInv, ReceiveAndVerify PROVE RInv'
  <1>1. PICK m \in Responses, b \in Bundles, o \in ClientOptions :
          outcome' = [resp    |-> [Carrying(m, b) EXCEPT !.related = request],
                      options |-> o,
                      result  |-> VerifyResponse(Carrying(m, b), request, o)]
    BY DEF ReceiveAndVerify
  <1>2. UNCHANGED <<request, made>>
    BY DEF ReceiveAndVerify
  <1> DEFINE msg == [Carrying(m, b) EXCEPT !.related = request]
             r   == verifyMessage(msg, o)
  <1>3. outcome'.resp = msg /\ outcome'.options = o /\ outcome'.result = r
    BY <1>1 DEF VerifyResponse
  <1>4. /\ msg.header = Set(Set(m.header, "Signature-Input", b.inputs), "Signature", b.sigs)
        /\ IsResponse(msg)
    <2>1. ResponseShape(m)
      BY ExchangeAssumption
    <2>2. msg = [kind |-> "response", status |-> m.status,
                 header |-> Set(Set(m.header, "Signature-Input", b.inputs), "Signature", b.sigs),
                 trailer |-> m.trailer, related |-> request]
      BY <2>1, HeadersArrive
    <2> QED
      BY <2>2 DEF IsResponse
  <1> HIDE DEF msg, r
  <1>5. /\ Len(Get(msg.header, "Signature-Input")) \in Nat
        /\ Len(Get(msg.header, "Signature")) \in Nat
    BY <1>4, LinesArrive
  <1>6. SignaturesBuilt'
    BY <1>2 DEF RInv, SignaturesBuilt
  <1>7. OutcomeBuilt'
    <2>1. r.ok => /\ r.name \in DOMAIN made
                  /\ made[r.name].base = r.base
                  /\ WellFormedList(r.comps)
                  /\ Build(msg, r.comps, r.params) = [ok |-> TRUE, base |-> r.base]
                  /\ validateRequiredComponents(o.required, r.comps)
      BY <1>5, VerifyingCompares DEF r
    <2> QED
      BY <1>2, <1>3, <1>4, <2>1 DEF OutcomeBuilt, Accepted, Signing, Covered
  <1> QED
    BY <1>6, <1>7 DEF RInv

LEMMA RStep == RInv /\ [RNext]_rvars => RInv'
  <1> SUFFICES ASSUME RInv, [RNext]_rvars PROVE RInv'
    OBVIOUS
  <1>1. CASE Compose
    BY <1>1 DEF Compose, RInv, SignaturesBuilt, OutcomeBuilt, Accepted, Signing, Covered
  <1>2. CASE SignRequest
    <2>1. PICK n \in Names, s \in ClientSigners : signMessage(n, s, request, FALSE)
      BY <1>2 DEF SignRequest
    <2>2. s \in DOMAIN Signers /\ UNCHANGED outcome
      BY <1>2, ExchangeAssumption DEF SignRequest
    <2> QED
      BY <2>1, <2>2, SigningKeeps
  <1>3. CASE SignResponse
    <2>1. PICK n \in Names, s \in ServerSigners :
            \E msg, checked : signMessage(n, s, msg, checked)
      BY <1>3 DEF SignResponse
    <2>2. PICK msg, checked : signMessage(n, s, msg, checked)
      BY <2>1
    <2>3. s \in DOMAIN Signers /\ UNCHANGED outcome
      BY <1>3, ExchangeAssumption DEF SignResponse
    <2> QED
      BY <2>2, <2>3, SigningKeeps
  <1>4. CASE ReceiveAndVerify
    BY <1>4, ReceivingKeeps
  <1>5. CASE UNCHANGED rvars
    BY <1>5 DEF rvars, RInv, SignaturesBuilt, OutcomeBuilt, Accepted, Signing, Covered
  <1> QED
    BY <1>1, <1>2, <1>3, <1>4, <1>5 DEF RNext

\* Every reachable state has the invariant.
THEOREM Exchange == RSpec => []RInv
  BY RInitHolds, RStep, PTL DEF RSpec

-----------------------------------------------------------------------------
(* What follows of an accepted response.                                   *)

\* The signed message has every covered component, with the value it has in the
\* response if no value there is broken over lines.
LEMMA AcceptedAgrees ==
    ASSUME RInv, Accepted
    PROVE  /\ validateRequiredComponents(outcome.options.required, Covered)
           /\ \A i \in 1..Len(Covered) : extractComponentValue(Signing.msg, Covered[i]).ok
           /\ Unforged => \A i \in 1..Len(Covered) :
                SameValue(Signing.msg, outcome.resp, Covered[i])
  <1> DEFINE s == Signers[Signing.signer]
  <1>1. /\ WellFormedList(s.comps)
        /\ Build(Signing.msg, s.comps, s.params) = [ok |-> TRUE, base |-> Signing.base]
    <2>1. Signing.signer \in DOMAIN Signers
      BY DEF RInv, SignaturesBuilt, OutcomeBuilt, Signing
    <2>2. Build(Signing.msg, s.comps, s.params) = [ok |-> TRUE, base |-> Signing.base]
      BY DEF RInv, SignaturesBuilt, OutcomeBuilt, Signing
    <2> QED
      BY <2>1, <2>2, ExchangeAssumption
  <1>2. /\ WellFormedList(Covered)
        /\ Build(outcome.resp, Covered, outcome.result.params) =
             [ok |-> TRUE, base |-> Signing.base]
    BY DEF RInv, OutcomeBuilt
  <1> HIDE DEF s
  <1>3. /\ s.comps = Covered
        /\ OneLineEach(outcome.resp, Covered) =>
             \A i \in 1..Len(s.comps) : SameValue(Signing.msg, outcome.resp, s.comps[i])
    BY ONLY <1>1, <1>2, BaseInjective
  <1>4. \A i \in 1..Len(s.comps) : extractComponentValue(Signing.msg, s.comps[i]).ok
    <2>1. Len(s.comps) \in Nat
      BY <1>1 DEF WellFormedList
    <2> QED
      BY ONLY <1>1, <2>1, BaseText
  <1> QED
    BY <1>3, <1>4 DEF RInv, OutcomeBuilt, Unforged

\* Every component a client requires is among those the signature covers, with
\* the value that was signed, where no value the client sees is broken over lines
\* (validateRequiredComponents, Build).
THEOREM RequiredComponentsWereSigned == RSpec => []RequiredWereSigned
  <1>1. RInv => RequiredWereSigned
    <2> SUFFICES ASSUME RInv, Accepted, Unforged, NEW r \in outcome.options.required
                 PROVE  SameValue(Signing.msg, outcome.resp, r)
      BY DEF RequiredWereSigned
    <2>1. PICK i \in 1..Len(Covered) : Covered[i] = r
      BY AcceptedAgrees DEF validateRequiredComponents, componentEqual
    <2> QED
      BY <2>1, AcceptedAgrees
  <1> QED
    BY <1>1, Exchange, PTL

\* A response that is accepted with a component of its request was signed as a
\* response: extractFromRelatedRequest refuses everything else.
THEOREM NoRequestIsReflected == RSpec => []NoReflection
  <1>1. RInv => NoReflection
    <2> SUFFICES ASSUME RInv, Accepted, CoversRequest PROVE IsResponse(Signing.msg)
      BY DEF NoReflection
    <2>1. PICK i \in 1..Len(Covered) : hasReqParameter(Covered[i])
      BY DEF CoversRequest
    <2>2. extractComponentValue(Signing.msg, Covered[i]).ok
      BY AcceptedAgrees
    <2> QED
      BY <2>1, <2>2 DEF extractComponentValue, extractFromRelatedRequest, Error
  <1> QED
    BY <1>1, Exchange, PTL

\* The request a server answered and the one the client asks about agree in
\* every component of the request that the accepted response covers, where no
\* value the client sees is broken over lines.
THEOREM ResponseAnswersTheRequest == RSpec => []AnswersMyRequest
  <1>1. RInv => AnswersMyRequest
    <2> SUFFICES ASSUME RInv, Accepted, NEW i \in 1..Len(Covered),
                        hasReqParameter(Covered[i])
                 PROVE  /\ Signing.msg.related # NoRequest
                        /\ Unforged => SameInRequests(Signing.msg.related, Asked,
                                                      WithoutReq(Covered[i]))
      BY DEF AnswersMyRequest
    <2> DEFINE c == Covered[i]
    <2>1. /\ extractComponentValue(Signing.msg, c).ok
          /\ Unforged => SameValue(Signing.msg, outcome.resp, c)
      BY AcceptedAgrees
    <2>2. ASSUME NEW msg, extractComponentValue(msg, c).ok
          PROVE  /\ msg.related # NoRequest
                 /\ extractComponentValue(msg, c) = ExtractHere(msg.related, WithoutReq(c))
      BY <2>2 DEF extractComponentValue, extractFromRelatedRequest, Error
    <2> HIDE DEF c
    <2>3. /\ Signing.msg.related # NoRequest
          /\ Unforged => SameInRequests(Signing.msg.related, outcome.resp.related, WithoutReq(c))
      BY <2>1, <2>2 DEF SameValue, SameInRequests
    <2> QED
      BY <2>3 DEF Asked, c
  <1> QED
    BY <1>1, Exchange, PTL

-----------------------------------------------------------------------------
(* The signature of the request.                                           *)

LEMMA SInitHolds == RInit => SInv
  <1> SUFFICES ASSUME RInit PROVE SInv
    OBVIOUS
  <1>1. RInv
    BY RInitHolds
  <1>2. request \in Requests /\ DOMAIN made = {} /\ outcome = NoOutcome
    BY DEF RInit
  <1>3. RequestShape(request) /\ Lines(request.header, "Signature") = <<>>
    BY <1>2, ExchangeAssumption DEF Lines
  <1> QED
    BY <1>1, <1>2, <1>3 DEF SInv, Formed, ServerKnows, Shared, OutcomeKnown, OneSignature

\* What signMessage leaves of the invariant, whatever it signs.
LEMMA SigningKeepsKnown ==
    ASSUME SInv, NEW n \in Names, NEW s, NEW msg, NEW checked \in BOOLEAN,
           signMessage(n, s, msg, checked), UNCHANGED outcome,
           IF IsResponse(msg) THEN ResponseShape(msg) ELSE RequestShape(msg),
           \A j \in Names :
             /\ checked /\ msg.related # NoRequest
             /\ Lines(msg.related.header, "Signature") # <<>>
             /\ canonicalizeFieldValues(Lines(msg.related.header, "Signature")) = <<j>>
             => j \in DOMAIN made /\ Shared(j, msg.related)
    PROVE  /\ DOMAIN made' = DOMAIN made \cup {n} /\ DOMAIN made' \subseteq Names
           /\ \A k \in DOMAIN made' : IF IsResponse(made'[k].msg) THEN ResponseShape(made'[k].msg)
                                      ELSE RequestShape(made'[k].msg)
           /\ ServerKnows' /\ OutcomeKnown'
  <1> DEFINE entry == [signer |-> s, msg |-> msg,
                       base |-> Build(msg, Signers[s].comps, Signers[s].params).base,
                       checked |-> checked]
  <1>1. n \notin DOMAIN made /\ made' = Set(made, n, entry)
    BY DEF signMessage
  <1>2. /\ DOMAIN made' = DOMAIN made \cup {n}
        /\ made'[n] = entry
        /\ \A k \in DOMAIN made : made'[k] = made[k]
    BY <1>1 DEF Set
  <1>3. entry.msg = msg /\ entry.checked = checked
    OBVIOUS
  <1> HIDE DEF entry
  <1>4. DOMAIN made' \subseteq Names
    BY <1>2 DEF SInv, Formed
  <1>5. ASSUME NEW k \in DOMAIN made'
        PROVE  IF IsResponse(made'[k].msg) THEN ResponseShape(made'[k].msg)
               ELSE RequestShape(made'[k].msg)
    <2>1. CASE k = n
      BY <1>2, <1>3, <2>1
    <2>2. CASE k \in DOMAIN made
      BY <1>2, <2>2 DEF SInv, Formed
    <2> QED
      BY <1>2, <2>1, <2>2
  <1>6. ASSUME NEW k \in DOMAIN made', NEW j \in Names,
               made'[k].checked, made'[k].msg.related # NoRequest,
               Lines(made'[k].msg.related.header, "Signature") # <<>>,
               canonicalizeFieldValues(Lines(made'[k].msg.related.header, "Signature")) = <<j>>
        PROVE  /\ j \in DOMAIN made'
               /\ Shared(j, made[k].msg.related)'
    <2>1. CASE k = n
      <3>1. made'[k].msg = msg /\ made'[k].checked = checked
        BY <1>2, <1>3, <2>1
      <3>2. j \in DOMAIN made /\ Shared(j, msg.related)
        BY <1>6, <3>1
      <3> QED
        BY <1>2, <3>1, <3>2 DEF Shared
    <2>2. CASE k \in DOMAIN made
      <3>1. made'[k] = made[k]
        BY <1>2, <2>2
      <3>2. j \in DOMAIN made /\ Shared(j, made[k].msg.related)
        BY <1>6, <2>2, <3>1 DEF SInv, ServerKnows
      <3> QED
        BY <1>2, <3>1, <3>2 DEF Shared
    <2> QED
      BY <1>2, <2>1, <2>2
  <1>7. ServerKnows'
    BY <1>6 DEF ServerKnows
  <1>8. OutcomeKnown'
    BY <1>2 DEF SInv, OutcomeKnown, OneSignature, Asked
  <1> QED
    BY <1>2, <1>4, <1>5, <1>7, <1>8

\* A request the server accepts with the signature j, and no other, has the values
\* that were signed with it.
LEMMA VerifiedWith ==
    ASSUME RInv, NEW j \in DOMAIN made, NEW req, NEW o, VerifyRequest(req, o).ok,
           Lines(req.header, "Signature") = << <<j>> >>,
           Len(Get(req.header, "Signature-Input")) \in Nat
    PROVE  Shared(j, req)
  <1> DEFINE r    == verifyMessage(req, o)
             sigs == SigsOf(Get(req.header, "Signature"))
             s    == Signers[made[j].signer]
             label == [n \in DOMAIN made |-> Signers[made[n].signer].label]
  <1>1. Get(req.header, "Signature") = <<j>> /\ Len(<<j>>) = 1
    BY DEF Get
  <1>2. sigs = [l \in {label[j]} |-> j]
    BY <1>1, DictionaryOfOne DEF SigsOf
  <1>3. r.ok /\ Len(Get(req.header, "Signature")) \in Nat
    BY <1>1 DEF VerifyRequest
  <1>4. /\ \E l \in DOMAIN sigs : r.name = sigs[l]
        /\ made[r.name].base = r.base
        /\ WellFormedList(r.comps)
        /\ Build(req, r.comps, r.params) = [ok |-> TRUE, base |-> r.base]
    BY <1>3, VerifyingCompares
  <1> HIDE DEF r, sigs
  <1>5. r.name = j
    BY <1>2, <1>4
  <1>6. /\ made[j].signer \in DOMAIN Signers
        /\ Build(made[j].msg, s.comps, s.params) = [ok |-> TRUE, base |-> made[j].base]
    BY DEF RInv, SignaturesBuilt
  <1>7. WellFormedList(s.comps)
    BY <1>6, ExchangeAssumption
  <1>8. Build(req, r.comps, r.params) = [ok |-> TRUE, base |-> made[j].base]
    BY <1>4, <1>5
  <1> HIDE DEF s
  <1>9. /\ r.comps = s.comps
        /\ OneLineEach(made[j].msg, s.comps) =>
             \A i \in 1..Len(r.comps) : SameValue(req, made[j].msg, r.comps[i])
    BY ONLY <1>4, <1>6, <1>7, <1>8, BaseInjective
  <1> QED
    BY <1>9 DEF s, Shared, SameValue

LEMMA RequestSigned == ASSUME SInv, SignRequest, RInv' PROVE SInv'
  <1>1. PICK n \in Names, s \in ClientSigners :
          /\ signMessage(n, s, request, FALSE)
          /\ request' = WithHeaders(request, << <<s>> >>, << <<n>> >>)
    BY DEF SignRequest
  <1>2. UNCHANGED outcome /\ RequestShape(request)
    BY DEF SignRequest, SInv, Formed
  <1>3. ~IsResponse(request)
    <2> DEFINE q == RequestOf(request.method, request.url, request.Host, request.tls,
                              request.header, request.trailer)
    <2>1. request = q
      BY <1>2 DEF RequestShape, RequestOf
    <2>2. q.kind = "request"
      BY RequestFields
    <2> HIDE DEF q
    <2> QED
      BY <2>1, <2>2 DEF IsResponse
  <1>4. /\ DOMAIN made' = DOMAIN made \cup {n} /\ DOMAIN made' \subseteq Names
        /\ \A k \in DOMAIN made' : IF IsResponse(made'[k].msg) THEN ResponseShape(made'[k].msg)
                                   ELSE RequestShape(made'[k].msg)
        /\ ServerKnows' /\ OutcomeKnown'
    BY <1>1, <1>2, <1>3, SigningKeepsKnown
  <1>5. /\ RequestShape(request')
        /\ request'.header = Set(Set(request.header, "Signature-Input", << <<s>> >>),
                                 "Signature", << <<n>> >>)
    BY <1>1, <1>2, SignedShape
  <1>6. Lines(request'.header, "Signature") = << <<n>> >>
    BY <1>5, FieldsFound
  <1> QED
    BY <1>4, <1>5, <1>6 DEF SInv, Formed, OneSignature

LEMMA ResponseSigned == ASSUME SInv, SignResponse, RInv' PROVE SInv'
  <1>1. PICK n \in Names \ DOMAIN made, q \in Requests, b \in Bundles, o \in ServerOptions :
          LET arrived == ServerView(Carrying(q, b))
          IN  /\ o # NoVerifier => VerifyRequest(arrived, o).ok
              /\ \E s \in ServerSigners, m \in Responses, related \in {arrived, NoRequest} :
                   signMessage(n, s, [m EXCEPT !.related = related], o # NoVerifier)
    BY DEF SignResponse
  <1> DEFINE arrived == ServerView(Carrying(q, b))
  <1>2. PICK s \in ServerSigners, m \in Responses, related \in {arrived, NoRequest} :
          signMessage(n, s, [m EXCEPT !.related = related], o # NoVerifier)
    BY <1>1
  <1> DEFINE msg == [m EXCEPT !.related = related]
  <1>3. UNCHANGED <<request, outcome>>
    BY DEF SignResponse
  <1>4. msg.related = related /\ ResponseShape(msg) /\ IsResponse(msg)
    <2>1. ResponseShape(m)
      BY ExchangeAssumption
    <2> QED
      BY <2>1 DEF ResponseShape, IsResponse
  <1>5. arrived.header = Set(Set(q.header, "Signature-Input", b.inputs), "Signature", b.sigs)
    BY HeadersArrive, ExchangeAssumption
  <1>6. Lines(arrived.header, "Signature") = b.sigs
    BY <1>5, FieldsFound
  <1>7. (o # NoVerifier) \in BOOLEAN /\ ((o # NoVerifier) => VerifyRequest(arrived, o).ok)
    BY <1>1
  <1>8. PICK checked \in BOOLEAN :
          signMessage(n, s, msg, checked) /\ (checked => VerifyRequest(arrived, o).ok)
    BY <1>2, <1>7, Zenon
  <1> HIDE DEF arrived, msg
  <1>9. ASSUME NEW j \in Names, checked, msg.related # NoRequest,
               Lines(msg.related.header, "Signature") # <<>>,
               canonicalizeFieldValues(Lines(msg.related.header, "Signature")) = <<j>>
        PROVE  j \in DOMAIN made /\ Shared(j, msg.related)
    <2>1. msg.related = arrived
      BY <1>4, <1>9
    <2>2. b.sigs # <<>> /\ canonicalizeFieldValues(b.sigs) = <<j>>
      BY <1>6, <1>9, <2>1
    <2>3. b.sigs = << <<j>> >> /\ j \in DOMAIN made
      BY <2>2, BundleText DEF SInv, Formed
    <2>4. Lines(arrived.header, "Signature") = << <<j>> >>
      BY <1>6, <2>3
    <2>5. Len(Get(arrived.header, "Signature-Input")) \in Nat
      BY <1>5, LinesArrive
    <2> QED
      BY <1>8, <1>9, <2>1, <2>3, <2>4, <2>5, VerifiedWith DEF SInv
  <1>10. /\ DOMAIN made' = DOMAIN made \cup {n} /\ DOMAIN made' \subseteq Names
         /\ \A k \in DOMAIN made' : IF IsResponse(made'[k].msg) THEN ResponseShape(made'[k].msg)
                                    ELSE RequestShape(made'[k].msg)
         /\ ServerKnows' /\ OutcomeKnown'
    <2>1. IF IsResponse(msg) THEN ResponseShape(msg) ELSE RequestShape(msg)
      BY <1>4
    <2>2. SInv /\ n \in Names /\ UNCHANGED outcome
      BY <1>3
    <2> QED
      BY ONLY <1>8, <1>9, <2>1, <2>2, SigningKeepsKnown
  <1> QED
    BY <1>3, <1>10 DEF SInv, Formed, OneSignature

LEMMA ResponseReceived == ASSUME SInv, ReceiveAndVerify, RInv' PROVE SInv'
  <1>1. PICK m \in Responses, b \in Bundles, o \in ClientOptions :
          outcome' = [resp    |-> [Carrying(m, b) EXCEPT !.related = request],
                      options |-> o,
                      result  |-> VerifyResponse(Carrying(m, b), request, o)]
    BY DEF ReceiveAndVerify
  <1>2. UNCHANGED <<request, made>>
    BY DEF ReceiveAndVerify
  <1> DEFINE msg == [Carrying(m, b) EXCEPT !.related = request]
  <1>3. outcome'.resp = msg
    BY <1>1
  <1>4. msg = [kind |-> "response", status |-> m.status,
               header |-> Set(Set(m.header, "Signature-Input", b.inputs), "Signature", b.sigs),
               trailer |-> m.trailer, related |-> request]
    BY HeadersArrive, ExchangeAssumption
  <1>5. /\ msg.header = Set(Set(m.header, "Signature-Input", b.inputs), "Signature", b.sigs)
        /\ msg.related = request
    BY <1>4
  <1> HIDE DEF msg
  <1>6. Lines(msg.header, "Signature") = b.sigs
    BY <1>5, FieldsFound
  <1>7. \/ Lines(Asked'.header, "Signature") = <<>>
        \/ \E n \in DOMAIN made' : Lines(Asked'.header, "Signature") = << <<n>> >>
    <2>1. Asked' = request
      BY <1>3, <1>5 DEF Asked
    <2>2. \/ Lines(request.header, "Signature") = <<>>
          \/ \E n \in DOMAIN made : Lines(request.header, "Signature") = << <<n>> >>
      BY DEF SInv, Formed, OneSignature
    <2> QED
      BY <1>2, <2>1, <2>2
  <1>8. ASSUME NEW n \in Names, Lines(msg.header, "Signature") = << <<n>> >>
        PROVE  n \in DOMAIN made
    <2>1. b.sigs = << <<n>> >>
      BY <1>6, <1>8
    <2>2. << <<n>> >> # <<>>
      OBVIOUS
    <2>3. canonicalizeFieldValues(<< <<n>> >>) = <<n>>
      BY OneText
    <2>4. b.sigs # <<>> /\ canonicalizeFieldValues(b.sigs) = <<n>>
      BY <2>1, <2>2, <2>3, Zenon
    <2> QED
      BY <2>4, BundleText DEF SInv, Formed
  <1>9. OutcomeKnown'
    BY <1>2, <1>3, <1>7, <1>8 DEF OutcomeKnown
  <1>10. Formed' /\ ServerKnows'
    BY <1>2 DEF SInv, Formed, ServerKnows, Shared, OneSignature
  <1> QED
    BY <1>9, <1>10 DEF SInv

LEMMA SStep == SInv /\ [RNext]_rvars => SInv'
  <1> SUFFICES ASSUME SInv, [RNext]_rvars PROVE SInv'
    OBVIOUS
  <1>1. RInv'
    BY RStep DEF SInv
  <1>2. CASE Compose
    <2>1. request' \in Requests /\ UNCHANGED <<made, outcome>>
      BY <1>2 DEF Compose
    <2>2. RequestShape(request') /\ Lines(request'.header, "Signature") = <<>>
      BY <2>1, ExchangeAssumption DEF Lines
    <2> QED
      BY <1>1, <2>1, <2>2 DEF SInv, Formed, ServerKnows, Shared, OutcomeKnown, OneSignature, Asked
  <1>3. CASE UNCHANGED rvars
    BY <1>1, <1>3 DEF rvars, SInv, Formed, ServerKnows, Shared, OutcomeKnown, OneSignature, Asked
  <1> QED
    BY <1>1, <1>2, <1>3, RequestSigned, ResponseSigned, ResponseReceived DEF RNext

\* Every reachable state has the invariant.
THEOREM SignaturesKnown == RSpec => []SInv
  BY SInitHolds, SStep, PTL DEF RSpec

\* What the client's signature covers has reached a server that verified the
\* request and signs its signature with the response: the field text that
\* extractHTTPFieldValue compares names the signature verifyMessage accepted.
THEOREM ServerSawTheRequest == RSpec => []RequestReachedServer
  <1>1. SInv => RequestReachedServer
    <2> SUFFICES ASSUME SInv, Accepted, Unforged, SignatureReq \in outcome.options.required,
                        Signing.checked
                 PROVE  LET ours  == made[Get(Asked.header, "Signature")[1]]
                            comps == Signers[ours.signer].comps
                        IN  OneLineEach(ours.msg, comps) =>
                              \A i \in 1..Len(comps) :
                                SameValue(ours.msg, Signing.msg.related, comps[i])
      BY DEF RequestReachedServer
    <2> DEFINE seen == Signing.msg.related
               SignatureLines(q) == Lines(q.header, "Signature")
    <2>1. RInv /\ outcome.result.name \in DOMAIN made
      BY DEF SInv, RInv, OutcomeBuilt
    <2>2. SameValue(Signing.msg, outcome.resp, SignatureReq)
      <3>1. PICK i \in 1..Len(Covered) : Covered[i] = SignatureReq
        BY <2>1, AcceptedAgrees DEF validateRequiredComponents, componentEqual
      <3> QED
        BY <2>1, <3>1, AcceptedAgrees
    <2>3. /\ extractComponentValue(Signing.msg, SignatureReq).ok
          /\ extractComponentValue(outcome.resp, SignatureReq).ok
          /\ extractComponentValue(Signing.msg, SignatureReq).text
               = extractComponentValue(outcome.resp, SignatureReq).text
      BY <2>2 DEF SameValue
    <2>4. /\ seen # NoRequest /\ SignatureLines(seen) # <<>> /\ SignatureLines(Asked) # <<>>
          /\ canonicalizeFieldValues(SignatureLines(seen))
               = canonicalizeFieldValues(SignatureLines(Asked))
      BY <2>3, SignatureOfRequest DEF Asked
    <2>5. PICK n \in DOMAIN made : SignatureLines(Asked) = << <<n>> >>
      BY <2>4 DEF SInv, OutcomeKnown, OneSignature, Accepted
    <2>6. n \in Names /\ canonicalizeFieldValues(SignatureLines(seen)) = <<n>>
      <3>1. n \in Names
        BY DEF SInv, Formed
      <3> QED
        BY <2>4, <2>5, <3>1, OneText
    <2>7. Shared(n, seen)
      BY <2>1, <2>4, <2>6 DEF SInv, ServerKnows, Signing
    <2>8. Get(Asked.header, "Signature")[1] = n
      BY <2>5 DEF Get
    <2> QED
      BY <2>7, <2>8 DEF Shared
  <1> QED
    BY <1>1, SignaturesKnown, PTL

-----------------------------------------------------------------------------
(* A response that comes back to its request.                              *)

\* Two responses that differ in the two signature headers only give the same
\* value to every component of their own that names neither.
LEMMA SameButHeaders ==
    ASSUME NEW m, NEW n, IsResponse(m), IsResponse(n),
           m.status = n.status, m.trailer = n.trailer,
           \A key : key \notin {"Signature", "Signature-Input"} =>
             Lines(m.header, key) = Lines(n.header, key),
           NEW c, ~hasReqParameter(c), ~SelfCovering(c)
    PROVE  extractComponentValue(m, c) = extractComponentValue(n, c)
  <1>1. extractComponentValue(m, c) = ExtractHere(m, c)
        /\ extractComponentValue(n, c) = ExtractHere(n, c)
    BY DEF extractComponentValue
  <1>2. ~IsRequest(m) /\ ~IsRequest(n)
    BY DEF IsRequest, IsResponse
  <1>3. HeaderValues(m, c.name) = HeaderValues(n, c.name)
    BY DEF HeaderValues, SelfCovering
  <1>4. TrailerValues(m, c.name) = TrailerValues(n, c.name)
    BY DEF TrailerValues
  <1>5. extractHTTPFieldValue(m, c) = extractHTTPFieldValue(n, c)
    BY <1>3, <1>4 DEF extractHTTPFieldValue
  <1>6. /\ extractMethod(m) = extractMethod(n) /\ extractTargetURI(m) = extractTargetURI(n)
        /\ extractAuthority(m) = extractAuthority(n) /\ extractScheme(m) = extractScheme(n)
        /\ extractRequestTarget(m) = extractRequestTarget(n)
        /\ extractPath(m) = extractPath(n) /\ extractQuery(m) = extractQuery(n)
    BY <1>2 DEF extractMethod, extractTargetURI, extractAuthority, extractScheme,
                extractRequestTarget, extractPath, extractQuery, FromURL
  <1>7. extractQueryParam(m, c) = extractQueryParam(n, c)
    BY <1>2 DEF extractQueryParam
  <1>8. extractStatus(m) = extractStatus(n)
    BY DEF extractStatus
  <1>9. extractDerivedComponentValue(m, c) = extractDerivedComponentValue(n, c)
    BY <1>6, <1>7, <1>8 DEF extractDerivedComponentValue
  <1> QED
    BY <1>1, <1>5, <1>9 DEF ExtractHere

\* Two messages that give every component the same value have one base.
LEMMA SameBase ==
    ASSUME NEW m, NEW n, NEW comps, NEW params,
           \A i \in 1..Len(comps) :
             extractComponentValue(m, comps[i]) = extractComponentValue(n, comps[i])
    PROVE  Build(m, comps, params) = Build(n, comps, params)
  <1>1. [i \in 1..Len(comps) |-> extractComponentValue(m, comps[i])] =
          [i \in 1..Len(comps) |-> extractComponentValue(n, comps[i])]
    OBVIOUS
  <1> QED
    BY <1>1 DEF Build

-----------------------------------------------------------------------------
(* The response as it was signed.                                          *)

\* A Signature-Input line of one member is read as the Signer had it, if it is read
\* at all.
LEMMA OwnEntry ==
    ASSUME NEW s \in DOMAIN Signers, ParseSignatureInput(SignatureInputs(<<s>>)).ok
    PROVE  ParseSignatureInput(SignatureInputs(<<s>>)).signatures =
             [l \in {Signers[s].label} |->
                [ok |-> TRUE, comps |-> Signers[s].comps, params |-> Signers[s].params]]
  <1> DEFINE cs    == Signers[s].comps
             p     == Signers[s].params
             label == Signers[s].label
             dict  == SignatureInputs(<<s>>)
             m     == serializeSignatureInput(cs, p).member
             entry == [ok |-> TRUE, comps |-> cs, params |-> p]
  <1>1. WellFormedList(cs) /\ TypedParams(p) /\ serializeSignatureInput(cs, p).ok
    BY ExchangeAssumption
  <1>2. dict = [l \in {label} |-> m]
    <2> DEFINE labels == [t \in DOMAIN Signers |-> Signers[t].label]
    <2>1. s \in DOMAIN labels /\ labels[s] = label
      OBVIOUS
    <2> HIDE DEF labels
    <2>2. DictionaryOf(<<s>>, labels) = [l \in {label} |-> s]
      BY <2>1, DictionaryOfOne
    <2>3. InputsOf(<<s>>) = [l \in {label} |-> s]
      BY <2>2 DEF InputsOf, labels
    <2>4. MemberOf[s] = m
      BY DEF MemberOf
    <2> HIDE DEF label, m
    <2> QED
      BY <2>3, <2>4 DEF SignatureInputs
  <1> HIDE DEF dict
  <1>3. /\ parseSignatureEntryFromInput(m).ok
        /\ ParseSignatureInput(dict).signatures = [l \in {label} |-> parseSignatureEntryFromInput(m)]
    <2>1. ParseSignatureInput(dict).ok
      BY DEF dict
    <2> HIDE DEF m, label
    <2> QED
      BY <1>2, <2>1 DEF ParseSignatureInput
  <1>4. parseSignatureEntryFromInput(m) = entry
    <2> DEFINE n     == Len(cs)
               items == [i \in 1..n |-> [name |-> cs[i].name, params |-> cs[i].params]]
               back  == [i \in 1..Len(items) |-> ParsedComponent(items[i])]
    <2>1. /\ n \in Nat /\ cs = [i \in 1..n |-> cs[i]]
          /\ \A i \in 1..n : ParsedComponent(cs[i]) = cs[i]
      BY <1>1 DEF WellFormedList, WellFormed
    <2>2. m.items = items
      BY <1>1 DEF serializeSignatureInput
    <2>3. Len(items) = n
      BY <2>1, LenOf
    <2>4. \A i \in 1..n : back[i] = cs[i]
      <3>1. \A i \in 1..n : ParsedComponent(items[i]) = ParsedComponent(cs[i])
        BY DEF ParsedComponent
      <3> QED
        BY <2>1, <2>3, <3>1
    <2>5. Len(back) = n
      BY <2>1, <2>3, LenOf
    <2>6. \A i \in 1..n : validateComponentIdentifier(cs[i])
      <3>1. \A i \in 1..Len(back) : validateComponentIdentifier(back[i])
        <4>1. ASSUME NEW i \in 1..Len(back), ~validateComponentIdentifier(back[i])
              PROVE  ~parseSignatureEntryFromInput(m).ok
          <5>1. back = [k \in 1..Len(m.items) |-> ParsedComponent(m.items[k])]
            BY <2>2
          <5> HIDE DEF back, m
          <5>2. parseSignatureEntryFromInput(m) = [ok |-> FALSE]
            BY <4>1, <5>1 DEF parseSignatureEntryFromInput
          <5> QED
            BY <5>2
        <4> HIDE DEF back, m
        <4> QED
          BY <1>3, <4>1
      <3> HIDE DEF back
      <3> QED
        BY <2>4, <2>5, <3>1
    <2> HIDE DEF cs, p
    <2> QED
      BY <1>1, <2>1, <2>6, EntryReadBack
  <1> HIDE DEF cs, p, m, label
  <1>5. ParseSignatureInput(dict).signatures = [l \in {label} |-> entry]
    BY <1>3, <1>4
  <1> QED
    BY <1>5 DEF dict, label, cs, p

\* verifyMessage accepts a message that has the base of the signature it carries,
\* if the options ask for it.
LEMMA OwnVerifies ==
    ASSUME RInv, NEW n \in DOMAIN made, NEW msg, NEW o,
           Lines(msg.header, "Signature-Input") = << <<made[n].signer>> >>,
           Lines(msg.header, "Signature") = << <<n>> >>,
           ParseSignatureInput(SignatureInputs(<<made[n].signer>>)).ok,
           Signers[made[n].signer].key = o.key,
           o.label \in {"", Signers[made[n].signer].label},
           validateRequiredComponents(o.required, Signers[made[n].signer].comps),
           Build(msg, Signers[made[n].signer].comps, Signers[made[n].signer].params)
             = [ok |-> TRUE, base |-> made[n].base]
    PROVE  verifyMessage(msg, o).ok
  <1> DEFINE s      == Signers[made[n].signer]
             line   == <<made[n].signer>>
             input  == Get(msg.header, "Signature-Input")
             sigs   == SigsOf(Get(msg.header, "Signature"))
             parsed == ParseSignatureInput(SignatureInputs(input))
             label  == SelectLabel(o, parsed.signatures)
             entry  == [ok |-> TRUE, comps |-> s.comps, params |-> s.params]
             labels == [k \in DOMAIN made |-> Signers[made[k].signer].label]
  <1>1. input = line /\ Get(msg.header, "Signature") = <<n>>
    <2>1. \A x : << <<x>> >> # <<>> /\ << <<x>> >>[1] = <<x>>
      OBVIOUS
    <2> HIDE DEF line
    <2>2. Lines(msg.header, "Signature-Input") = <<line>> /\ <<line>> # <<>> /\ <<line>>[1] = line
      BY <2>1 DEF line
    <2> QED
      BY <2>1, <2>2 DEF Get
  <1>2. line # <<>> /\ <<n>> # <<>>
    OBVIOUS
  <1>3. sigs = [l \in {s.label} |-> n]
    <2>1. n \in DOMAIN labels /\ labels[n] = s.label
      OBVIOUS
    <2> HIDE DEF labels, s
    <2>2. DictionaryOf(<<n>>, labels) = [l \in {s.label} |-> n]
      BY ONLY <2>1, DictionaryOfOne
    <2> QED
      BY <1>1, <2>2 DEF SigsOf, labels
  <1>4. parsed.ok /\ parsed.signatures = [l \in {s.label} |-> entry]
    <2>1. made[n].signer \in DOMAIN Signers
      BY DEF RInv, SignaturesBuilt
    <2> QED
      BY <1>1, <2>1, OwnEntry
  <1> HIDE DEF sigs, parsed, input, line
  <1>5. label = s.label
    <2>1. DOMAIN parsed.signatures = {s.label}
      BY <1>4
    <2>2. Cardinality({s.label}) = 1
      BY FS_Singleton
    <2>3. (CHOOSE l \in {s.label} : TRUE) = s.label
      OBVIOUS
    <2> HIDE DEF s
    <2> QED
      BY <2>1, <2>2, <2>3 DEF SelectLabel, s
  <1> HIDE DEF label
  <1>6. parsed.signatures[label] = entry /\ sigs[label] = n
    BY <1>3, <1>4, <1>5
  <1>7. entry.comps = s.comps /\ entry.params = s.params
    OBVIOUS
  <1> DEFINE built == Build(msg, s.comps, s.params)
  <1>8. built.ok /\ built.base = made[n].base
    <2>1. built = [ok |-> TRUE, base |-> made[n].base]
      OBVIOUS
    <2> HIDE DEF built
    <2> QED
      BY <2>1
  <1>9. label \in DOMAIN parsed.signatures /\ label \in DOMAIN sigs
    BY <1>3, <1>4, <1>5
  <1>10. SignatureValid(n, o.key, built.base)
    BY <1>8 DEF SignatureValid
  <1> HIDE DEF entry, built
  <1> QED
    BY <1>1, <1>2, <1>4, <1>6, <1>7, <1>8, <1>9, <1>10
    DEF verifyMessage, input, sigs, parsed, label, built, line

\* The client's request is one it composed, unsigned or with its last signature.
Composed ==
    \/ request \in Requests
    \/ \E q \in Requests, s \in ClientSigners, n \in Names :
         request = WithHeaders(q, << <<s>> >>, << <<n>> >>)

\* OwnResponseVerifies for signature n with the entry e and the outcome out.
AsSignedBy(n, e, out) ==
    /\ IsResponse(e.msg) /\ e.msg.related \in {NoRequest, ServerView(out.resp.related)}
    /\ out.resp = [Carrying(e.msg, Headers(<< <<e.signer>> >>, << <<n>> >>))
                     EXCEPT !.related = out.resp.related]

Own(n, e, out) ==
    LET s == Signers[e.signer]
        o == out.options
        q == out.resp.related
    IN  /\ AsSignedBy(n, e, out)
        /\ Portable(q) /\ NoBlankLine(q)
        /\ \A i \in 1..Len(s.comps) : ~SelfCovering(s.comps[i]) /\ URISafe(s.comps[i], q)
        /\ ParseSignatureInput(SignatureInputs(<<e.signer>>)).ok
        /\ s.key = o.key /\ o.label \in {"", s.label}
        /\ \A r \in o.required : \E i \in 1..Len(s.comps) : s.comps[i] = r
        => out.result.ok

OwnOutcome == outcome # NoOutcome => \A n \in DOMAIN made : Own(n, made[n], outcome)

OInv == SInv /\ Composed /\ OwnOutcome

LEMMA OwnOutcomeIs == OwnResponseVerifies <=> OwnOutcome
  BY DEF OwnResponseVerifies, OwnOutcome, Own, AsSigned, AsSignedBy, Asked, One, SignerOf

\* Signing again replaces the two headers.
LEMMA SignedAgain ==
    ASSUME NEW q, RequestShape(q), NEW a, NEW b, NEW c, NEW d
    PROVE  WithHeaders(WithHeaders(q, a, b), c, d) = WithHeaders(q, c, d)
  <1> DEFINE w == WithHeaders(q, a, b)
             H(h, x, y) == Set(Set(h, "Signature-Input", x), "Signature", y)
  <1>1. /\ q = RequestOf(q.method, q.url, q.Host, q.tls, q.header, q.trailer)
        /\ w = [q EXCEPT !.header = H(q.header, a, b)]
        /\ WithHeaders(w, c, d) = [w EXCEPT !.header = H(w.header, c, d)]
        /\ WithHeaders(q, c, d) = [q EXCEPT !.header = H(q.header, c, d)]
    BY DEF RequestShape, RequestOf, WithHeaders
  <1>2. \A h : H(H(h, a, b), c, d) = H(h, c, d)
    <2> SUFFICES ASSUME NEW h PROVE H(H(h, a, b), c, d) = H(h, c, d)
      OBVIOUS
    <2> DEFINE all == DOMAIN h \cup {"Signature-Input", "Signature"}
    <2>1. ASSUME NEW g, NEW x, NEW y
          PROVE  H(g, x, y) = [k \in DOMAIN g \cup {"Signature-Input", "Signature"} |->
                                 IF k = "Signature" THEN y
                                 ELSE IF k = "Signature-Input" THEN x ELSE g[k]]
      <3> DEFINE f == Set(g, "Signature-Input", x)
      <3>1. f = [k \in DOMAIN g \cup {"Signature-Input"} |->
                   IF k = "Signature-Input" THEN x ELSE g[k]]
        BY DEF Set
      <3>2. Set(f, "Signature", y) =
              [k \in DOMAIN f \cup {"Signature"} |-> IF k = "Signature" THEN y ELSE f[k]]
        BY DEF Set
      <3> HIDE DEF f
      <3>3. DOMAIN f \cup {"Signature"} = DOMAIN g \cup {"Signature-Input", "Signature"}
        BY <3>1
      <3>4. \A k \in DOMAIN f : f[k] = IF k = "Signature-Input" THEN x ELSE g[k]
        BY <3>1
      <3>5. Set(f, "Signature", y) =
              [k \in DOMAIN g \cup {"Signature-Input", "Signature"} |->
                 IF k = "Signature" THEN y
                 ELSE IF k = "Signature-Input" THEN x ELSE g[k]]
        BY <3>2, <3>3, <3>4
      <3> QED
        BY <3>5 DEF f
    <2> HIDE DEF H
    <2>2. DOMAIN H(h, a, b) = all
      BY <2>1
    <2>3. \A k \in all : k \notin {"Signature-Input", "Signature"} => H(h, a, b)[k] = h[k]
      BY <2>1
    <2>4. DOMAIN H(h, a, b) \cup {"Signature-Input", "Signature"} = all
      BY <2>2
    <2>5. H(H(h, a, b), c, d) = [k \in all |->
                                   IF k = "Signature" THEN d
                                   ELSE IF k = "Signature-Input" THEN c ELSE H(h, a, b)[k]]
      BY <2>1, <2>4
    <2> QED
      BY <2>1, <2>3, <2>5
  <1> HIDE DEF H, w
  <1>3. w = RequestOf(q.method, q.url, q.Host, q.tls, H(q.header, a, b), q.trailer)
    BY ONLY <1>1, RequestFields
  <1>4. w.header = H(q.header, a, b)
    BY <1>3, RequestFields
  <1>5. WithHeaders(w, c, d) =
          RequestOf(q.method, q.url, q.Host, q.tls, H(q.header, c, d), q.trailer)
    <2>1. WithHeaders(w, c, d) = [w EXCEPT !.header = H(q.header, c, d)]
      BY <1>1, <1>2, <1>4
    <2> QED
      BY ONLY <1>3, <2>1, RequestFields
  <1>6. WithHeaders(q, c, d) =
          RequestOf(q.method, q.url, q.Host, q.tls, H(q.header, c, d), q.trailer)
    BY ONLY <1>1, RequestFields
  <1> QED
    BY <1>5, <1>6 DEF w

\* The client's request is a request: nil is none of those it composes.
LEMMA ComposedKeeps ==
    ASSUME SInv, Composed, [RNext]_rvars
    PROVE  Composed'
  <1>1. CASE UNCHANGED request
    BY <1>1 DEF Composed
  <1>2. CASE Compose
    BY <1>2 DEF Compose, Composed
  <1>3. CASE SignRequest
    <2>1. PICK n \in Names, s \in ClientSigners :
            request' = WithHeaders(request, << <<s>> >>, << <<n>> >>)
      BY <1>3 DEF SignRequest
    <2>2. CASE request \in Requests
      BY <2>1, <2>2 DEF Composed
    <2>3. CASE \E q \in Requests, t \in ClientSigners, k \in Names :
                 request = WithHeaders(q, << <<t>> >>, << <<k>> >>)
      <3>1. PICK q \in Requests, t \in ClientSigners, k \in Names :
                   request = WithHeaders(q, << <<t>> >>, << <<k>> >>)
        BY <2>3
      <3>2. RequestShape(q)
        BY ExchangeAssumption
      <3>3. \A a, b, c, d : WithHeaders(WithHeaders(q, a, b), c, d) = WithHeaders(q, c, d)
        BY <3>2, SignedAgain
      <3>4. request' = WithHeaders(q, << <<s>> >>, << <<n>> >>)
        BY ONLY <2>1, <3>1, <3>3
      <3> QED
        BY <3>4 DEF Composed
    <2> QED
      BY <2>2, <2>3 DEF Composed
  <1> QED
    BY <1>1, <1>2, <1>3 DEF RNext, SignResponse, ReceiveAndVerify, rvars

\* A new signature cannot be the one of the response that has been verified.
LEMMA OwnStays ==
    ASSUME SInv, OwnOutcome, SInv', NEW n, NEW s, NEW msg, NEW checked,
           signMessage(n, s, msg, checked), UNCHANGED outcome
    PROVE  OwnOutcome'
  <1>1. n \notin DOMAIN made /\ n \in DOMAIN made'
        /\ DOMAIN made' = DOMAIN made \cup {n} /\ \A k \in DOMAIN made : made'[k] = made[k]
    BY DEF signMessage, Set
  <1> SUFFICES ASSUME outcome # NoOutcome, NEW k \in DOMAIN made'
               PROVE  Own(k, made'[k], outcome)
    BY DEF OwnOutcome
  <1>2. CASE k \in DOMAIN made
    BY <1>1, <1>2 DEF OwnOutcome
  <1>3. CASE k = n
    <2> DEFINE e == made'[n]
               b == Headers(<< <<e.signer>> >>, << <<n>> >>)
    <2>1. SUFFICES ASSUME AsSignedBy(n, e, outcome) PROVE FALSE
      BY <1>3 DEF Own
    <2>2. ResponseShape(e.msg)
      BY <1>1, <2>1 DEF SInv, Formed, AsSignedBy
    <2>3. outcome.resp = [Carrying(e.msg, b) EXCEPT !.related = outcome.resp.related]
      BY <2>1 DEF AsSignedBy
    <2>4. b \in Bundles'
      BY <1>1 DEF Bundles, One, SignerOf
    <2> HIDE DEF e
    <2>5. outcome.resp.header = Set(Set(e.msg.header, "Signature-Input", b.inputs),
                                    "Signature", b.sigs)
      <3> DEFINE q == outcome.resp.related
                 h == Set(Set(e.msg.header, "Signature-Input", b.inputs), "Signature", b.sigs)
      <3>1. [Carrying(e.msg, b) EXCEPT !.related = q].header = h
        BY <2>2 DEF ResponseShape, Carrying, WithHeaders
      <3> QED
        BY <2>3, <3>1
    <2>6. b.sigs = << <<n>> >>
      BY DEF Headers
    <2>7. Lines(outcome.resp.header, "Signature") = << <<n>> >>
      BY <2>5, <2>6, FieldsFound
    <2>8. n \in Names
      BY <1>1 DEF SInv, Formed
    <2> QED
      BY <1>1, <2>7, <2>8 DEF SInv, OutcomeKnown
  <1> QED
    BY <1>1, <1>2, <1>3

\* The response that comes back has the base it was signed with, once the client
\* takes the request it asked for the one the server saw.
LEMMA OwnBase ==
    ASSUME RInv, NEW n \in DOMAIN made, ResponseShape(made[n].msg), IsResponse(made[n].msg),
           NEW q, RequestShape(q), q # NoRequest, Portable(q),
           made[n].msg.related \in {NoRequest, ServerView(q)},
           NEW msg, ResponseShape(msg), msg.related = q,
           msg.status = made[n].msg.status, msg.trailer = made[n].msg.trailer,
           \A key : key \notin {"Signature", "Signature-Input"} =>
             Lines(msg.header, key) = Lines(made[n].msg.header, key),
           \A i \in 1..Len(Signers[made[n].signer].comps) :
             /\ ~SelfCovering(Signers[made[n].signer].comps[i])
             /\ URISafe(Signers[made[n].signer].comps[i], q)
    PROVE  Build(msg, Signers[made[n].signer].comps, Signers[made[n].signer].params)
             = [ok |-> TRUE, base |-> made[n].base]
  <1> DEFINE comps  == Signers[made[n].signer].comps
             params == Signers[made[n].signer].params
             m      == made[n].msg
             values == [i \in 1..Len(comps) |-> extractComponentValue(m, comps[i])]
  <1>1. /\ Build(m, comps, params) = [ok |-> TRUE, base |-> made[n].base]
        /\ WellFormedList(comps)
    BY ExchangeAssumption DEF RInv, SignaturesBuilt
  <1>2. IsResponse(m) /\ IsResponse(msg)
    <2>1. msg.kind = "response"
      BY DEF ResponseShape
    <2> QED
      BY <2>1 DEF IsResponse
  <1>3. \A i \in 1..Len(comps) : extractComponentValue(m, comps[i]).ok
    <2>1. BaseOf(comps, params, values) = [ok |-> TRUE, base |-> made[n].base]
      BY <1>1 DEF Build
    <2> HIDE DEF values, comps, params
    <2>2. \A i \in 1..Len(comps) : values[i].ok
      BY <2>1 DEF BaseOf
    <2> QED
      BY <2>2 DEF values
  <1>4. ASSUME NEW i \in 1..Len(comps)
        PROVE  extractComponentValue(msg, comps[i]) = extractComponentValue(m, comps[i])
    <2> DEFINE c == comps[i]
    <2>1. WellFormed(c) /\ ~SelfCovering(c) /\ URISafe(c, q) /\ extractComponentValue(m, c).ok
      BY <1>1, <1>3, <1>4 DEF WellFormedList
    <2> HIDE DEF c, m
    <2>2. CASE ~hasReqParameter(c)
      <3>1. extractComponentValue(msg, c) = extractComponentValue(m, c)
        BY <1>2, <2>1, <2>2, SameButHeaders DEF m
      <3> QED
        BY <3>1 DEF c
    <2>3. CASE hasReqParameter(c)
      <3>1. extractComponentValue(m, c) = extractFromRelatedRequest(m, c)
            /\ extractComponentValue(msg, c) = extractFromRelatedRequest(msg, c)
        BY <2>3 DEF extractComponentValue
      <3>2. extractFromRelatedRequest(msg, c) = ExtractHere(q, WithoutReq(c))
        BY <1>2 DEF extractFromRelatedRequest
      <3>3. m.related # NoRequest
        BY <2>1, <3>1 DEF extractFromRelatedRequest, Error
      <3>4. m.related = ServerView(q)
        BY <3>3 DEF m
      <3>5. extractFromRelatedRequest(m, c) = ExtractHere(ServerView(q), WithoutReq(c))
        BY <1>2, <3>3, <3>4 DEF extractFromRelatedRequest
      <3>6. WithoutReq(c).name = c.name
        BY <2>1 DEF WellFormed, WithoutReq
      <3>7. URISafe(WithoutReq(c), q)
        BY <2>1, <3>6 DEF URISafe
      <3>8. ExtractHere(ServerView(q), WithoutReq(c)) = ExtractHere(q, WithoutReq(c))
        BY <3>7, SameAtServer
      <3>9. extractComponentValue(msg, c) = extractComponentValue(m, c)
        BY <3>1, <3>2, <3>5, <3>8
      <3> QED
        BY <3>9 DEF c
    <2>4. extractComponentValue(msg, c) = extractComponentValue(m, c)
      BY <2>2, <2>3 DEF c
    <2> QED
      BY <2>4 DEF c
  <1> HIDE DEF m, comps, params
  <1>5. Build(msg, comps, params) = Build(m, comps, params)
    BY <1>4, SameBase
  <1> QED
    BY <1>1, <1>5 DEF comps, params

\* A response that comes back as it was signed is accepted.
LEMMA OwnReceived ==
    ASSUME SInv, Composed, ReceiveAndVerify
    PROVE  OwnOutcome'
  <1>1. UNCHANGED <<request, made>>
    BY DEF ReceiveAndVerify
  <1>2. PICK m \in Responses, b \in Bundles, o \in ClientOptions :
          outcome' = [resp    |-> [Carrying(m, b) EXCEPT !.related = request],
                      options |-> o,
                      result  |-> VerifyResponse(Carrying(m, b), request, o)]
    BY DEF ReceiveAndVerify
  <1> DEFINE msg == [Carrying(m, b) EXCEPT !.related = request]
  <1>3. /\ outcome'.resp = msg /\ outcome'.options = o
        /\ outcome'.result = verifyMessage(msg, o)
    BY <1>2 DEF VerifyResponse
  <1>4. ResponseShape(msg) /\ msg.related = request
    <2>1. ResponseShape(m)
      BY ExchangeAssumption
    <2>2. /\ msg = [kind |-> "response", status |-> m.status,
                    header |-> Set(Set(m.header, "Signature-Input", b.inputs), "Signature", b.sigs),
                    trailer |-> m.trailer, related |-> request]
          /\ ResponseShape(msg)
      BY <2>1, HeadersArrive
    <2> HIDE DEF msg
    <2> QED
      BY <2>2
  <1>5. RequestShape(request) /\ request # NoRequest
    <2>1. RequestShape(request)
      BY DEF SInv, Formed
    <2> QED
      BY <2>1, RequestAssumption DEF Composed
  <1> HIDE DEF msg
  <1> DEFINE out == [resp |-> msg, options |-> o, result |-> verifyMessage(msg, o)]
  <1>6. outcome' = out
    BY <1>2 DEF msg, VerifyResponse
  <1>7. ASSUME NEW n \in DOMAIN made PROVE Own(n, made[n], out)
    <2> DEFINE e == made[n]
               s == Signers[e.signer]
               g == Headers(<< <<e.signer>> >>, << <<n>> >>)
    <2>1. out.resp = msg /\ out.options = o /\ out.result = verifyMessage(msg, o)
      OBVIOUS
    <2> HIDE DEF out
    <2> SUFFICES
          ASSUME AsSignedBy(n, e, out), Portable(request),
                 \A i \in 1..Len(s.comps) : ~SelfCovering(s.comps[i]) /\ URISafe(s.comps[i], request),
                 ParseSignatureInput(SignatureInputs(<<e.signer>>)).ok,
                 s.key = o.key, o.label \in {"", s.label},
                 \A r \in o.required : \E i \in 1..Len(s.comps) : s.comps[i] = r
          PROVE  verifyMessage(msg, o).ok
      BY <1>4, <2>1 DEF Own
    <2>2. /\ IsResponse(e.msg) /\ e.msg.related \in {NoRequest, ServerView(request)}
          /\ msg = [Carrying(e.msg, g) EXCEPT !.related = request]
      BY <1>4, <2>1 DEF AsSignedBy
    <2>3. ResponseShape(e.msg)
      BY <2>2 DEF SInv, Formed
    <2>4. g \in Bundles /\ g.inputs = << <<e.signer>> >> /\ g.sigs = << <<n>> >>
      <3>1. g = One(n)
        BY DEF One, SignerOf
      <3> QED
        BY <1>7, <3>1 DEF Bundles, Headers
    <2> DEFINE h == Set(Set(e.msg.header, "Signature-Input", g.inputs), "Signature", g.sigs)
    <2> HIDE DEF e, g
    <2>5. msg = [kind |-> "response", status |-> e.msg.status, header |-> h,
                 trailer |-> e.msg.trailer, related |-> request]
      BY <2>2, <2>3, <2>4, HeadersArrive
    <2>6. Lines(h, "Signature-Input") = g.inputs /\ Lines(h, "Signature") = g.sigs
      BY DEF Set, Lines
    <2>7. \A key : key \notin {"Signature", "Signature-Input"} =>
                     Lines(h, key) = Lines(e.msg.header, key)
      BY DEF Set, Lines
    <2> HIDE DEF h
    <2>8. msg.header = h /\ msg.status = e.msg.status /\ msg.trailer = e.msg.trailer
      BY <2>5
    <2>9. RInv
      BY DEF SInv
    <2>10. validateRequiredComponents(o.required, s.comps)
      BY DEF validateRequiredComponents, componentEqual
    <2>11. Build(msg, s.comps, s.params) = [ok |-> TRUE, base |-> e.base]
      <3>1. \A i \in 1..Len(Signers[made[n].signer].comps) :
              /\ ~SelfCovering(Signers[made[n].signer].comps[i])
              /\ URISafe(Signers[made[n].signer].comps[i], request)
        BY DEF e
      <3>2. /\ ResponseShape(made[n].msg) /\ IsResponse(made[n].msg) /\ Portable(request)
            /\ made[n].msg.related \in {NoRequest, ServerView(request)}
            /\ msg.status = made[n].msg.status /\ msg.trailer = made[n].msg.trailer
        BY <2>2, <2>3, <2>8 DEF e
      <3>3. \A key : key \notin {"Signature", "Signature-Input"} =>
                     Lines(msg.header, key) = Lines(made[n].msg.header, key)
        BY <2>7, <2>8 DEF e
      <3>4. Build(msg, Signers[made[n].signer].comps, Signers[made[n].signer].params)
              = [ok |-> TRUE, base |-> made[n].base]
        BY ONLY <1>4, <1>5, <1>7, <2>9, <3>1, <3>2, <3>3, OwnBase
      <3> QED
        BY <3>4 DEF e
    <2> QED
      BY <1>7, <2>4, <2>6, <2>8, <2>9, <2>10, <2>11, OwnVerifies DEF e
  <1> HIDE DEF out
  <1> QED
    BY <1>1, <1>6, <1>7 DEF OwnOutcome

LEMMA OStep == OInv /\ [RNext]_rvars => OInv'
  <1> SUFFICES ASSUME OInv, [RNext]_rvars PROVE OInv'
    OBVIOUS
  <1>1. SInv /\ Composed /\ OwnOutcome
    BY DEF OInv
  <1>2. SInv'
    BY <1>1, SStep
  <1>3. Composed'
    BY <1>1, ComposedKeeps
  <1>4. OwnOutcome'
    <2>1. CASE UNCHANGED <<made, outcome>>
      BY <1>1, <2>1 DEF OwnOutcome
    <2>2. CASE SignRequest
      BY <1>1, <1>2, <2>2, OwnStays DEF SignRequest
    <2>3. CASE SignResponse
      BY <1>1, <1>2, <2>3, OwnStays DEF SignResponse
    <2>4. CASE ReceiveAndVerify
      BY <1>1, <2>4, OwnReceived
    <2> QED
      BY <2>1, <2>2, <2>3, <2>4 DEF RNext, Compose, rvars
  <1> QED
    BY <1>2, <1>3, <1>4 DEF OInv

\* The client's form of a request and the server's agree on what a response may
\* cover of it, and the verifier reads back the one member the signer wrote: a
\* signed response that comes back unchanged, to the request it answers, passes
\* VerifyResponse with every options it meets.
THEOREM OwnResponsesVerify == RSpec => []OwnResponseVerifies
  <1>1. RInit => OInv
    BY SInitHolds DEF OInv, Composed, OwnOutcome, RInit
  <1>2. OInv => OwnResponseVerifies
    BY OwnOutcomeIs DEF OInv
  <1> QED
    BY <1>1, <1>2, OStep, PTL DEF RSpec
=============================================================================
