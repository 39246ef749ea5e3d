------------------------- MODULE SignatureInputProof -------------------------
(***************************************************************************)
(* The headers of a signature and its times, for all components,           *)
(* parameters and labels, any number of signers and every clock.           *)
(*                                                                         *)
(* What the signer writes the verifier reads (SignatureInputExchange):     *)
(* CanonicalParams writes each parameter that is present once, with its    *)
(* value (Lists), so what extractSignatureParams finds under a key is that *)
(* value (ParamsReadBack).  Items are written and read one by one.         *)
(*                                                                         *)
(* Several signers, and what happens to their headers (SignatureHeaders):  *)
(* every member on the lines comes from one of the present signings, and   *)
(* labels that are distinct there stay distinct on the lines (HInv).  The  *)
(* two readers ask the same of the lines (Pairing, Parsing), and what they *)
(* find under a label are the two halves of one signing (HalvesMatch).     *)
(*                                                                         *)
(* Signer, verifier and clock (SignatureLifetime): the bounds on times are *)
(* those of instants cut to seconds.                                       *)
(***************************************************************************)
EXTENDS SignatureInputExchange, SignatureHeaders, SignatureLifetime, SignatureBaseProof

-----------------------------------------------------------------------------
(* What was read is a normal form.                                         *)

\* The parser returns typed parameters.
LEMMA ParsedTyped ==
    ASSUME NEW s, Len(s) \in Nat, extractSignatureParams(s).ok
    PROVE  TypedParams(extractSignatureParams(s).params)
  <1> DEFINE hits(key) == {i \in 1..Len(s) : s[i].key = key}
             Found(key) == IF hits(key) = {} THEN Absent
                          ELSE s[CHOOSE i \in hits(key) : \A j \in hits(key) : i >= j].value
             p == [key \in IntKeys \cup StrKeys |-> Found(key)]
  <1>1. extractSignatureParams(s).params = p /\ \A i \in 1..Len(s) : WellTyped(s[i])
    BY DEF extractSignatureParams
  <1>2. ASSUME NEW key \in IntKeys \cup StrKeys
        PROVE  Found(key) = Absent \/ WellTyped([key |-> key, value |-> Found(key)])
    <2> SUFFICES ASSUME hits(key) # {}
                 PROVE  WellTyped([key |-> key, value |-> Found(key)])
      OBVIOUS
    <2>1. hits(key) \subseteq 1..Len(s)
      OBVIOUS
    <2>2. \E i \in hits(key) : \A j \in hits(key) : i >= j
      <3> HIDE DEF hits
      <3>1. PICK i \in hits(key) : \A j \in hits(key) : j <= i
        BY <2>1, LastPosition
      <3> QED
        BY <2>1, <3>1
    <2>3. PICK i \in hits(key) : Found(key) = s[i].value
      <3> HIDE DEF hits
      <3> QED
        BY <2>2
    <2>4. s[i].key = key /\ WellTyped(s[i])
      BY <1>1, <2>3
    <2> HIDE DEF Found
    <2> QED
      BY <2>3, <2>4 DEF WellTyped
  <1> HIDE DEF Found
  <1> QED
    BY <1>1, <1>2 DEF TypedParams, ParamsShape

\* Whatever was read is written and read again as it is.
LEMMA NormalForm ==
    ASSUME NEW m, Legible(m), parseSignatureEntryFromInput(m).ok
    PROVE  LET entry == parseSignatureEntryFromInput(m)
               again == serializeSignatureInput(entry.comps, entry.params)
           IN  /\ again.ok
               /\ parseSignatureEntryFromInput(again.member) = entry
  <1> DEFINE n  == Len(m.items)
             cs == [i \in 1..n |-> ParsedComponent(m.items[i])]
             p  == extractSignatureParams(m.params).params
  <1>1. n \in Nat
    BY DEF Legible
  <1>2. /\ \A i \in 1..Len(cs) : validateComponentIdentifier(cs[i])
        /\ extractSignatureParams(m.params).ok
        /\ parseSignatureEntryFromInput(m) = [ok |-> TRUE, comps |-> cs, params |-> p]
    BY DEF parseSignatureEntryFromInput
  <1>3. Len(cs) = n
    BY <1>1, LenOf
  <1>4. \A i \in 1..n : /\ ParsedComponent(cs[i]) = cs[i]
                        /\ cs[i].params = m.items[i].params
    BY DEF ParsedComponent
  <1>5. TypedParams(p)
    BY <1>2, ParsedTyped DEF Legible
  <1>6. cs = [i \in 1..n |-> cs[i]]
    OBVIOUS
  <1>7. serializeSignatureInput(cs, p).ok
    <2>1. \A i \in 1..Len(cs) : \A j \in 1..Len(cs[i].params) :
            cs[i].params[j].value # NilItem
      <3>1. \A i \in 1..n : \A j \in 1..Len(m.items[i].params) :
              m.items[i].params[j].value # NilItem
        BY DEF Legible
      <3> HIDE DEF cs, n
      <3> QED
        BY <1>3, <1>4, <3>1
    <2> HIDE DEF cs, p
    <2> QED
      BY <2>1 DEF serializeSignatureInput
  <1> HIDE DEF cs, p, n
  <1>8. parseSignatureEntryFromInput(serializeSignatureInput(cs, p).member)
          = [ok |-> TRUE, comps |-> cs, params |-> p]
    BY <1>1, <1>2, <1>3, <1>4, <1>5, <1>6, <1>7, EntryReadBack
  <1> QED
    BY <1>2, <1>7, <1>8

-----------------------------------------------------------------------------
(* The exchange.                                                           *)

\* The header the signer wrote stays under its label, and what was parsed is
\* what is on the line.
EInv ==
    /\ comps \in ComponentLists /\ params \in ParamSets
    /\ \A l \in DOMAIN wire : Legible(wire[l])
    /\ origin = "signer" =>
         /\ serializeSignatureInput(comps, params).ok
         /\ label \in DOMAIN wire
         /\ wire[label] = serializeSignatureInput(comps, params).member
    /\ origin = "nobody" => parsed = NotParsed
    /\ parsed # NotParsed => parsed = ParseSignatureInput(wire)

\* What serializeSignatureInput writes can be parsed.
LEMMA WrittenLegible ==
    ASSUME NEW cs, TypedList(cs), NEW p, TypedParams(p), serializeSignatureInput(cs, p).ok
    PROVE  Legible(serializeSignatureInput(cs, p).member)
  <1> DEFINE items == [i \in 1..Len(cs) |-> [name |-> cs[i].name, params |-> cs[i].params]]
  <1>1. /\ serializeSignatureInput(cs, p).member.items = items
        /\ serializeSignatureInput(cs, p).member.params = CanonicalParams(p)
        /\ \A i \in 1..Len(cs) : \A j \in 1..Len(cs[i].params) :
             cs[i].params[j].value # NilItem
    BY DEF serializeSignatureInput, signatureParamsToSFV
  <1>2. Len(cs) \in Nat
    BY DEF TypedList
  <1>3. Len(items) = Len(cs)
    BY <1>2, LenOf
  <1>4. Len(CanonicalParams(p)) \in Nat
    BY CanonicalLists DEF TypedParams, Lists
  <1> QED
    BY <1>1, <1>2, <1>3, <1>4 DEF Legible

LEMMA EInitHolds == EInit => EInv
  BY DEF EInit, EInv

LEMMA EStep == EInv /\ [ENext]_evars => EInv'
  <1> SUFFICES ASSUME EInv, [ENext]_evars PROVE EInv'
    OBVIOUS
  <1> USE DEF EInv
  <1>1. CASE Write
    <2> DEFINE m == serializeSignatureInput(comps, params).member
    <2>1. Legible(m)
      BY <1>1, InputAssumption, WrittenLegible DEF Write
    <2>2. wire' = [l \in {label} |-> m] /\ serializeSignatureInput(comps, params).ok
      BY <1>1 DEF Write
    <2> HIDE DEF m
    <2>3. \A l \in DOMAIN wire' : Legible(wire'[l])
      BY <2>1, <2>2
    <2>4. label' \in DOMAIN wire' /\ wire'[label'] = m
      BY <1>1, <2>2 DEF Write
    <2> QED
      BY <1>1, <2>2, <2>3, <2>4 DEF Write, m
  <1>2. CASE WriteOther
    BY <1>2, InputAssumption DEF WriteOther
  <1>3. CASE AddSignature
    <2>1. PICK l \in Labels \ DOMAIN wire, m \in ForeignMembers :
            wire' = [k \in DOMAIN wire \cup {l} |-> IF k = l THEN m ELSE wire[k]]
      BY <1>3 DEF AddSignature
    <2>2. \A k \in DOMAIN wire' : Legible(wire'[k])
      BY <2>1, InputAssumption
    <2>3. \A k \in DOMAIN wire : k \in DOMAIN wire' /\ wire'[k] = wire[k]
      BY <2>1
    <2> QED
      BY <1>3, <2>2, <2>3 DEF AddSignature
  <1>4. CASE Read
    BY <1>4 DEF Read
  <1>5. CASE UNCHANGED evars
    BY <1>5 DEF evars
  <1> QED
    BY <1>1, <1>2, <1>3, <1>4, <1>5 DEF ENext

\* Every reachable state of the exchange has the invariant.
THEOREM HeaderExchange == ESpec => []EInv
  BY EInitHolds, EStep, PTL DEF ESpec

\* When the header was read, so was every member.
LEMMA MembersRead ==
    ASSUME EInv, parsed # NotParsed, parsed.ok
    PROVE  /\ DOMAIN parsed.signatures = DOMAIN wire
           /\ \A l \in DOMAIN wire :
                /\ parseSignatureEntryFromInput(wire[l]).ok
                /\ parsed.signatures[l] = parseSignatureEntryFromInput(wire[l])
  BY DEF EInv, ParseSignatureInput

\* Signer and verifier compute the same @signature-params line.
THEOREM SameLine == ESpec => []SameParamsLine
  <1>1. EInv => SameParamsLine
    <2> SUFFICES ASSUME EInv, origin = "signer", parsed # NotParsed, parsed.ok
                 PROVE  writeSignatureParamsLine(parsed.signatures[label].comps,
                                                 parsed.signatures[label].params)
                          = writeSignatureParamsLine(comps, params)
      BY DEF SameParamsLine
    <2> DEFINE n     == Len(comps)
               m     == serializeSignatureInput(comps, params).member
               items == [i \in 1..n |-> [name |-> comps[i].name, params |-> comps[i].params]]
               back  == [i \in 1..n |-> ParsedComponent(items[i])]
    <2>1. TypedList(comps) /\ TypedParams(params)
      BY InputAssumption DEF EInv
    <2>2. m.items = items /\ m.params = CanonicalParams(params)
      BY DEF EInv, serializeSignatureInput, signatureParamsToSFV
    <2>3. n \in Nat
      BY <2>1 DEF TypedList
    <2>4. Len(items) = n
      BY <2>3, LenOf
    <2>5. /\ parseSignatureEntryFromInput(m).ok
          /\ parsed.signatures[label] = parseSignatureEntryFromInput(m)
      BY MembersRead DEF EInv
    <2>6. extractSignatureParams(m.params) = [ok |-> TRUE, params |-> params]
      BY <2>1, <2>2, ParamsReadBack
    <2>7. /\ parsed.signatures[label].comps = back
          /\ parsed.signatures[label].params = params
      <3> DEFINE comps2 == [i \in 1..Len(m.items) |-> ParsedComponent(m.items[i])]
      <3>1. parseSignatureEntryFromInput(m).comps = comps2
        <4> HIDE DEF m
        <4> QED
          BY <2>5 DEF parseSignatureEntryFromInput
      <3>2. parseSignatureEntryFromInput(m).params = params
        <4> HIDE DEF m
        <4> QED
          BY <2>5, <2>6 DEF parseSignatureEntryFromInput
      <3>3. comps2 = back
        <4> HIDE DEF m, items, n
        <4> QED
          BY <2>2, <2>4
      <3> HIDE DEF m, comps2, back
      <3> QED
        BY <2>5, <3>1, <3>2, <3>3
    <2>8. Len(back) = n
      BY <2>3, LenOf
    <2>9. \A i \in 1..n : writeComponentIdentifier(back[i]) = writeComponentIdentifier(comps[i])
      <3>1. \A i \in 1..n : back[i].name = comps[i].name /\ back[i].params = comps[i].params
        BY DEF ParsedComponent
      <3> HIDE DEF back
      <3> QED
        BY <3>1 DEF writeComponentIdentifier
    <2> HIDE DEF back
    <2>10. Identifiers(back) = Identifiers(comps)
      BY <2>8, <2>9 DEF Identifiers
    <2> QED
      BY <2>7, <2>10 DEF writeSignatureParamsLine
  <1> QED
    BY <1>1, HeaderExchange, PTL

\* Within what the grammar has and the limits allow, the verifier gets back what
\* the signer was given; and what was read is a normal form.
THEOREM WrittenIsReadBack == ESpec => []RoundTrip
  <1>1. ASSUME EInv, origin = "signer", parsed # NotParsed, Interoperable, OthersReadable,
               Cardinality(DOMAIN wire) <= MaxMembers
        PROVE  /\ parsed.ok
               /\ parsed.signatures[label].comps = comps
               /\ parsed.signatures[label].params = params
    <2> DEFINE m     == serializeSignatureInput(comps, params).member
               items == [i \in 1..Len(comps) |->
                           [name |-> comps[i].name, params |-> comps[i].params]]
    <2>1. /\ TypedList(comps) /\ TypedParams(params)
          /\ serializeSignatureInput(comps, params).ok
          /\ label \in DOMAIN wire /\ wire[label] = m
      BY <1>1, InputAssumption DEF EInv
    <2>2. m.items = items /\ m.params = CanonicalParams(params)
      BY <2>1 DEF serializeSignatureInput, signatureParamsToSFV
    <2>3. Len(comps) \in Nat /\ comps = [i \in 1..Len(comps) |-> comps[i]]
      BY <2>1 DEF TypedList
    <2>4. Len(items) = Len(comps)
      BY <2>3, LenOf
    <2>5. \A i \in 1..Len(comps) : ParsedComponent(comps[i]) = comps[i]
      BY <1>1, <2>1 DEF Interoperable, TypedList, Typed, ParsedComponent
    <2>6. \A i \in 1..Len(comps) : validateComponentIdentifier(comps[i])
      BY <1>1 DEF Interoperable
    <2>7. parseSignatureEntryFromInput(m) = [ok |-> TRUE, comps |-> comps, params |-> params]
      BY <2>1, <2>3, <2>5, <2>6, EntryReadBack
    <2>8. ReadableMember(m)
      <3>1. \A i \in 1..Len(comps) : /\ items[i].name = comps[i].name
                                     /\ items[i].params = comps[i].params
        OBVIOUS
      <3> HIDE DEF m, items
      <3> QED
        BY <1>1, <2>2, <2>4, <3>1 DEF ReadableMember, Interoperable
    <2> HIDE DEF m
    <2>9. \A l \in DOMAIN wire : /\ l \notin BadKeys /\ ReadableMember(wire[l])
                                 /\ parseSignatureEntryFromInput(wire[l]).ok
      BY <1>1, <2>1, <2>7, <2>8 DEF OthersReadable, Interoperable
    <2>10. ReadableDictionary(wire)
      BY <1>1, <2>9 DEF ReadableDictionary
    <2>11. ParseSignatureInput(wire) =
             [ok |-> TRUE,
              signatures |-> [l \in DOMAIN wire |-> parseSignatureEntryFromInput(wire[l])]]
      BY <2>9, <2>10 DEF ParseSignatureInput
    <2>12. parsed = ParseSignatureInput(wire)
      BY <1>1 DEF EInv
    <2>13. parsed.ok /\ parsed.signatures[label] = parseSignatureEntryFromInput(m)
      BY <2>1, <2>11, <2>12
    <2> QED
      BY <2>7, <2>13
  <1>2. ASSUME EInv, parsed # NotParsed, parsed.ok, NEW l \in DOMAIN parsed.signatures
        PROVE  LET entry == parsed.signatures[l]
                   again == serializeSignatureInput(entry.comps, entry.params)
               IN  /\ again.ok
                   /\ parseSignatureEntryFromInput(again.member) = entry
    <2>1. /\ l \in DOMAIN wire /\ parseSignatureEntryFromInput(wire[l]).ok
          /\ parsed.signatures[l] = parseSignatureEntryFromInput(wire[l])
      BY <1>2, MembersRead
    <2>2. Legible(wire[l])
      BY <1>2, <2>1 DEF EInv
    <2> QED
      BY <2>1, <2>2, NormalForm
  <1>3. EInv => RoundTrip
    BY <1>1, <1>2 DEF RoundTrip
  <1> QED
    BY <1>3, HeaderExchange, PTL

-----------------------------------------------------------------------------
(* Lines of members, and what signers and intermediaries do to them.       *)

\* A set of members that damage does not leave.
Closed(S) == \A e \in S : /\ e = Member(e.label, e.value)
                         /\ \A v \in Values : Member(e.label, v) \in S

\* No label occurs twice on the lines of a header.
Once(lines) ==
    \A a, b \in DOMAIN lines : \A i \in DOMAIN lines[a], j \in DOMAIN lines[b] :
      lines[a][i].label = lines[b][j].label => a = b /\ i = j

LEMMA MoreMembers ==
    ASSUME NEW S, NEW T, S \subseteq T, NEW lines \in Seq(Seq(S))
    PROVE  lines \in Seq(Seq(T))
  OBVIOUS

LEMMA LinesDomain ==
    ASSUME NEW S, NEW lines \in Seq(Seq(S))
    PROVE  /\ Len(lines) \in Nat /\ DOMAIN lines = 1..Len(lines)
           /\ \A a \in 1..Len(lines) :
                /\ lines[a] \in Seq(S)
                /\ Len(lines[a]) \in Nat /\ DOMAIN lines[a] = 1..Len(lines[a])
                /\ \A i \in 1..Len(lines[a]) : lines[a][i] \in S
  OBVIOUS

\* A new line, or the last one longer by a member of another label.
LEMMA Appended ==
    ASSUME NEW S, NEW lines \in Seq(Seq(S)), NEW e \in S
    PROVE  LET new == Append(lines, <<e>>)
           IN  /\ new \in Seq(Seq(S))
               /\ (/\ Once(lines)
                   /\ \A a \in DOMAIN lines : \A i \in DOMAIN lines[a] :
                        lines[a][i].label # e.label)
                    => Once(new)
  <1> DEFINE new == Append(lines, <<e>>)
  <1>1. <<e>> \in Seq(S) /\ Len(<<e>>) = 1 /\ <<e>>[1] = e
    OBVIOUS
  <1>2. /\ new \in Seq(Seq(S)) /\ Len(new) = Len(lines) + 1 /\ Len(lines) \in Nat
        /\ \A a \in 1..Len(lines) : new[a] = lines[a]
        /\ new[Len(lines) + 1] = <<e>>
    BY <1>1, AppendProperties
  <1> HIDE DEF new
  <1>3. ASSUME Once(lines),
               \A a \in DOMAIN lines : \A i \in DOMAIN lines[a] : lines[a][i].label # e.label
        PROVE  Once(new)
    <2> SUFFICES ASSUME NEW a \in DOMAIN new, NEW b \in DOMAIN new,
                        NEW i \in DOMAIN new[a], NEW j \in DOMAIN new[b],
                        new[a][i].label = new[b][j].label
                 PROVE  a = b /\ i = j
      BY DEF Once
    <2>1. ASSUME NEW x \in DOMAIN new, NEW k \in DOMAIN new[x]
          PROVE  \/ x \in DOMAIN lines /\ k \in DOMAIN lines[x] /\ new[x] = lines[x]
                 \/ x = Len(lines) + 1 /\ k = 1 /\ new[x][k] = e
      <3>1. x \in 1..(Len(lines) + 1) /\ DOMAIN lines = 1..Len(lines)
        BY <1>2, LinesDomain
      <3>2. CASE x \in 1..Len(lines)
        BY <1>2, <3>1, <3>2
      <3>3. CASE x = Len(lines) + 1
        BY <1>1, <1>2, <3>3
      <3> QED
        BY <1>2, <3>1, <3>2, <3>3
    <2> QED
      BY <1>3, <2>1 DEF Once
  <1> QED
    BY <1>2, <1>3 DEF new

LEMMA Lengthening ==
    ASSUME NEW S, NEW lines \in Seq(Seq(S)), lines # <<>>, NEW e \in S
    PROVE  LET new == [lines EXCEPT ![Len(lines)] = Append(@, e)]
           IN  /\ new \in Seq(Seq(S))
               /\ (/\ Once(lines)
                   /\ \A a \in DOMAIN lines : \A i \in DOMAIN lines[a] :
                        lines[a][i].label # e.label)
                    => Once(new)
  <1> DEFINE n    == Len(lines)
             last == lines[n]
             long == Append(last, e)
             new  == [lines EXCEPT ![n] = long]
  <1>1. n \in Nat /\ n > 0 /\ DOMAIN lines = 1..n /\ last \in Seq(S)
    BY EmptySeq
  <1>2. /\ long \in Seq(S) /\ Len(long) = Len(last) + 1 /\ Len(last) \in Nat
        /\ \A i \in 1..Len(last) : long[i] = last[i]
        /\ long[Len(last) + 1] = e
    BY <1>1, AppendProperties
  <1> HIDE DEF long
  <1>3. /\ new \in Seq(Seq(S)) /\ Len(new) = n /\ new[n] = long
        /\ \A a \in 1..n : a # n => new[a] = lines[a]
    <2>1. n \in 1..Len(lines) /\ long \in Seq(S)
      BY <1>1, <1>2
    <2>2. /\ new \in Seq(Seq(S)) /\ Len(new) = Len(lines)
          /\ \A a \in 1..Len(lines) : new[a] = IF a = n THEN long ELSE lines[a]
      BY ONLY <2>1, ExceptSeq, lines \in Seq(Seq(S))
    <2> QED
      BY <1>1, <2>1, <2>2
  <1> HIDE DEF new
  <1>4. ASSUME Once(lines),
               \A a \in DOMAIN lines : \A i \in DOMAIN lines[a] : lines[a][i].label # e.label
        PROVE  Once(new)
    <2> SUFFICES ASSUME NEW a \in DOMAIN new, NEW b \in DOMAIN new,
                        NEW i \in DOMAIN new[a], NEW j \in DOMAIN new[b],
                        new[a][i].label = new[b][j].label
                 PROVE  a = b /\ i = j
      BY DEF Once
    <2>1. ASSUME NEW x \in DOMAIN new, NEW k \in DOMAIN new[x]
          PROVE  \/ x \in DOMAIN lines /\ k \in DOMAIN lines[x] /\ new[x][k] = lines[x][k]
                 \/ x = n /\ k = Len(last) + 1 /\ new[x][k] = e
      <3>1. x \in 1..n
        BY <1>1, <1>3, LinesDomain
      <3>2. CASE x # n
        BY <1>1, <1>3, <3>1, <3>2
      <3>3. CASE x = n
        <4>1. k \in 1..(Len(last) + 1) /\ DOMAIN last = 1..Len(last) /\ new[x] = long
          BY <1>1, <1>2, <1>3, <3>3, LenProperties
        <4> HIDE DEF last
        <4>2. k \in 1..Len(last) \/ k = Len(last) + 1
          BY <1>2, <4>1
        <4> QED
          BY <1>1, <1>2, <3>3, <4>1, <4>2 DEF last
      <3> QED
        BY <3>2, <3>3
    <2> QED
      BY <1>4, <2>1 DEF Once
  <1> QED
    BY <1>3, <1>4 DEF new, long

LEMMA Prefixed ==
    ASSUME NEW T, NEW l \in T, NEW r \in Seq(T)
    PROVE  /\ <<l>> \o r \in Seq(T) /\ Len(<<l>> \o r) = Len(r) + 1
           /\ (<<l>> \o r)[1] = l
           /\ \A a \in 1..Len(r) : (<<l>> \o r)[a + 1] = r[a]
  OBVIOUS

\* Two lines combined to one.
LEMMA Joining ==
    ASSUME NEW S, NEW lines \in Seq(Seq(S)), Len(lines) > 1
    PROVE  /\ Joined(lines) \in Seq(Seq(S))
           /\ Once(lines) => Once(Joined(lines))
  <1> DEFINE n   == Len(lines)
             l1  == lines[1]
             l2  == lines[2]
             l   == l1 \o l2
             r   == SubSeq(lines, 3, n)
             new == <<l>> \o r
  <1>1. n \in Nat /\ n > 1 /\ DOMAIN lines = 1..n /\ l1 \in Seq(S) /\ l2 \in Seq(S)
    OBVIOUS
  <1> HIDE DEF l1, l2
  <1>2. /\ l \in Seq(S) /\ Len(l) = Len(l1) + Len(l2)
        /\ Len(l1) \in Nat /\ DOMAIN l1 = 1..Len(l1)
        /\ Len(l2) \in Nat /\ DOMAIN l2 = 1..Len(l2)
        /\ \A i \in 1..(Len(l1) + Len(l2)) :
             l[i] = IF i <= Len(l1) THEN l1[i] ELSE l2[i - Len(l1)]
    BY <1>1, ConcatProperties, LenProperties
  <1>3. /\ r \in Seq(Seq(S)) /\ Len(r) = n - 2
        /\ \A a \in 1..(n - 2) : r[a] = lines[a + 2]
    <2>1. \A x \in 3..n : lines[x] \in Seq(S)
      BY <1>1
    <2>2. /\ r \in Seq(Seq(S)) /\ Len(r) = IF 3 <= n THEN n - 3 + 1 ELSE 0
          /\ \A a \in 1..(n - 3 + 1) : r[a] = lines[3 + a - 1]
      BY SMTT(40), <1>1, <2>1, SubSeqProperties
    <2> QED
      BY <1>1, <2>2
  <1> HIDE DEF r, l
  <1>4. /\ new \in Seq(Seq(S)) /\ Len(new) = n - 1 /\ new[1] = l
        /\ \A a \in 2..(n - 1) : new[a] = lines[a + 1]
    <2>1. /\ new \in Seq(Seq(S)) /\ Len(new) = Len(r) + 1 /\ new[1] = l
          /\ \A a \in 1..Len(r) : new[a + 1] = r[a]
      BY <1>2, <1>3, Prefixed
    <2> HIDE DEF new
    <2>2. ASSUME NEW a \in 2..(n - 1) PROVE new[a] = lines[a + 1]
      <3>1. a - 1 \in 1..(n - 2) /\ (a - 1) + 1 = a /\ (a - 1) + 2 = a + 1
        BY <1>1
      <3>2. r[a - 1] = lines[(a - 1) + 2] /\ new[(a - 1) + 1] = r[a - 1]
        BY <1>3, <2>1, <3>1
      <3> QED
        BY <3>1, <3>2
    <2>3. Len(new) = n - 1
      BY <1>1, <1>3, <2>1
    <2> QED
      BY <2>1, <2>2, <2>3
  <1> HIDE DEF new
  <1>5. ASSUME Once(lines) PROVE Once(new)
    <2> SUFFICES ASSUME NEW a \in DOMAIN new, NEW b \in DOMAIN new,
                        NEW i \in DOMAIN new[a], NEW j \in DOMAIN new[b],
                        new[a][i].label = new[b][j].label
                 PROVE  a = b /\ i = j
      BY DEF Once
    <2> DEFINE From(x, k, y, m) ==
                 /\ y \in DOMAIN lines /\ m \in DOMAIN lines[y] /\ m \in Nat
                 /\ new[x][k] = lines[y][m]
                 /\ \/ y = 1 /\ x = 1 /\ k = m
                    \/ y = 2 /\ x = 1 /\ k = m + Len(l1)
                    \/ y > 2 /\ x = y - 1 /\ k = m
    <2>1. ASSUME NEW x \in DOMAIN new, NEW k \in DOMAIN new[x]
          PROVE  \E y, m : From(x, k, y, m)
      <3>1. x \in 1..(n - 1) /\ k \in Nat
        <4>1. DOMAIN new = 1..(n - 1)
          <5>1. new \in Seq(Seq(S)) /\ Len(new) = n - 1
            BY <1>4
          <5> QED
            BY ONLY <5>1
        <4>2. \A y \in DOMAIN new : DOMAIN new[y] \subseteq Nat
          <5>1. new \in Seq(Seq(S))
            BY <1>4
          <5> QED
            BY ONLY <5>1
        <4> QED
          BY ONLY <4>1, <4>2
      <3>2. CASE x = 1
        <4>1. DOMAIN l = 1..(Len(l1) + Len(l2))
          BY <1>2, LenProperties
        <4>2. k \in 1..(Len(l1) + Len(l2)) /\ new[x][k] = l[k]
          BY <1>4, <3>2, <4>1
        <4>3. CASE k <= Len(l1)
          <5>1. k \in DOMAIN l1 /\ l[k] = l1[k] /\ l1 = lines[1] /\ 1 \in DOMAIN lines
            BY <1>1, <1>2, <4>2, <4>3 DEF l1
          <5>2. From(x, k, 1, k)
            BY <3>1, <3>2, <4>2, <5>1
          <5> QED
            BY <5>2
        <4>4. CASE k > Len(l1)
          <5> DEFINE m == k - Len(l1)
          <5>1. m \in 1..Len(l2) /\ k = m + Len(l1)
            BY <1>2, <3>1, <4>2, <4>4
          <5>2. l[k] = l2[m]
            BY <1>2, <3>1, <4>2, <4>4
          <5> HIDE DEF m
          <5>3. m \in DOMAIN l2 /\ l2 = lines[2] /\ 2 \in DOMAIN lines /\ m \in Nat
            BY <1>1, <1>2, <5>1 DEF l2
          <5>4. From(x, k, 2, m)
            BY <3>2, <4>2, <5>1, <5>2, <5>3
          <5> QED
            BY <5>4
        <4> QED
          BY <1>2, <3>1, <4>3, <4>4
      <3>3. CASE x # 1
        <4>1. x \in 2..(n - 1)
          BY <1>1, <3>1, <3>3
        <4>2. new[x] = lines[x + 1]
          BY <1>4, <4>1
        <4>3. x + 1 \in DOMAIN lines /\ x + 1 > 2 /\ x = (x + 1) - 1
          BY <1>1, <4>1
        <4>4. From(x, k, x + 1, k)
          BY <3>1, <4>2, <4>3
        <4> QED
          BY <4>4
      <3> QED
        BY <3>2, <3>3
    <2>2. PICK y, m : From(a, i, y, m)
      BY <2>1
    <2>3. PICK z, w : From(b, j, z, w)
      BY <2>1
    <2>4. y = z /\ m = w
      BY <1>5, <2>2, <2>3 DEF Once
    <2> QED
      BY <1>1, <1>2, <2>2, <2>3, <2>4
  <1> QED
    BY <1>4, <1>5 DEF new, l, l1, l2, r, Joined

\* A line that has lost a member.
LEMMA WithoutMember ==
    ASSUME NEW S, NEW line \in Seq(S), NEW i \in 1..Len(line)
    PROVE  LET t == Without(line, i)
           IN  /\ t \in Seq(S) /\ Len(t) = Len(line) - 1
               /\ \A k \in 1..(Len(line) - 1) :
                    t[k] = IF k < i THEN line[k] ELSE line[k + 1]
  <1> DEFINE n == Len(line)
             p == SubSeq(line, 1, i - 1)
             q == SubSeq(line, i + 1, n)
             t == p \o q
  <1>1. n \in Nat /\ \A x \in 1..n : line[x] \in S
    BY LenProperties
  <1>2. /\ p \in Seq(S) /\ Len(p) = i - 1
        /\ \A k \in 1..(i - 1) : p[k] = line[k]
    <2>1. \A x \in 1..(i - 1) : line[x] \in S
      BY <1>1
    <2>2. /\ p \in Seq(S) /\ Len(p) = IF 1 <= i - 1 THEN (i - 1) - 1 + 1 ELSE 0
          /\ \A k \in 1..((i - 1) - 1 + 1) : p[k] = line[1 + k - 1]
      BY <1>1, <2>1, SubSeqProperties
    <2> QED
      BY <1>1, <2>2
  <1>3. /\ q \in Seq(S) /\ Len(q) = n - i
        /\ \A k \in 1..(n - i) : q[k] = line[k + i]
    <2>1. \A x \in (i + 1)..n : line[x] \in S
      BY <1>1
    <2>2. /\ q \in Seq(S) /\ Len(q) = IF i + 1 <= n THEN n - (i + 1) + 1 ELSE 0
          /\ \A k \in 1..(n - (i + 1) + 1) : q[k] = line[(i + 1) + k - 1]
      BY <1>1, <2>1, SubSeqProperties
    <2> QED
      BY <1>1, <2>2
  <1> HIDE DEF p, q
  <1>4. /\ t \in Seq(S) /\ Len(t) = Len(p) + Len(q)
        /\ \A k \in 1..(Len(p) + Len(q)) : t[k] = IF k <= Len(p) THEN p[k] ELSE q[k - Len(p)]
    BY <1>2, <1>3, ConcatProperties
  <1> HIDE DEF t
  <1>5. ASSUME NEW k \in 1..(n - 1) PROVE t[k] = IF k < i THEN line[k] ELSE line[k + 1]
    <2>1. CASE k < i
      <3>1. k \in 1..(i - 1) /\ k <= Len(p) /\ k \in 1..(Len(p) + Len(q))
        BY <1>1, <1>2, <1>3, <2>1
      <3> QED
        BY <1>2, <1>4, <2>1, <3>1
    <2>2. CASE ~(k < i)
      <3> DEFINE m == k - (i - 1)
      <3>1. m \in 1..(n - i) /\ m + i = k + 1
        BY <1>1, <2>2
      <3>2. t[k] = q[m]
        BY <1>1, <1>2, <1>3, <1>4, <2>2
      <3> HIDE DEF m
      <3> QED
        BY <1>3, <2>2, <3>1, <3>2
    <2> QED
      BY <2>1, <2>2
  <1>6. Len(t) = n - 1
    BY <1>1, <1>2, <1>3, <1>4
  <1> QED
    BY <1>4, <1>5, <1>6 DEF t, p, q, Without

LEMMA Losing ==
    ASSUME NEW S, NEW lines \in Seq(Seq(S)), lines # <<>>, NEW i \in DOMAIN lines[1]
    PROVE  LET new == [lines EXCEPT ![1] = Without(@, i)]
           IN  new \in Seq(Seq(S)) /\ (Once(lines) => Once(new))
  <1> DEFINE l    == lines[1]
             less == Without(l, i)
             new  == [lines EXCEPT ![1] = less]
  <1>1. 1 \in DOMAIN lines /\ 1 \in 1..Len(lines) /\ l \in Seq(S)
        /\ DOMAIN l = 1..Len(l) /\ Len(l) \in Nat
    BY EmptySeq, LinesDomain
  <1>2. /\ less \in Seq(S) /\ Len(less) = Len(l) - 1
        /\ \A k \in 1..(Len(l) - 1) : less[k] = IF k < i THEN l[k] ELSE l[k + 1]
    BY <1>1, WithoutMember
  <1> HIDE DEF less
  <1>3. /\ new \in Seq(Seq(S)) /\ Len(new) = Len(lines)
        /\ \A a \in 1..Len(lines) : new[a] = IF a = 1 THEN less ELSE lines[a]
    <2>1. less \in Seq(S) /\ 1 \in 1..Len(lines)
      BY <1>1, <1>2
    <2> QED
      BY ONLY <2>1, ExceptSeq, lines \in Seq(Seq(S))
  <1> HIDE DEF new
  <1>4. ASSUME Once(lines) PROVE Once(new)
    <2> SUFFICES ASSUME NEW a \in DOMAIN new, NEW b \in DOMAIN new,
                        NEW k \in DOMAIN new[a], NEW j \in DOMAIN new[b],
                        new[a][k].label = new[b][j].label
                 PROVE  a = b /\ k = j
      BY DEF Once
    <2> DEFINE From(x, w, m) ==
                 /\ x \in DOMAIN lines /\ m \in DOMAIN lines[x] /\ w \in Nat
                 /\ new[x][w] = lines[x][m]
                 /\ \/ x # 1 /\ m = w
                    \/ x = 1 /\ w < i /\ m = w
                    \/ x = 1 /\ w >= i /\ m = w + 1
    <2>1. ASSUME NEW x \in DOMAIN new, NEW w \in DOMAIN new[x] PROVE \E m : From(x, w, m)
      <3>1. x \in DOMAIN lines /\ w \in Nat /\ x \in 1..Len(lines)
        BY <1>3, LinesDomain
      <3>2. CASE x # 1
        <4>1. From(x, w, w)
          BY <1>3, <3>1, <3>2
        <4> QED
          BY <4>1
      <3>3. CASE x = 1
        <4>1. new[x] = less /\ w \in 1..(Len(l) - 1)
          BY <1>1, <1>2, <1>3, <3>1, <3>3, LenProperties
        <4>2. CASE w < i
          <5>1. less[w] = l[w] /\ w \in DOMAIN l
            BY SMTT(40), <1>1, <1>2, <4>1, <4>2
          <5>2. From(x, w, w)
            BY <3>1, <3>3, <4>1, <4>2, <5>1
          <5> QED
            BY <5>2
        <4>3. CASE w >= i
          <5>1. less[w] = l[w + 1] /\ w + 1 \in DOMAIN l
            BY <1>1, <1>2, <4>1, <4>3
          <5>2. From(x, w, w + 1)
            BY <3>1, <3>3, <4>1, <4>3, <5>1
          <5> QED
            BY <5>2
        <4> QED
          BY <1>1, <3>1, <4>2, <4>3
      <3> QED
        BY <3>2, <3>3
    <2>2. PICK m : From(a, k, m)
      BY <2>1
    <2>3. PICK w : From(b, j, w)
      BY <2>1
    <2>4. a = b /\ m = w
      BY <1>4, <2>2, <2>3 DEF Once
    <2> QED
      BY <1>1, <2>2, <2>3, <2>4
  <1> QED
    BY <1>3, <1>4 DEF new, less

\* A member whose value is damaged.
LEMMA Damaging ==
    ASSUME NEW S, Closed(S), NEW lines \in Seq(Seq(S)), lines # <<>>,
           NEW i \in DOMAIN lines[1], NEW v \in Values
    PROVE  LET new == [lines EXCEPT ![1][i].value = v]
           IN  new \in Seq(Seq(S)) /\ (Once(lines) => Once(new))
  <1> DEFINE l    == lines[1]
             e    == l[i]
             bad  == [l EXCEPT ![i] = Member(e.label, v)]
             new  == [lines EXCEPT ![1] = bad]
  <1>1. 1 \in DOMAIN lines /\ 1 \in 1..Len(lines) /\ l \in Seq(S)
        /\ DOMAIN l = 1..Len(l) /\ Len(l) \in Nat
    BY EmptySeq, LinesDomain
  <1>2. e \in S /\ e = Member(e.label, e.value) /\ Member(e.label, v) \in S
    BY <1>1, ElementOfSeq DEF Closed
  <1>3. [lines EXCEPT ![1][i].value = v] = new
    <2>1. [e EXCEPT !.value = v] = Member(e.label, v)
      BY <1>2 DEF Member
    <2>2. [l EXCEPT ![i].value = v] = bad
      BY <2>1
    <2> QED
      BY <2>2
  <1>4. /\ bad \in Seq(S) /\ Len(bad) = Len(l)
        /\ \A k \in 1..Len(l) : bad[k].label = l[k].label
    <2>1. Member(e.label, v).label = e.label
      BY DEF Member
    <2>2. /\ bad \in Seq(S) /\ Len(bad) = Len(l)
          /\ \A k \in 1..Len(l) : bad[k] = IF k = i THEN Member(e.label, v) ELSE l[k]
      BY <1>1, <1>2, ExceptSeq
    <2> QED
      BY <2>1, <2>2
  <1> HIDE DEF bad
  <1>5. /\ new \in Seq(Seq(S)) /\ Len(new) = Len(lines)
        /\ \A a \in 1..Len(lines) : new[a] = IF a = 1 THEN bad ELSE lines[a]
    <2>1. bad \in Seq(S) /\ 1 \in 1..Len(lines)
      BY <1>1, <1>4
    <2> QED
      BY ONLY <2>1, ExceptSeq, lines \in Seq(Seq(S))
  <1> HIDE DEF new
  <1>6. /\ DOMAIN new = DOMAIN lines
        /\ \A a \in DOMAIN lines : /\ DOMAIN new[a] = DOMAIN lines[a]
                                   /\ \A k \in DOMAIN lines[a] : new[a][k].label = lines[a][k].label
    <2>1. DOMAIN new = 1..Len(lines) /\ DOMAIN lines = 1..Len(lines)
      BY <1>5, LinesDomain
    <2>2. DOMAIN bad = 1..Len(l)
      BY <1>4, LenProperties
    <2> QED
      BY <1>1, <1>4, <1>5, <2>1, <2>2
  <1>7. Once(lines) => Once(new)
    BY <1>6 DEF Once
  <1> QED
    BY <1>3, <1>5, <1>7

LEMMA HitKeeps ==
    ASSUME NEW S, Closed(S), NEW lines \in Seq(Seq(S)), lines # <<>>, NEW new \in Hit(lines)
    PROVE  new \in Seq(Seq(S)) /\ (Once(lines) => Once(new))
  <1> DEFINE Lost(i)   == [lines EXCEPT ![1] = Without(@, i)]
             Hurt(i, v) == [lines EXCEPT ![1][i].value = v]
             Fine(x)    == x \in Seq(Seq(S)) /\ (Once(lines) => Once(x))
  <1>1. \A i \in DOMAIN lines[1] : Fine(Lost(i))
    BY Losing, Zenon
  <1>2. \A i \in DOMAIN lines[1], v \in Values : Fine(Hurt(i, v))
    BY Damaging, Zenon
  <1>3. Hit(lines) = {Lost(i) : i \in DOMAIN lines[1]}
                       \cup {Hurt(i, v) : i \in DOMAIN lines[1], v \in Values}
    BY DEF Hit
  <1> HIDE DEF Lost, Hurt, Fine
  <1>4. Fine(new)
    BY <1>1, <1>2, <1>3
  <1> QED
    BY <1>4 DEF Fine

-----------------------------------------------------------------------------
(* The headers of several parties.                                         *)

Signings == [label : PartyLabels, member : Members]

\* What may be in Signature-Input: a member of a present signing under its
\* label, or what damage made of it; and the same for Signature.
InputMembers ==
    {e \in [label : PartyLabels, value : Members \cup Values] :
       \E n \in present : e.label = made[n].label /\ e.value \in Values \cup {made[n].member}}

SignatureMembers ==
    {e \in [label : PartyLabels, value : Values \cup {[bin |-> n] : n \in present}] :
       \E n \in present : e.label = made[n].label /\ e.value \in Values \cup {[bin |-> n]}}

\* Every member on the lines comes from a signing since both headers were last
\* replaced; labels that are distinct among the signings stay so on the lines.
HInv ==
    /\ made \in Seq(Signings) /\ present \subseteq 1..Len(made)
    /\ inputs \in Seq(Seq(InputMembers)) /\ sigs \in Seq(Seq(SignatureMembers))
    /\ DistinctLabels => Once(inputs) /\ Once(sigs)
    /\ present = {} => inputs = <<>> /\ sigs = <<>>

LEMMA HInitHolds == HInit => HInv
  <1> SUFFICES ASSUME HInit PROVE HInv
    OBVIOUS
  <1>1. /\ inputs = <<>> /\ sigs = <<>> /\ made = <<>> /\ present = {}
    BY DEF HInit
  <1>2. \A S : <<>> \in Seq(S) /\ DOMAIN <<>> = {}
    OBVIOUS
  <1> QED
    BY <1>1, <1>2 DEF HInv, Once

LEMMA MembersClosed == Closed(InputMembers) /\ Closed(SignatureMembers)
  <1>1. Closed(InputMembers)
    BY DEF Closed, InputMembers, Member
  <1>2. Closed(SignatureMembers)
    BY DEF Closed, SignatureMembers, Member
  <1> QED
    BY <1>1, <1>2

\* The history after one more signing.
LEMMA OneMore ==
    ASSUME HInv, NEW l \in PartyLabels, NEW m \in Members, Signed(l, m)
    PROVE  LET n == Len(made) + 1
           IN  /\ made' \in Seq(Signings) /\ Len(made') = n /\ n \notin present
               /\ made'[n].label = l /\ made'[n].member = m
               /\ \A k \in present : made'[k] = made[k] /\ k \in 1..n
               /\ Len(made) \in Nat
  <1> DEFINE e == [label |-> l, member |-> m]
  <1>1. e \in Signings /\ e.label = l /\ e.member = m
    BY DEF Signings
  <1>2. made' = Append(made, e) /\ made \in Seq(Signings) /\ present \subseteq 1..Len(made)
    BY DEF Signed, HInv
  <1> HIDE DEF e
  <1>3. /\ made' \in Seq(Signings) /\ Len(made') = Len(made) + 1 /\ Len(made) \in Nat
        /\ \A k \in 1..Len(made) : made'[k] = made[k]
        /\ made'[Len(made) + 1] = e
    BY <1>1, <1>2, AppendProperties, LenProperties
  <1> QED
    BY <1>1, <1>2, <1>3

\* What the new signing puts on the lines.
LEMMA NewMembers ==
    ASSUME NEW n \in Nat, NEW l \in PartyLabels, NEW m \in Members,
           n \in present', made'[n].label = l, made'[n].member = m
    PROVE  Member(l, m) \in InputMembers' /\ Member(l, [bin |-> n]) \in SignatureMembers'
  BY DEF InputMembers, SignatureMembers, Member

LEMMA SignRequestKeeps == ASSUME HInv, SignRequest PROVE HInv'
  <1>1. PICK l \in PartyLabels, m \in Members :
          /\ Signed(l, m)
          /\ inputs' = << <<Member(l, m)>> >> /\ sigs' = << <<Member(l, Bytes)>> >>
          /\ present' = {Len(made')}
    BY DEF SignRequest
  <1> DEFINE n == Len(made) + 1
  <1>2. /\ made' \in Seq(Signings) /\ Len(made') = n /\ n \in Nat
        /\ made'[n].label = l /\ made'[n].member = m
    BY <1>1, OneMore
  <1>3. present' = {n} /\ present' \subseteq 1..Len(made') /\ Bytes = [bin |-> n]
    BY <1>1, <1>2 DEF Bytes
  <1>4. Member(l, m) \in InputMembers' /\ Member(l, Bytes) \in SignatureMembers'
    BY <1>2, <1>3, NewMembers
  <1>5. \A S : \A e \in S : << <<e>> >> \in Seq(Seq(S)) /\ Once(<< <<e>> >>)
    BY DEF Once
  <1> QED
    BY <1>1, <1>2, <1>3, <1>4, <1>5 DEF HInv

LEMMA AppendSignatureKeeps == ASSUME HInv, AppendSignature PROVE HInv'
  <1>1. PICK l \in PartyLabels, m \in Members :
          /\ Signed(l, m)
          /\ \/ /\ inputs' = Append(inputs, <<Member(l, m)>>)
                /\ sigs' = Append(sigs, <<Member(l, Bytes)>>)
             \/ /\ inputs # <<>> /\ sigs # <<>>
                /\ inputs' = [inputs EXCEPT ![Len(inputs)] = Append(@, Member(l, m))]
                /\ sigs' = [sigs EXCEPT ![Len(sigs)] = Append(@, Member(l, Bytes))]
          /\ present' = present \cup {Len(made')}
    BY DEF AppendSignature
  <1> DEFINE n == Len(made) + 1
             e == Member(l, m)
             b == Member(l, Bytes)
  <1>2. /\ made' \in Seq(Signings) /\ Len(made') = n /\ n \notin present
        /\ made'[n].label = l /\ made'[n].member = m
        /\ \A k \in present : made'[k] = made[k] /\ k \in 1..n
        /\ n \in Nat \ {0}
    BY <1>1, OneMore
  <1>3. present' = present \cup {n} /\ Bytes = [bin |-> n] /\ n \in 1..n
    BY <1>1, <1>2 DEF Bytes
  <1>4. e \in InputMembers' /\ b \in SignatureMembers' /\ e.label = l /\ b.label = l
    <2>1. Member(l, m) \in InputMembers' /\ Member(l, [bin |-> n]) \in SignatureMembers'
      BY <1>2, <1>3, NewMembers
    <2> QED
      BY <1>3, <2>1 DEF Member
  <1>5. InputMembers \subseteq InputMembers' /\ SignatureMembers \subseteq SignatureMembers'
    <2>1. present \subseteq present' /\ \A k \in present : made'[k] = made[k]
      BY <1>2, <1>3
    <2> QED
      BY <2>1 DEF InputMembers, SignatureMembers
  <1>6. inputs \in Seq(Seq(InputMembers')) /\ sigs \in Seq(Seq(SignatureMembers'))
    BY <1>5, MoreMembers DEF HInv
  <1>7. ASSUME DistinctLabels'
        PROVE  /\ DistinctLabels
               /\ \A x \in InputMembers : x.label # l
               /\ \A x \in SignatureMembers : x.label # l
    <2>1. \A k \in present : made[k].label # l
      BY <1>2, <1>3, <1>7 DEF DistinctLabels
    <2>2. DistinctLabels
      BY <1>2, <1>3, <1>7 DEF DistinctLabels
    <2> QED
      BY <2>1, <2>2 DEF InputMembers, SignatureMembers
  <1> DEFINE Old(lines, x) == /\ Once(lines)
                              /\ \A a \in DOMAIN lines : \A i \in DOMAIN lines[a] :
                                   lines[a][i].label # x.label
  <1>8. DistinctLabels' => Old(inputs, e) /\ Old(sigs, b)
    <2>1. /\ \A a \in DOMAIN inputs : \A i \in DOMAIN inputs[a] : inputs[a][i] \in InputMembers
          /\ \A a \in DOMAIN sigs : \A i \in DOMAIN sigs[a] : sigs[a][i] \in SignatureMembers
      BY LinesDomain DEF HInv
    <2> HIDE DEF e, b
    <2> QED
      BY <1>4, <1>7, <2>1 DEF HInv
  <1> HIDE DEF e, b
  <1>9. /\ inputs' \in Seq(Seq(InputMembers')) /\ (Old(inputs, e) => Once(inputs'))
        /\ sigs' \in Seq(Seq(SignatureMembers')) /\ (Old(sigs, b) => Once(sigs'))
    <2>1. CASE inputs' = Append(inputs, <<e>>) /\ sigs' = Append(sigs, <<b>>)
      BY <1>4, <1>6, <2>1, Appended
    <2>2. CASE /\ inputs # <<>> /\ sigs # <<>>
               /\ inputs' = [inputs EXCEPT ![Len(inputs)] = Append(@, e)]
               /\ sigs' = [sigs EXCEPT ![Len(sigs)] = Append(@, b)]
      BY <1>4, <1>6, <2>2, Lengthening
    <2> QED
      BY <1>1, <2>1, <2>2 DEF e, b
  <1>10. present' # {} /\ present' \subseteq 1..Len(made')
    BY <1>2, <1>3
  <1> QED
    BY <1>2, <1>8, <1>9, <1>10 DEF HInv

\* The signings, and so what may be on the lines, are as they were.
LEMMA SameHistory ==
    ASSUME UNCHANGED <<made, present>>
    PROVE  /\ InputMembers' = InputMembers /\ SignatureMembers' = SignatureMembers
           /\ DistinctLabels' = DistinctLabels
  BY DEF InputMembers, SignatureMembers, DistinctLabels

LEMMA CombineLinesKeeps == ASSUME HInv, CombineLines PROVE HInv'
  <1>1. UNCHANGED <<made, present>>
    BY DEF CombineLines
  <1>2. /\ inputs \in Seq(Seq(InputMembers)) /\ sigs \in Seq(Seq(SignatureMembers))
        /\ DistinctLabels => Once(inputs) /\ Once(sigs)
    BY DEF HInv
  <1>3. CASE Len(inputs) > 1 /\ inputs' = Joined(inputs) /\ UNCHANGED sigs
    <2>1. /\ inputs' \in Seq(Seq(InputMembers)) /\ (Once(inputs) => Once(inputs'))
          /\ inputs # <<>>
      BY <1>2, <1>3, Joining, EmptySeq
    <2> QED
      BY <1>1, <1>2, <1>3, <2>1, SameHistory DEF HInv
  <1>4. CASE Len(sigs) > 1 /\ sigs' = Joined(sigs) /\ UNCHANGED inputs
    <2>1. /\ sigs' \in Seq(Seq(SignatureMembers)) /\ (Once(sigs) => Once(sigs'))
          /\ sigs # <<>>
      BY <1>2, <1>4, Joining, EmptySeq
    <2> QED
      BY <1>1, <1>2, <1>4, <2>1, SameHistory DEF HInv
  <1> QED
    BY <1>3, <1>4 DEF CombineLines

LEMMA DamageKeeps == ASSUME HInv, Damage PROVE HInv'
  <1>1. UNCHANGED <<made, present>>
    BY DEF Damage
  <1>2. /\ inputs \in Seq(Seq(InputMembers)) /\ sigs \in Seq(Seq(SignatureMembers))
        /\ DistinctLabels => Once(inputs) /\ Once(sigs)
    BY DEF HInv
  <1>3. CASE inputs # <<>> /\ inputs' \in Hit(inputs) /\ UNCHANGED sigs
    <2>1. inputs' \in Seq(Seq(InputMembers)) /\ (Once(inputs) => Once(inputs'))
      BY <1>2, <1>3, HitKeeps, MembersClosed
    <2> QED
      BY <1>1, <1>2, <1>3, <2>1, SameHistory DEF HInv
  <1>4. CASE sigs # <<>> /\ sigs' \in Hit(sigs) /\ UNCHANGED inputs
    <2>1. sigs' \in Seq(Seq(SignatureMembers)) /\ (Once(sigs) => Once(sigs'))
      BY <1>2, <1>4, HitKeeps, MembersClosed
    <2> QED
      BY <1>1, <1>2, <1>4, <2>1, SameHistory DEF HInv
  <1> QED
    BY <1>3, <1>4 DEF Damage

LEMMA HStep == HInv /\ [HNext]_hvars => HInv'
  <1> SUFFICES ASSUME HInv, [HNext]_hvars PROVE HInv'
    OBVIOUS
  <1>1. CASE UNCHANGED hvars
    <2>1. /\ UNCHANGED <<made, present>> /\ UNCHANGED inputs /\ UNCHANGED sigs
      BY <1>1 DEF hvars
    <2> QED
      BY <2>1, SameHistory DEF HInv
  <1> QED
    BY <1>1, SignRequestKeeps, AppendSignatureKeeps, CombineLinesKeeps, DamageKeeps DEF HNext

\* Every reachable pair of headers has the invariant.
THEOREM HeadersInvariant == HSpec => []HInv
  BY HInitHolds, HStep, PTL DEF HSpec

-----------------------------------------------------------------------------
(* The two readers.                                                        *)

\* What a reader finds under a label is on the line.
LEMMA LastAt ==
    ASSUME NEW S, NEW line \in Seq(S), NEW l \in LabelsOf(line)
    PROVE  \E i \in DOMAIN line : line[i].label = l /\ LastValue(line, l) = line[i].value
  <1> DEFINE P(i) == line[i].label = l /\ \A j \in DOMAIN line : line[j].label = l => j <= i
             has  == {i \in DOMAIN line : line[i].label = l}
  <1>1. DOMAIN line = 1..Len(line) /\ Len(line) \in Nat
    BY LenProperties
  <1>2. has \subseteq 1..Len(line) /\ has # {}
    BY <1>1 DEF LabelsOf
  <1>3. \E i \in has : \A j \in has : j <= i
    <2> HIDE DEF has
    <2> QED
      BY <1>1, <1>2, LastPosition
  <1>4. \E i \in DOMAIN line : P(i)
    BY <1>3
  <1>5. LastValue(line, l) = line[CHOOSE i \in DOMAIN line : P(i)].value
    BY DEF LastValue
  <1>6. PICK i \in DOMAIN line : P(i) /\ i = CHOOSE k \in DOMAIN line : P(k)
    <2> HIDE DEF P
    <2> QED
      BY <1>4
  <1> QED
    BY <1>5, <1>6

LEMMA LabelsFinite ==
    ASSUME NEW S, NEW line \in Seq(S)
    PROVE  IsFiniteSet(LabelsOf(line))
  <1> DEFINE f == [i \in 1..Len(line) |-> line[i].label]
  <1>1. DOMAIN line = 1..Len(line) /\ Len(line) \in Nat
    BY LenProperties
  <1>2. f \in Surjection(1..Len(line), LabelsOf(line))
    BY <1>1 DEF Surjection, LabelsOf
  <1>3. IsFiniteSet(1..Len(line))
    BY <1>1, FS_Interval
  <1> QED
    BY <1>2, <1>3, FS_Surjection

\* ParseDictionary returns the last value of each label.
LEMMA DictionaryRead ==
    ASSUME NEW line, ParseDictionary(line).ok
    PROVE  /\ ParseDictionary(line).values = [l \in LabelsOf(line) |-> LastValue(line, l)]
           /\ \A i \in DOMAIN line :
                /\ ~(Cardinality(LabelsOf(SubSeq(line, 1, i - 1))) >= MaxMembers)
                /\ line[i].label \notin BadKeys /\ ReadableValue(line[i].value)
  BY DEF ParseDictionary, Refused

\* A dictionary that was read has at most MaxMembers labels.
LEMMA FewLabels ==
    ASSUME NEW S, NEW line \in Seq(S), ParseDictionary(line).ok
    PROVE  Cardinality(LabelsOf(line)) <= MaxMembers
  <1> DEFINE n == Len(line)
             p == SubSeq(line, 1, n - 1)
  <1>1. MaxMembers \in Nat
    BY HeadersAssumption
  <1>2. DOMAIN line = 1..n /\ n \in Nat /\ \A x \in 1..n : line[x] \in S
    BY LenProperties
  <1>3. CASE n = 0
    <2>1. LabelsOf(line) = {}
      BY <1>2, <1>3 DEF LabelsOf
    <2>2. Cardinality(LabelsOf(line)) = 0
      BY <2>1, FS_EmptySet
    <2> QED
      BY <1>1, <2>2
  <1>4. CASE n > 0
    <2>1. /\ p \in Seq(S) /\ Len(p) = n - 1 /\ \A k \in 1..(n - 1) : p[k] = line[k]
      <3>1. \A x \in 1..(n - 1) : line[x] \in S
        BY <1>2
      <3>2. /\ p \in Seq(S) /\ Len(p) = IF 1 <= n - 1 THEN (n - 1) - 1 + 1 ELSE 0
            /\ \A k \in 1..((n - 1) - 1 + 1) : p[k] = line[1 + k - 1]
        BY <1>2, <3>1, SubSeqProperties
      <3> QED
        BY <1>2, <1>4, <3>2
    <2>2. ~(Cardinality(LabelsOf(p)) >= MaxMembers)
      <3>1. n \in DOMAIN line
        BY <1>2, <1>4
      <3> HIDE DEF n
      <3> QED
        BY <3>1, DictionaryRead
    <2> HIDE DEF p
    <2>3. DOMAIN p = 1..(n - 1)
      BY <2>1, LenProperties
    <2>4. LabelsOf(line) = LabelsOf(p) \cup {line[n].label}
      BY <1>2, <1>4, <2>1, <2>3 DEF LabelsOf
    <2>5. IsFiniteSet(LabelsOf(p))
      BY <2>1, LabelsFinite
    <2>6. Cardinality(LabelsOf(p)) \in Nat
      BY <2>5, FS_CardinalityType
    <2>7. Cardinality(LabelsOf(line)) <= Cardinality(LabelsOf(p)) + 1
      <3> DEFINE T == LabelsOf(p)
                 x == line[n].label
      <3>1. Cardinality(T \cup {x}) = IF x \in T THEN Cardinality(T) ELSE Cardinality(T) + 1
        <4> HIDE DEF T, x
        <4> QED
          BY <2>5, FS_AddElement DEF T
      <3> QED
        BY <2>4, <2>6, <3>1
    <2>8. Cardinality(LabelsOf(line)) \in Nat
      BY LabelsFinite, FS_CardinalityType
    <2> QED
      BY <1>1, <2>2, <2>6, <2>7, <2>8
  <1> QED
    BY <1>2, <1>3, <1>4

\* What both readers ask of the two lines, and of one label.
BothDictionaries(input, sig) ==
    /\ input # <<>> /\ sig # <<>>
    /\ ParseDictionary(input).ok /\ ParseDictionary(sig).ok

ReadableEntries(input) ==
    \A l \in LabelsOf(input) :
      LET v == ParseDictionary(input).values[l]
      IN  IsInnerList(v) /\ parseSignatureEntryFromInput(v).ok

HasBytes(sig, l) == IsBytes(ParseDictionary(sig).values[l])

Pair(input, sig, l) ==
    [ok |-> TRUE,
     entry |-> parseSignatureEntryFromInput(ParseDictionary(input).values[l]),
     bytes |-> ParseDictionary(sig).values[l].bin]

LEMMA Pairing ==
    ASSUME NEW S, NEW input \in Seq(S), NEW sig, NEW option, NEW l,
           l = IF option = "" /\ Cardinality(LabelsOf(input)) = 1
               THEN CHOOSE k \in LabelsOf(input) : TRUE ELSE option
    PROVE  PairForVerifier(option, input, sig) =
             IF /\ BothDictionaries(input, sig) /\ ReadableEntries(input)
                /\ l \in LabelsOf(input) /\ l \in LabelsOf(sig) /\ HasBytes(sig, l)
             THEN Pair(input, sig, l) ELSE Refused
  <1> DEFINE dict    == ParseDictionary(input)
             bytes   == ParseDictionary(sig)
             reply   == IF dict.ok /\ \A k \in LabelsOf(input) : IsInnerList(dict.values[k])
                        THEN ParseSignatureInput(dict.values) ELSE Refused
             entries == [k \in LabelsOf(input) |-> parseSignatureEntryFromInput(dict.values[k])]
  <1>1. PairForVerifier(option, input, sig) =
          IF /\ input # <<>> /\ sig # <<>> /\ reply.ok /\ bytes.ok
             /\ l \in LabelsOf(input) /\ l \in LabelsOf(sig)
             /\ IsBytes(bytes.values[l])
          THEN [ok |-> TRUE, entry |-> reply.signatures[l], bytes |-> bytes.values[l].bin]
          ELSE Refused
    BY DEF PairForVerifier
  <1>2. CASE dict.ok /\ ReadableEntries(input)
    <2>1. DOMAIN dict.values = LabelsOf(input)
      BY <1>2, DictionaryRead
    <2>2. ASSUME NEW k \in LabelsOf(input)
          PROVE  k \notin BadKeys /\ ReadableMember(dict.values[k])
      <3>1. dict.values[k] = LastValue(input, k)
        BY <1>2, DictionaryRead
      <3>2. PICK i \in DOMAIN input : input[i].label = k /\ LastValue(input, k) = input[i].value
        BY LastAt
      <3>3. input[i].label \notin BadKeys /\ ReadableValue(input[i].value)
        BY <1>2, DictionaryRead
      <3>4. IsInnerList(dict.values[k])
        BY <1>2 DEF ReadableEntries
      <3> HIDE DEF dict
      <3> QED
        BY <3>1, <3>2, <3>3, <3>4 DEF ReadableValue
    <2>3. ReadableDictionary(dict.values)
      BY <1>2, <2>1, <2>2, FewLabels DEF ReadableDictionary
    <2>4. ParseSignatureInput(dict.values) = [ok |-> TRUE, signatures |-> entries]
      BY <1>2, <2>1, <2>3 DEF ParseSignatureInput, ReadableEntries
    <2>5. reply = [ok |-> TRUE, signatures |-> entries]
      BY <1>2, <2>4 DEF ReadableEntries
    <2> HIDE DEF reply, dict, bytes
    <2> QED
      BY <1>1, <1>2, <2>5 DEF BothDictionaries, HasBytes, Pair, dict, bytes
  <1>3. CASE ~(dict.ok /\ ReadableEntries(input))
    <2>1. ASSUME reply.ok PROVE FALSE
      <3>1. /\ dict.ok /\ \A k \in LabelsOf(input) : IsInnerList(dict.values[k])
            /\ ParseSignatureInput(dict.values).ok
        BY <2>1 DEF Refused
      <3>2. DOMAIN dict.values = LabelsOf(input)
        BY <3>1, DictionaryRead
      <3> QED
        BY <1>3, <3>1, <3>2 DEF ParseSignatureInput, ReadableEntries
    <2> HIDE DEF reply
    <2> QED
      BY <1>1, <1>3, <2>1 DEF BothDictionaries
  <1> QED
    BY <1>2, <1>3

LEMMA Parsing ==
    ASSUME NEW input, NEW sig
    PROVE  ParseSignatures(input, sig) =
             IF /\ BothDictionaries(input, sig) /\ ReadableEntries(input)
                /\ LabelsOf(input) = LabelsOf(sig)
                /\ \A l \in LabelsOf(input) : HasBytes(sig, l)
             THEN [ok |-> TRUE, signatures |-> [l \in LabelsOf(input) |-> Pair(input, sig, l)]]
             ELSE Refused
  <1> DEFINE Entry2(l) == parseSignatureEntry(ParseDictionary(input).values[l],
                                              ParseDictionary(sig).values[l])
  <1>1. ParseSignatures(input, sig) =
          IF /\ BothDictionaries(input, sig) /\ LabelsOf(input) = LabelsOf(sig)
             /\ \A l \in LabelsOf(input) : Entry2(l).ok
          THEN [ok |-> TRUE, signatures |-> [l \in LabelsOf(input) |-> Entry2(l)]]
          ELSE Refused
    BY DEF ParseSignatures, BothDictionaries
  <1>2. ASSUME NEW l \in LabelsOf(input)
        PROVE  LET v == ParseDictionary(input).values[l]
               IN  Entry2(l) = IF /\ IsInnerList(v) /\ parseSignatureEntryFromInput(v).ok
                                  /\ HasBytes(sig, l)
                               THEN Pair(input, sig, l) ELSE Refused
    BY DEF parseSignatureEntry, HasBytes, Pair
  <1>3. Pair(input, sig, <<>>).ok /\ (\A l : Pair(input, sig, l).ok) /\ ~Refused.ok
    BY DEF Pair, Refused
  <1> HIDE DEF Entry2
  <1>4. (\A l \in LabelsOf(input) : Entry2(l).ok)
          <=> ReadableEntries(input) /\ \A l \in LabelsOf(input) : HasBytes(sig, l)
    BY <1>2, <1>3 DEF ReadableEntries
  <1>5. ASSUME ReadableEntries(input), \A l \in LabelsOf(input) : HasBytes(sig, l)
        PROVE  \A l \in LabelsOf(input) : Entry2(l) = Pair(input, sig, l)
    BY <1>2, <1>5 DEF ReadableEntries
  <1> QED
    BY <1>1, <1>4, <1>5

\* The two lines the readers get.
LEMMA LinesRead ==
    ASSUME HInv
    PROVE  Input \in Seq(InputMembers) /\ Signature \in Seq(SignatureMembers)
  <1>1. \A S : \A lines \in Seq(Seq(S)) : First(lines) \in Seq(S)
    <2> SUFFICES ASSUME NEW S, NEW lines \in Seq(Seq(S)) PROVE First(lines) \in Seq(S)
      OBVIOUS
    <2>1. CASE lines = <<>>
      BY <2>1 DEF First
    <2>2. CASE lines # <<>>
      BY <2>2, EmptySeq, LinesDomain DEF First
    <2> QED
      BY <2>1, <2>2
  <1> QED
    BY <1>1 DEF HInv, Input, Signature

\* Labels are the parties'.
LEMMA LabelsAreParties ==
    ASSUME HInv
    PROVE  LabelsOf(Input) \cup LabelsOf(Signature) \subseteq PartyLabels
  <1>1. ASSUME NEW S, \A e \in S : e.label \in PartyLabels, NEW line \in Seq(S)
        PROVE  LabelsOf(line) \subseteq PartyLabels
    BY <1>1, LenProperties, ElementOfSeq DEF LabelsOf
  <1>2. /\ \A e \in InputMembers : e.label \in PartyLabels
        /\ \A e \in SignatureMembers : e.label \in PartyLabels
    BY DEF InputMembers, SignatureMembers
  <1> QED
    BY <1>1, <1>2, LinesRead

\* The verifier asked for a label, and asked for the only one.
LEMMA VerifierPairs ==
    ASSUME HInv, NEW l \in PartyLabels, NEW option \in {l, ""},
           option = "" => LabelsOf(Input) = {l}
    PROVE  Verifier(option) =
             IF /\ BothDictionaries(Input, Signature) /\ ReadableEntries(Input)
                /\ l \in LabelsOf(Input) /\ l \in LabelsOf(Signature) /\ HasBytes(Signature, l)
             THEN Pair(Input, Signature, l) ELSE Refused
  <1>1. l # ""
    BY HeadersAssumption
  <1>2. option = "" => Cardinality(LabelsOf(Input)) = 1
    BY FS_Singleton
  <1>3. l = IF option = "" /\ Cardinality(LabelsOf(Input)) = 1
            THEN CHOOSE k \in LabelsOf(Input) : TRUE ELSE option
    <2>1. CASE option = ""
      <3>1. (CHOOSE k \in LabelsOf(Input) : TRUE) \in LabelsOf(Input)
        BY <2>1
      <3> QED
        BY <1>2, <2>1, <3>1
    <2>2. CASE option # ""
      BY <2>2
    <2> QED
      BY <2>1, <2>2
  <1> HIDE DEF Input, Signature
  <1>4. Input \in Seq(InputMembers)
    BY LinesRead
  <1> QED
    BY <1>3, <1>4, Pairing DEF Verifier

LEMMA VerifierOf ==
    ASSUME HInv, NEW l \in PartyLabels
    PROVE  Verifier(l) =
             IF /\ BothDictionaries(Input, Signature) /\ ReadableEntries(Input)
                /\ l \in LabelsOf(Input) /\ l \in LabelsOf(Signature) /\ HasBytes(Signature, l)
             THEN Pair(Input, Signature, l) ELSE Refused
  <1>1. l # "" /\ l \in {l, ""}
    BY HeadersAssumption
  <1> QED
    BY <1>1, VerifierPairs

\* ParseSignatures and verifyMessage pair the two headers alike.
THEOREM ReadersAgree == HSpec => []BothReadersAgree
  <1>1. ASSUME HInv PROVE BothReadersAgree
    <2> DEFINE I == LabelsOf(Input)
               S == LabelsOf(Signature)
               all == I \cup S
               B == BothDictionaries(Input, Signature) /\ ReadableEntries(Input)
    <2>1. Parsed = IF B /\ I = S /\ \A l \in I : HasBytes(Signature, l)
                   THEN [ok |-> TRUE, signatures |-> [l \in I |-> Pair(Input, Signature, l)]]
                   ELSE Refused
      BY Parsing DEF Parsed
    <2>2. \A l \in all : Verifier(l) = IF B /\ l \in I /\ l \in S /\ HasBytes(Signature, l)
                                      THEN Pair(Input, Signature, l) ELSE Refused
      <3>1. all \subseteq PartyLabels
        BY <1>1, LabelsAreParties
      <3> QED
        BY <1>1, <3>1, VerifierOf
    <2>3. (\A l : Pair(Input, Signature, l).ok) /\ ~Refused.ok
      BY DEF Pair, Refused
    <2>4. B => I # {}
      <3> SUFFICES ASSUME Input # <<>> PROVE I # {}
        BY DEF BothDictionaries
      <3>1. Input \in Seq(InputMembers)
        BY <1>1, LinesRead
      <3>2. 1 \in DOMAIN Input
        BY <3>1, EmptySeq, LenProperties
      <3> QED
        BY <3>2 DEF LabelsOf
    <2>5. ASSUME B, I = S, \A l \in I : HasBytes(Signature, l), Cardinality(all) = 1, NEW l \in all
          PROVE  Verifier("") = Pair(Input, Signature, l)
      <3>1. IsFiniteSet(I)
        BY <1>1, LinesRead, LabelsFinite
      <3>2. I = {l}
        BY <2>5, <3>1, FS_Singleton
      <3> QED
        BY <1>1, <2>5, <3>2, LabelsAreParties, VerifierPairs
    <2> HIDE DEF B, I, S
    <2>6. Parsed.ok <=> B /\ I = S /\ \A l \in I : HasBytes(Signature, l)
      BY <2>1, <2>3
    <2>7. Parsed.ok <=> all # {} /\ \A l \in all : Verifier(l).ok
      BY <2>2, <2>3, <2>4, <2>6
    <2>8. Parsed.ok => \A l \in all : Parsed.signatures[l] = Verifier(l)
      BY <2>1, <2>2, <2>6
    <2>9. Parsed.ok /\ Cardinality(all) = 1 =>
            \A l \in all : Parsed.signatures[l] = Verifier("")
      BY <2>1, <2>5, <2>6
    <2> QED
      BY <2>7, <2>8, <2>9 DEF BothReadersAgree, I, S
  <1> QED
    BY <1>1, HeadersInvariant, PTL

\* What stands under a label on the lines, when no label was used twice: the two
\* halves of one signing, or something no reader takes.
LEMMA HalvesMatch ==
    ASSUME HInv, DistinctLabels, BothDictionaries(Input, Signature), ReadableEntries(Input),
           NEW l \in LabelsOf(Input), l \in LabelsOf(Signature), HasBytes(Signature, l)
    PROVE  MadeTogether(l, Pair(Input, Signature, l))
  <1> DEFINE v == ParseDictionary(Input).values[l]
             w == ParseDictionary(Signature).values[l]
  <1>1. v = LastValue(Input, l) /\ w = LastValue(Signature, l)
    BY DictionaryRead DEF BothDictionaries
  <1>2. PICK n \in present : l = made[n].label /\ v \in Values \cup {made[n].member}
    <2>1. PICK i \in DOMAIN Input : Input[i].label = l /\ v = Input[i].value
      BY <1>1, LinesRead, LastAt
    <2>2. Input[i] \in InputMembers
      BY LinesRead, LenProperties, ElementOfSeq
    <2> HIDE DEF v
    <2> QED
      BY <2>1, <2>2 DEF InputMembers
  <1>3. PICK k \in present : l = made[k].label /\ w \in Values \cup {[bin |-> k]}
    <2>1. PICK i \in DOMAIN Signature : Signature[i].label = l /\ w = Signature[i].value
      BY <1>1, LinesRead, LastAt
    <2>2. Signature[i] \in SignatureMembers
      BY LinesRead, LenProperties, ElementOfSeq
    <2> HIDE DEF w
    <2> QED
      BY <2>1, <2>2 DEF SignatureMembers
  <1>4. n = k
    BY <1>2, <1>3 DEF DistinctLabels
  <1>5. IsInnerList(v) /\ parseSignatureEntryFromInput(v).ok /\ IsBytes(w)
    BY DEF ReadableEntries, HasBytes
  <1> HIDE DEF v, w
  <1>6. v = made[n].member /\ w = [bin |-> n]
    BY <1>2, <1>3, <1>4, <1>5, HeadersAssumption
  <1>7. Pair(Input, Signature, l).entry = parseSignatureEntryFromInput(v)
        /\ Pair(Input, Signature, l).bytes = w.bin
    BY DEF Pair, v, w
  <1> QED
    BY <1>2, <1>6, <1>7 DEF MadeTogether

\* No reader pairs the entry of one signing with the bytes of another.
THEOREM PairsAreMadeTogether == HSpec => []PairedTogether
  <1>1. ASSUME HInv PROVE PairedTogether
    <2>1. ASSUME DistinctLabels, NEW l \in PartyLabels, Verifier(l).ok
          PROVE  MadeTogether(l, Verifier(l))
      <3>1. Verifier(l) =
              IF /\ BothDictionaries(Input, Signature) /\ ReadableEntries(Input)
                 /\ l \in LabelsOf(Input) /\ l \in LabelsOf(Signature) /\ HasBytes(Signature, l)
              THEN Pair(Input, Signature, l) ELSE Refused
        BY <1>1, VerifierOf
      <3> HIDE DEF Verifier
      <3> QED
        BY <1>1, <2>1, <3>1, HalvesMatch DEF Refused
    <2>2. ASSUME DistinctLabels, Parsed.ok, NEW l \in DOMAIN Parsed.signatures
          PROVE  MadeTogether(l, Parsed.signatures[l])
      <3>1. /\ BothDictionaries(Input, Signature) /\ ReadableEntries(Input)
            /\ LabelsOf(Input) = LabelsOf(Signature)
            /\ \A k \in LabelsOf(Input) : HasBytes(Signature, k)
            /\ Parsed.signatures = [k \in LabelsOf(Input) |-> Pair(Input, Signature, k)]
        BY <2>2, Parsing DEF Parsed, Refused
      <3> QED
        BY <1>1, <2>2, <3>1, HalvesMatch
    <2> QED
      BY <2>1, <2>2 DEF PairedTogether
  <1> QED
    BY <1>1, HeadersInvariant, PTL

\* A line that has each present signing once, val telling what it wrote.
Whole(line, val) ==
    /\ \A i, j \in DOMAIN line : line[i].label = line[j].label => i = j
    /\ \A n \in present : /\ made[n].label \notin BadKeys
                          /\ ReadableValue(val[n])
                          /\ \E i \in DOMAIN line : line[i] = Member(made[n].label, val[n])
    /\ \A i \in DOMAIN line : \E n \in present : line[i].label = made[n].label

\* Such a line is read: its labels are those of the signings, and what is read
\* under one is what its signing wrote.
LEMMA WholeLineRead ==
    ASSUME HInv, DistinctLabels, present # {}, Cardinality(present) <= MaxMembers,
           NEW S, NEW line \in Seq(S), NEW val, Whole(line, val)
    PROVE  /\ line # <<>> /\ ParseDictionary(line).ok
           /\ LabelsOf(line) = {made[n].label : n \in present}
           /\ \A n \in present : ParseDictionary(line).values[made[n].label] = val[n]
  <1>1. DOMAIN line = 1..Len(line) /\ Len(line) \in Nat /\ \A x \in DOMAIN line : line[x] \in S
    BY LenProperties
  <1>2. \A l, v : Member(l, v).label = l /\ Member(l, v).value = v
    BY DEF Member
  <1>3. LabelsOf(line) = {made[n].label : n \in present}
    BY <1>2 DEF LabelsOf, Whole
  <1>4. line # <<>>
    BY <1>1 DEF Whole
  <1>5. ASSUME NEW i \in DOMAIN line
        PROVE  \E n \in present : line[i] = Member(made[n].label, val[n])
    <2>1. PICK n \in present : line[i].label = made[n].label
      BY DEF Whole
    <2>2. PICK j \in DOMAIN line : line[j] = Member(made[n].label, val[n])
      BY DEF Whole
    <2>3. line[i].label = line[j].label
      BY <1>2, <2>1, <2>2
    <2>4. i = j
      BY <2>3, Zenon DEF Whole
    <2> QED
      BY <2>2, <2>4
  <1>6. ASSUME NEW i \in DOMAIN line
        PROVE  line[i].label \notin BadKeys /\ ReadableValue(line[i].value)
    <2>1. PICK n \in present : line[i] = Member(made[n].label, val[n])
      BY <1>5
    <2>2. made[n].label \notin BadKeys /\ ReadableValue(val[n])
      BY DEF Whole
    <2>3. line[i].label = made[n].label /\ line[i].value = val[n]
      BY <1>2, <2>1
    <2> QED
      BY <2>2, <2>3
  <1>7. ASSUME NEW i \in DOMAIN line
        PROVE  ~(Cardinality(LabelsOf(SubSeq(line, 1, i - 1))) >= MaxMembers)
    <2> DEFINE p == SubSeq(line, 1, i - 1)
               L == LabelsOf(line)
               x == line[i].label
               f == [n \in present |-> made[n].label]
    <2>1. i \in 1..Len(line)
      BY <1>1
    <2>2. /\ p \in Seq(S) /\ Len(p) = i - 1 /\ \A k \in 1..(i - 1) : p[k] = line[k]
      <3>1. \A k \in 1..(i - 1) : line[k] \in S
        BY <1>1, <2>1
      <3>2. /\ p \in Seq(S) /\ Len(p) = IF 1 <= i - 1 THEN (i - 1) - 1 + 1 ELSE 0
            /\ \A k \in 1..((i - 1) - 1 + 1) : p[k] = line[1 + k - 1]
        BY <1>1, <2>1, <3>1, SubSeqProperties
      <3> QED
        BY <1>1, <2>1, <3>2
    <2> HIDE DEF p
    <2>3. LabelsOf(p) \subseteq L \ {x} /\ x \in L
      <3>1. DOMAIN p = 1..(i - 1)
        BY <2>2, LenProperties
      <3>2. \A k \in 1..(i - 1) : k \in DOMAIN line /\ k # i
        BY <1>1, <2>1
      <3> QED
        BY <2>2, <3>1, <3>2 DEF LabelsOf, Whole
    <2>4. IsFiniteSet(L)
      BY LabelsFinite
    <2>5. /\ Cardinality(L) \in Nat /\ IsFiniteSet(L \ {x})
          /\ Cardinality(L \ {x}) = Cardinality(L) - 1
      <3> HIDE DEF L, x
      <3> QED
        BY <2>3, <2>4, FS_RemoveElement, FS_CardinalityType
    <2>6. Cardinality(LabelsOf(p)) <= Cardinality(L \ {x}) /\ IsFiniteSet(LabelsOf(p))
      <3> HIDE DEF L, x
      <3> QED
        BY <2>3, <2>5, FS_Subset
    <2>7. IsFiniteSet(present)
      <3>1. IsFiniteSet(1..Len(made))
        BY LenProperties, FS_Interval DEF HInv
      <3> QED
        BY <3>1, FS_Subset DEF HInv
    <2>8. Cardinality(L) <= Cardinality(present)
      <3>1. f \in Surjection(present, L)
        BY <1>3 DEF Surjection
      <3> QED
        BY <2>7, <3>1, FS_Surjection
    <2>9. Cardinality(LabelsOf(p)) \in Nat /\ Cardinality(present) \in Nat
      BY <2>6, <2>7, FS_CardinalityType
    <2>10. MaxMembers \in Nat
      BY HeadersAssumption
    <2> HIDE DEF L, x
    <2>11. ~(Cardinality(LabelsOf(p)) >= MaxMembers)
      BY <2>5, <2>6, <2>8, <2>9, <2>10
    <2> QED
      BY <2>11 DEF p
  <1>8. ParseDictionary(line) =
          [ok |-> TRUE, values |-> [l \in LabelsOf(line) |-> LastValue(line, l)]]
    BY <1>6, <1>7 DEF ParseDictionary
  <1>9. ASSUME NEW n \in present PROVE ParseDictionary(line).values[made[n].label] = val[n]
    <2>1. made[n].label \in LabelsOf(line)
      BY <1>3
    <2>2. PICK i \in DOMAIN line : line[i].label = made[n].label
                                   /\ LastValue(line, made[n].label) = line[i].value
      BY <2>1, LastAt
    <2>3. PICK j \in DOMAIN line : line[j] = Member(made[n].label, val[n])
      BY DEF Whole
    <2>4. i = j
      BY <1>2, <2>2, <2>3 DEF Whole
    <2>5. LastValue(line, made[n].label) = val[n]
      BY <1>2, <2>2, <2>3, <2>4
    <2> QED
      BY <1>8, <2>1, <2>5
  <1>10. ParseDictionary(line).ok
    BY <1>8
  <1> QED
    BY <1>3, <1>4, <1>9, <1>10

\* Every party's signature is given back.
THEOREM SignaturesGivenBack == HSpec => []AllSignaturesRead
  <1>1. ASSUME HInv, Intact, DistinctLabels, Cardinality(present) <= MaxMembers,
               \A n \in present : Acceptable(n)
        PROVE  Parsed.ok /\ \A n \in present : Parsed.signatures[made[n].label].bytes = n
    <2> DEFINE val == [n \in present |-> made[n].member]
               bin == [n \in present |-> [bin |-> n]]
    <2>1. Input = inputs[1] /\ Signature = sigs[1] /\ 1 \in DOMAIN inputs /\ 1 \in DOMAIN sigs
      <3>1. inputs \in Seq(Seq(InputMembers)) /\ sigs \in Seq(Seq(SignatureMembers))
        BY <1>1 DEF HInv
      <3>2. Len(inputs) = 1 /\ Len(sigs) = 1
        BY <1>1 DEF Intact
      <3>3. inputs # <<>> /\ sigs # <<>>
        BY <3>2
      <3> QED
        BY <3>1, <3>2, <3>3, LenProperties DEF Input, Signature, First
    <2>2. present # {}
      <3>1. Len(inputs) = 1
        BY <1>1 DEF Intact
      <3>2. inputs # <<>>
        BY <3>1, EmptySeq
      <3> QED
        BY <1>1, <3>2 DEF HInv
    <2>3. /\ Input \in Seq(InputMembers) /\ Signature \in Seq(SignatureMembers)
          /\ \A i, j \in DOMAIN Input : Input[i].label = Input[j].label => i = j
          /\ \A i, j \in DOMAIN Signature : Signature[i].label = Signature[j].label => i = j
      BY <1>1, <2>1, LinesRead DEF HInv, Once
    <2>4. /\ \A i \in DOMAIN Input : \E n \in present : Input[i].label = made[n].label
          /\ \A i \in DOMAIN Signature : \E n \in present : Signature[i].label = made[n].label
      <3>1. /\ \A e \in InputMembers : \E n \in present : e.label = made[n].label
            /\ \A e \in SignatureMembers : \E n \in present : e.label = made[n].label
        BY DEF InputMembers, SignatureMembers
      <3> QED
        BY <2>3, <3>1, LenProperties, ElementOfSeq
    <2>5. \A n \in present : IsInnerList(made[n].member)
      <3>1. \A n \in present : made[n] \in Signings
        BY <1>1, ElementOfSeq DEF HInv
      <3> QED
        BY <3>1, HeadersAssumption DEF Signings
    <2>6. \A n \in present :
            /\ made[n].label \notin BadKeys
            /\ ReadableValue(val[n])
            /\ \E i \in DOMAIN Input : Input[i] = Member(made[n].label, val[n])
      BY <1>1, <2>5 DEF Acceptable, Intact, ReadableValue
    <2>7. \A n \in present :
            /\ made[n].label \notin BadKeys
            /\ ReadableValue(bin[n])
            /\ \E i \in DOMAIN Signature : Signature[i] = Member(made[n].label, bin[n])
      <3>1. \A n : DOMAIN [bin |-> n] = {"bin"}
        OBVIOUS
      <3> QED
        BY <1>1, <3>1 DEF Acceptable, Intact, ReadableValue, ReadableItem, IsInnerList
    <2>8. Whole(Input, val) /\ Whole(Signature, bin)
      <3> HIDE DEF val, bin, Input, Signature
      <3> QED
        BY <2>3, <2>4, <2>6, <2>7 DEF Whole
    <2>9. /\ \A n \in present : val[n] = made[n].member
          /\ \A n \in present : IsBytes(bin[n]) /\ bin[n].bin = n
      BY DEF IsBytes
    <2> HIDE DEF val, bin, Input, Signature
    <2>10. /\ Input # <<>> /\ ParseDictionary(Input).ok
           /\ LabelsOf(Input) = {made[n].label : n \in present}
           /\ \A n \in present : ParseDictionary(Input).values[made[n].label] = val[n]
      BY <1>1, <2>2, <2>3, <2>8, WholeLineRead
    <2>11. /\ Signature # <<>> /\ ParseDictionary(Signature).ok
           /\ LabelsOf(Signature) = {made[n].label : n \in present}
           /\ \A n \in present : ParseDictionary(Signature).values[made[n].label] = bin[n]
      BY <1>1, <2>2, <2>3, <2>8, WholeLineRead
    <2>12. BothDictionaries(Input, Signature)
      BY <2>10, <2>11 DEF BothDictionaries
    <2>13. ReadableEntries(Input)
      BY <1>1, <2>5, <2>9, <2>10 DEF ReadableEntries, Acceptable
    <2>14. \A l \in LabelsOf(Input) : HasBytes(Signature, l)
      BY <2>9, <2>10, <2>11 DEF HasBytes
    <2>15. \A n \in present : Pair(Input, Signature, made[n].label).bytes = n
      BY <2>9, <2>11 DEF Pair
    <2>16. Parsed = [ok |-> TRUE,
                     signatures |-> [l \in LabelsOf(Input) |-> Pair(Input, Signature, l)]]
      BY <2>10, <2>11, <2>12, <2>13, <2>14, Parsing DEF Parsed
    <2> QED
      BY <2>10, <2>15, <2>16
  <1>2. HInv => AllSignaturesRead
    BY <1>1 DEF AllSignaturesRead
  <1> QED
    BY <1>2, HeadersInvariant, PTL

-----------------------------------------------------------------------------
(* The window of created and expires, for every clock resolution, every    *)
(* policy and every signer.                                                *)

\* Rounding down to whole seconds loses less than a second.
LEMMA WholeSeconds ==
    ASSUME NEW t \in Int
    PROVE  /\ Unix(t) \in Int
           /\ FromUnix(Unix(t)) \in Int
           /\ FromUnix(Unix(t)) <= t
           /\ t < FromUnix(Unix(t)) + TicksPerSecond
  BY ClockAssumption DEF Unix, FromUnix

\* Every outcome of the validation is one of its named errors or "ok".
LEMMA VerdictType ==
    ASSUME NEW ts, NEW opts, NEW t
    PROVE  ValidateSignatureParams(ts, opts, t) \in
             {"ok", "bad options", "created missing", "in the future", "too old",
              "expires missing", "expired", "expires before created"}
  BY DEF ValidateSignatureParams, validateCreatedParam, validateExpiresParam

LEMMA LInitInv == LInit => LInv
  BY LifetimeAssumption, ClockAssumption
  DEF LInit, LInv, LTypeOK, Stamped, Judged, NotBorn, Timestamps, Instants, Seconds

LEMMA LStepInv == LInv /\ [LNext]_lvars => LInv'
  <1> SUFFICES ASSUME LInv, [LNext]_lvars PROVE LInv'
    OBVIOUS
  <1>T. /\ clock \in Nat /\ policy \in Options /\ born \in Timestamps
        /\ stamps \in Timestamps /\ checked \in Nat \cup {NoInstant}
        /\ Stamped /\ Judged
    BY DEF LInv, LTypeOK
  <1>V. verdict = "none" \/ verdict = ValidateSignatureParams(stamps, policy, checked)
    BY <1>T DEF Judged
  <1>0. CASE UNCHANGED lvars
    <2>1. LTypeOK'
      BY <1>0 DEF LInv, LTypeOK, lvars
    <2>2. Stamped'
      BY <1>0, <1>T DEF lvars, Stamped, Seconds, Unix
    <2>3. Judged'
      BY <1>0, <1>T DEF lvars, Judged, ValidateSignatureParams, resolveValidationNow,
           validateCreatedParam, validateExpiresParam, FromUnix
    <2> QED
      BY <2>1, <2>2, <2>3 DEF LInv
  <1>1. CASE NewSigner
    <2>1. PICK o \in SignerOptionSet :
            born' = [created |-> IF o.disabled THEN NoInstant
                                 ELSE IF o.created = NoInstant THEN clock ELSE o.created,
                     expires |-> o.expires]
      BY <1>1 DEF NewSigner
    <2>2. born' \in Timestamps
      <3>1. o.created \in Instants /\ o.expires \in Instants
        BY LifetimeAssumption
      <3>2. NoInstant \in Instants /\ clock \in Instants
        BY <1>T DEF Instants
      <3> QED
        BY <2>1, <3>1, <3>2 DEF Timestamps
    <2>3. /\ stamps' = [created |-> Seconds(born'.created), expires |-> Seconds(born'.expires)]
          /\ verdict' = "none" /\ clock' = clock /\ policy' = policy /\ checked' = checked
      BY <1>1 DEF NewSigner
    <2>4. \A t \in Instants : Seconds(t) \in Instants
      BY WholeSeconds DEF Instants, Seconds
    <2>5. stamps' \in Timestamps
      BY <2>2, <2>3, <2>4 DEF Timestamps
    <2>6. Stamped'
      BY <2>3 DEF Stamped, Seconds, Unix
    <2>7. Judged' /\ LTypeOK'
      BY <1>T, <2>2, <2>3, <2>5 DEF Judged, LTypeOK
    <2> QED
      BY <2>6, <2>7 DEF LInv
  <1>2. CASE Tick
    <2>1. clock' = clock + 1 /\ UNCHANGED <<policy, born, stamps, checked, verdict>>
      BY <1>2 DEF Tick
    <2>2. LTypeOK'
      <3>1. clock' \in Nat
        BY <1>T, <2>1
      <3> QED
        BY <2>1, <3>1 DEF LInv, LTypeOK
    <2>3. Stamped'
      BY <1>T, <2>1 DEF Stamped, Seconds, Unix
    <2>4. Judged'
      <3>1. CASE verdict = "none"
        BY <2>1, <3>1 DEF Judged
      <3>2. CASE verdict # "none"
        <4>1. checked \in Nat /\ checked <= clock
          BY <1>T, <3>2 DEF Judged
        <4>2. checked' \in Nat /\ checked' <= clock'
          BY <1>T, <2>1, <4>1
        <4>3. (verdict = ValidateSignatureParams(stamps, policy, checked))'
          BY <1>V, <3>2, <2>1
          DEF ValidateSignatureParams, resolveValidationNow,
              validateCreatedParam, validateExpiresParam, FromUnix
        <4> QED
          BY <4>2, <4>3 DEF Judged
      <3> QED
        BY <3>1, <3>2
    <2> QED
      BY <2>2, <2>3, <2>4 DEF LInv
  <1>3. CASE Validate
    <2>1. verdict' = ValidateSignatureParams(stamps, policy, clock)
          /\ UNCHANGED <<clock, policy, born, stamps>> /\ checked' = clock
      BY <1>3 DEF Validate
    <2>2. LTypeOK'
      <3>1. verdict' \in {"none", "ok", "bad options", "created missing", "in the future",
                          "too old", "expires missing", "expired", "expires before created"}
        BY <2>1, VerdictType
      <3> QED
        BY <1>T, <2>1, <3>1 DEF LTypeOK
    <2>3. Stamped'
      BY <1>T, <2>1 DEF Stamped, Seconds, Unix
    <2>4. Judged'
      <3>1. checked' \in Nat /\ checked' <= clock'
        BY <1>T, <2>1
      <3>2. (verdict = ValidateSignatureParams(stamps, policy, checked))'
        BY <2>1 DEF ValidateSignatureParams, resolveValidationNow, validateCreatedParam,
                    validateExpiresParam, FromUnix
      <3> QED
        BY <3>1, <3>2 DEF Judged
    <2> QED
      BY <2>2, <2>3, <2>4 DEF LInv
  <1> QED
    BY <1>0, <1>1, <1>2, <1>3 DEF LNext

THEOREM LifetimeInvariant == LSpec => []LInv
  BY LInitInv, LStepInv, PTL DEF LSpec

\* SignatureLifetime's variables keep their types.
THEOREM LifetimeTypes == LSpec => []LTypeOK
  <1>1. LInv => LTypeOK
    BY DEF LInv
  <1> QED
    BY <1>1, LifetimeInvariant, PTL

\* What validation leaves to know of a signature whose instants were t.
LEMMA RoundedChecks ==
    ASSUME NEW t \in Instants, t # NoInstant
    PROVE  /\ t \in Int
           /\ Seconds(t) # NoInstant
           /\ FromUnix(Seconds(t)) \in Int
           /\ FromUnix(Seconds(t)) <= t
           /\ t < FromUnix(Seconds(t)) + TicksPerSecond
  BY WholeSeconds, ClockAssumption DEF Instants, Seconds

\* The time the last validation used is an instant.
LEMMA ReferenceType == ASSUME LInv, verdict # "none" PROVE Reference \in Int
  <1>1. checked \in Nat /\ policy \in Options
    BY DEF LInv, LTypeOK, Judged
  <1>2. policy.now \in Instants
    BY <1>1 DEF Options
  <1> QED
    BY <1>1, <1>2 DEF Reference, resolveValidationNow, Instants

\* The created and expires of an accepted signature bound the true instants the
\* signer was given, for every resolution of the clocks.
THEOREM FreshWhenAccepted == LSpec => []AcceptedIsFresh
  <1>1. LInv => AcceptedIsFresh
    <2> SUFFICES ASSUME LInv, verdict = "ok" PROVE AcceptedIsFresh
      BY DEF AcceptedIsFresh
    <2>1. /\ policy \in Options /\ born \in Timestamps
          /\ ValidateSignatureParams(stamps, policy, checked) = "ok"
          /\ stamps.created = Seconds(born.created)
          /\ stamps.expires = Seconds(born.expires)
      BY DEF LInv, LTypeOK, Judged, Stamped
    <2>2. Reference \in Int
      BY ReferenceType
    <2>3. /\ validateCreatedParam(stamps, policy, Reference) = "ok"
          /\ validateExpiresParam(stamps, policy, Reference) = "ok"
      BY <2>1 DEF ValidateSignatureParams, Reference
    <2>4. /\ policy.notOlderThan \in Int /\ policy.notNewerThan \in Int
          /\ born.created \in Instants /\ born.expires \in Instants
      BY <2>1 DEF Options, Timestamps
    <2>5. policy.notOlderThan > 0 =>
            born.created # NoInstant /\ Reference - born.created <= policy.notOlderThan
      <3>1. policy.notOlderThan > 0 => born.created # NoInstant
        BY <2>1, <2>3 DEF validateCreatedParam, Seconds
      <3>2. ASSUME born.created # NoInstant, policy.notOlderThan > 0
            PROVE  ~(FromUnix(stamps.created) + policy.notOlderThan < Reference)
        BY <2>1, <2>3, <2>4, <3>2, RoundedChecks DEF validateCreatedParam
      <3>3. ASSUME born.created # NoInstant, policy.notOlderThan > 0
            PROVE  Reference - born.created <= policy.notOlderThan
        BY <2>1, <2>2, <2>4, <3>2, <3>3, RoundedChecks
      <3> QED
        BY <3>1, <3>3
    <2>6. policy.notNewerThan > 0 =>
            /\ born.created # NoInstant
            /\ born.created - Reference < policy.notNewerThan + TicksPerSecond
      <3>1. policy.notNewerThan > 0 => born.created # NoInstant
        BY <2>1, <2>3 DEF validateCreatedParam, Seconds
      <3>2. ASSUME born.created # NoInstant, policy.notNewerThan > 0
            PROVE  ~(FromUnix(stamps.created) > Reference + policy.notNewerThan)
        BY <2>1, <2>3, <2>4, <3>2, RoundedChecks DEF validateCreatedParam
      <3>3. ASSUME born.created # NoInstant, policy.notNewerThan > 0
            PROVE  born.created - Reference < policy.notNewerThan + TicksPerSecond
        BY <2>1, <2>2, <2>4, <3>2, <3>3, RoundedChecks, ClockAssumption
      <3> QED
        BY <3>1, <3>3
    <2>7. ASSUME policy.rejectExpired, born.expires # NoInstant
          PROVE  Reference <= born.expires
      <3>1. ~(Reference > FromUnix(stamps.expires))
        BY <2>1, <2>3, <2>4, <2>7, RoundedChecks DEF validateExpiresParam
      <3> QED
        BY <2>1, <2>2, <2>4, <2>7, <3>1, RoundedChecks
    <2> QED
      BY <2>5, <2>6, <2>7 DEF AcceptedIsFresh
  <1> QED
    BY <1>1, LifetimeInvariant, PTL

\* A signature refused as too old, in the future or expired is at most the
\* fraction of a second away from being so by its exact instants.
THEOREM NoEarlyRefusal == LSpec => []RefusedForCause
  <1>1. LInv => RefusedForCause
    <2>0. SUFFICES ASSUME LInv, verdict \in {"too old", "in the future", "expired"}
                   PROVE  RefusedForCause
      BY DEF RefusedForCause
    <2>1. /\ policy \in Options /\ born \in Timestamps
          /\ ValidateSignatureParams(stamps, policy, checked) = verdict
          /\ stamps.created = Seconds(born.created)
          /\ stamps.expires = Seconds(born.expires)
      BY <2>0 DEF LInv, LTypeOK, Judged, Stamped
    <2>2. Reference \in Int
      BY <2>0, ReferenceType
    <2>3. /\ policy.notOlderThan \in Int /\ policy.notNewerThan \in Int
          /\ born.created \in Instants /\ born.expires \in Instants
      BY <2>1 DEF Options, Timestamps
    <2>4. ASSUME verdict = "too old"
          PROVE  Reference - born.created > policy.notOlderThan - TicksPerSecond
      <3>1. born.created # NoInstant
            /\ FromUnix(stamps.created) + policy.notOlderThan < Reference
        BY <2>1, <2>4 DEF ValidateSignatureParams, Reference, validateCreatedParam,
                          validateExpiresParam, Seconds
      <3>2. TicksPerSecond \in Int /\ born.created \in Int
            /\ FromUnix(stamps.created) \in Int
            /\ born.created < FromUnix(stamps.created) + TicksPerSecond
        BY <2>1, <2>3, <3>1, RoundedChecks, ClockAssumption
      <3> QED
        BY <2>2, <2>3, <3>1, <3>2
    <2>5. ASSUME verdict = "in the future"
          PROVE  born.created - Reference > policy.notNewerThan
      <3>1. born.created # NoInstant
            /\ FromUnix(stamps.created) > Reference + policy.notNewerThan
        BY <2>1, <2>5 DEF ValidateSignatureParams, Reference, validateCreatedParam,
                          validateExpiresParam, Seconds
      <3>2. born.created \in Int
            /\ FromUnix(stamps.created) \in Int
            /\ FromUnix(stamps.created) <= born.created
        BY <2>1, <2>3, <3>1, RoundedChecks
      <3> QED
        BY <2>2, <2>3, <3>1, <3>2
    <2>6. ASSUME verdict = "expired"
          PROVE  Reference > born.expires - TicksPerSecond
      <3>1. born.expires # NoInstant /\ Reference > FromUnix(stamps.expires)
        BY <2>1, <2>6 DEF ValidateSignatureParams, Reference, validateCreatedParam,
                          validateExpiresParam, Seconds
      <3>2. TicksPerSecond \in Int /\ born.expires \in Int
            /\ FromUnix(stamps.expires) \in Int
            /\ born.expires < FromUnix(stamps.expires) + TicksPerSecond
        BY <2>1, <2>3, <3>1, RoundedChecks, ClockAssumption
      <3> QED
        BY <2>2, <2>3, <3>1, <3>2
    <2> QED
      BY <2>4, <2>5, <2>6 DEF RefusedForCause
  <1> QED
    BY <1>1, LifetimeInvariant, PTL

\* At a later time created is not in the future if it was not, and too old if it was.
LEMMA CreatedAges ==
    ASSUME NEW ts \in Timestamps, NEW opts \in Options, NEW n \in Int, NEW m \in Int, n <= m
    PROVE  /\ validateCreatedParam(ts, opts, n) = "too old"
                => validateCreatedParam(ts, opts, m) = "too old"
           /\ validateCreatedParam(ts, opts, n) = "ok"
                => validateCreatedParam(ts, opts, m) \in {"ok", "too old"}
  <1> DEFINE at        == FromUnix(ts.created)
             future(x) == opts.notNewerThan > 0 /\ at > x + opts.notNewerThan
             aged(x)   == opts.notOlderThan > 0 /\ at + opts.notOlderThan < x
  <1>1. /\ opts.notOlderThan \in Int /\ opts.notNewerThan \in Int
        /\ ts.created # NoInstant => at \in Int
    BY ClockAssumption DEF Options, Timestamps, Instants, FromUnix
  <1>2. ts.created # NoInstant => (aged(n) => aged(m) /\ ~future(m))
    <2>1. ASSUME ts.created # NoInstant, aged(n) PROVE aged(m) /\ ~future(m)
      BY <1>1, <2>1
    <2> QED
      BY <2>1
  <1>3. ts.created # NoInstant => (~future(n) => ~future(m))
    <2>1. ASSUME ts.created # NoInstant, ~future(n) PROVE ~future(m)
      BY <1>1, <2>1
    <2> QED
      BY <2>1
  <1>4. validateCreatedParam(ts, opts, n) = "too old" => ts.created # NoInstant /\ aged(n)
    BY DEF validateCreatedParam
  <1>5. validateCreatedParam(ts, opts, n) = "ok" /\ ts.created # NoInstant => ~future(n)
    BY DEF validateCreatedParam
  <1> HIDE DEF at, future, aged
  <1>6. ts.created # NoInstant =>
          validateCreatedParam(ts, opts, m) =
            IF future(m) THEN "in the future" ELSE IF aged(m) THEN "too old" ELSE "ok"
    BY DEF validateCreatedParam, at, future, aged
  <1>7. ts.created = NoInstant =>
          validateCreatedParam(ts, opts, m) = validateCreatedParam(ts, opts, n)
    BY DEF validateCreatedParam
  <1> QED
    BY <1>2, <1>3, <1>4, <1>5, <1>6, <1>7

\* What has expired stays expired.
LEMMA ExpiryLasts ==
    ASSUME NEW ts \in Timestamps, NEW opts \in Options, NEW n \in Int, NEW m \in Int, n <= m,
           validateExpiresParam(ts, opts, n) = "expired"
    PROVE  validateExpiresParam(ts, opts, m) = "expired"
  <1>1. ts.expires # NoInstant /\ opts.rejectExpired /\ n > FromUnix(ts.expires)
    BY DEF validateExpiresParam
  <1>2. FromUnix(ts.expires) \in Int
    BY <1>1, ClockAssumption DEF Timestamps, Instants, FromUnix
  <1>3. m > FromUnix(ts.expires)
    BY <1>1, <1>2
  <1> QED
    BY <1>1, <1>3 DEF validateExpiresParam

\* Validation at a later instant of what was stale finds it stale.
LEMMA StalePersists ==
    ASSUME NEW ts \in Timestamps, NEW opts \in Options, NEW t \in Nat, NEW u \in Nat, t <= u
    PROVE  Stale(ValidateSignatureParams(ts, opts, t))
             => Stale(ValidateSignatureParams(ts, opts, u))
  <1> DEFINE before == resolveValidationNow(opts, t)
             after  == resolveValidationNow(opts, u)
  <1>1. before \in Int /\ after \in Int /\ before <= after
    BY DEF resolveValidationNow, Instants, Options
  <1> HIDE DEF before, after
  <1> DEFINE old    == validateCreatedParam(ts, opts, before)
             new    == validateCreatedParam(ts, opts, after)
             oldExp == validateExpiresParam(ts, opts, before)
             newExp == validateExpiresParam(ts, opts, after)
             bad    == opts.notNewerThan < 0 \/ opts.notOlderThan < 0
  <1>2. /\ old = "too old" => new = "too old"
        /\ old = "ok" => new \in {"ok", "too old"}
    BY <1>1, CreatedAges
  <1>3. oldExp = "expired" => newExp = "expired"
    BY <1>1, ExpiryLasts
  <1>4. old # "expired" /\ oldExp # "too old"
    BY DEF validateCreatedParam, validateExpiresParam
  <1>5. /\ ValidateSignatureParams(ts, opts, t) =
             IF bad THEN "bad options" ELSE IF old # "ok" THEN old ELSE oldExp
        /\ ValidateSignatureParams(ts, opts, u) =
             IF bad THEN "bad options" ELSE IF new # "ok" THEN new ELSE newExp
    BY DEF ValidateSignatureParams, before, after
  <1> HIDE DEF old, new, oldExp, newExp, bad
  <1> QED
    BY <1>2, <1>3, <1>4, <1>5 DEF Stale

\* A signature once found too old or expired is never accepted afterwards.
THEOREM StaleStaysStale == LSpec => StaleForEver
  <1>1. LInv /\ [LNext]_lvars => [Stale(verdict) /\ verdict' # verdict => Stale(verdict')]_lvars
    <2> SUFFICES ASSUME LInv, LNext, Stale(verdict), verdict' # verdict
                 PROVE  Stale(verdict')
      OBVIOUS
    <2>1. Validate
      BY DEF LNext, NewSigner, Tick
    <2>2. /\ policy \in Options /\ stamps \in Timestamps /\ clock \in Nat
          /\ checked \in Nat /\ checked <= clock
          /\ verdict = ValidateSignatureParams(stamps, policy, checked)
      BY DEF LInv, LTypeOK, Judged, Stale
    <2>3. verdict' = ValidateSignatureParams(stamps, policy, clock)
      BY <2>1 DEF Validate
    <2>4. Stale(ValidateSignatureParams(stamps, policy, clock))
      BY <2>2, StalePersists
    <2> QED
      BY <2>3, <2>4
  <1> QED
    BY <1>1, LifetimeInvariant, PTL DEF LSpec, StaleForEver
=============================================================================
