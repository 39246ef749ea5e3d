--------------------------- MODULE SignatureInput ---------------------------
(***************************************************************************)
(* The Signature-Input header between httpsig/serialize.go, which writes   *)
(* it, and parser/parser.go, which reads it.                               *)
(*                                                                         *)
(* On the wire a member of the dictionary is a record [items, params]:     *)
(* items a sequence of [name, params], params a sequence of [key, value].  *)
(* Writing checks next to nothing; reading refuses what the grammar of     *)
(* structured fields does not have (keys, characters, integers of more     *)
(* than 15 digits) and what exceeds the limits.  The grammar itself is     *)
(* abstracted to the predicates of a bare item and of a key below.  The    *)
(* limit on the length of the whole header is left out.                    *)
(***************************************************************************)
EXTENDS SignatureBase

CONSTANTS
    Unreadable,    \* strings with a character outside printable ASCII, or longer
                   \* than Limits.MaxStringLength; among the names, also what is no
                   \* string, which makes the header unreadable as well
    BadKeys,       \* strings that are no dictionary or parameter key
    MaxInteger,    \* the largest integer the parser reads (15 digits)
    MaxComponents, \* Limits.MaxInnerListMembers
    MaxMembers,    \* Limits.MaxDictionaryMembers
    MaxParameters  \* Limits.MaxParameters

\* Names that begin with @.
DerivedNames == {"@method", "@target-uri", "@authority", "@scheme",
                 "@request-target", "@path", "@query", "@query-param", "@status"}
AtNames == DerivedNames \cup {"@signature-params", "@unknown"}

Int64(v) == [int |-> v]
Str(v)   == [str |-> v]

-----------------------------------------------------------------------------
(* serialize.go                                                            *)

\* Mutant: the tag is not written.
paramsToSFVWithoutTag(params) == CanonicalParams([params EXCEPT !.tag = Absent])

signatureParamsToSFV(params) == CanonicalParams(params)

\* The inner list of a signature; a component parameter without a value cannot
\* be written.
serializeSignatureInput(comps, params) ==
    IF \E i \in 1..Len(comps) : \E j \in 1..Len(comps[i].params) :
         comps[i].params[j].value = NilItem
    THEN [ok |-> FALSE]
    ELSE [ok |-> TRUE,
          member |-> [items  |-> [i \in 1..Len(comps) |->
                                    [name |-> comps[i].name, params |-> comps[i].params]],
                      params |-> signatureParamsToSFV(params)]]

-----------------------------------------------------------------------------
(* sfv: what the parser reads back from what the serializer wrote.         *)

ReadableItem(v) ==
    /\ "int" \in DOMAIN v => v.int \in (-MaxInteger)..MaxInteger
    /\ "str" \in DOMAIN v => v.str \notin Unreadable

ReadableParams(params) ==
    /\ Len(params) <= MaxParameters
    /\ \A i \in 1..Len(params) :
         params[i].key \notin BadKeys /\ ReadableItem(params[i].value)

ReadableMember(m) ==
    /\ Len(m.items) <= MaxComponents
    /\ \A i \in 1..Len(m.items) :
         m.items[i].name \notin Unreadable /\ ReadableParams(m.items[i].params)
    /\ ReadableParams(m.params)

\* ParseDictionary of a header line, a function from labels to members.
ReadableDictionary(dict) ==
    /\ Cardinality(DOMAIN dict) <= MaxMembers
    /\ \A label \in DOMAIN dict : label \notin BadKeys /\ ReadableMember(dict[label])

-----------------------------------------------------------------------------
(* validator.go                                                            *)

HasParam(comp, key) == \E i \in 1..Len(comp.params) : comp.params[i].key = key

validateDerivedComponentParameters(comp) ==
    comp.name = "@query-param" => HasParam(comp, "name")

\* By presence, whatever the value of the parameter.
validateParameterCombinations(comp) ==
    /\ ~(HasParam(comp, "bs") /\ HasParam(comp, "sf"))
    /\ ~(HasParam(comp, "bs") /\ HasParam(comp, "key"))
    /\ HasParam(comp, "key") => HasParam(comp, "sf")

validateComponentIdentifier(comp) ==
    /\ comp.type = "derived" =>
         comp.name \in DerivedNames /\ validateDerivedComponentParameters(comp)
    /\ validateParameterCombinations(comp)

-----------------------------------------------------------------------------
(* parser.go                                                               *)

\* The type of a component is read off its name.
ParsedComponent(item) ==
    [name   |-> item.name,
     type   |-> IF item.name \in AtNames THEN "derived" ELSE "field",
     params |-> item.params]

NoParams == [created |-> Absent, expires |-> Absent, nonce |-> Absent,
             alg |-> Absent, keyid |-> Absent, tag |-> Absent]

IntKeys == {"created", "expires"}
StrKeys == {"nonce", "alg", "keyid", "tag"}

\* A known parameter of another type is an error.
WellTyped(p) == /\ p.key \in IntKeys => DOMAIN p.value = {"int"}
                /\ p.key \in StrKeys => DOMAIN p.value = {"str"}

\* Mutant: zero stands for an absent integer.
extractParamsZeroAbsent(params) ==
    LET Given(key) == {i \in 1..Len(params) :
                         params[i].key = key /\ params[i].value # Int64(0)}
    IN  IF \E i \in 1..Len(params) : ~WellTyped(params[i])
        THEN [ok |-> FALSE]
        ELSE [ok |-> TRUE,
              params |-> [key \in IntKeys \cup StrKeys |->
                            IF Given(key) = {} THEN Absent
                            ELSE params[CHOOSE i \in Given(key) :
                                          \A j \in Given(key) : i >= j].value]]

\* The last parameter of a name wins, unknown ones are ignored.
extractSignatureParams(params) ==
    LET LastWith(key) ==
          LET hits == {i \in 1..Len(params) : params[i].key = key}
          IN  IF hits = {} THEN Absent
              ELSE params[CHOOSE i \in hits : \A j \in hits : i >= j].value
    IN  IF \E i \in 1..Len(params) : ~WellTyped(params[i])
        THEN [ok |-> FALSE]
        ELSE [ok |-> TRUE,
              params |-> [key \in IntKeys \cup StrKeys |-> LastWith(key)]]

parseSignatureEntryFromInput(member) ==
    LET comps  == [i \in 1..Len(member.items) |-> ParsedComponent(member.items[i])]
        params == extractSignatureParams(member.params)
    IN  IF (\E i \in 1..Len(comps) : ~validateComponentIdentifier(comps[i])) \/ ~params.ok
        THEN [ok |-> FALSE]
        ELSE [ok |-> TRUE, comps |-> comps, params |-> params.params]

\* One member that cannot be read makes the whole header unreadable.
ParseSignatureInput(dict) ==
    LET entries == [l \in DOMAIN dict |-> parseSignatureEntryFromInput(dict[l])]
    IN  IF ReadableDictionary(dict) /\ \A l \in DOMAIN dict : entries[l].ok
        THEN [ok |-> TRUE, signatures |-> entries]
        ELSE [ok |-> FALSE]

-----------------------------------------------------------------------------
(* What the proofs and the properties say of components and messages.      *)

\* Components as applications write them: the type is the one the name tells,
\* every parameter has a value, and the identifier is on one line.
WellFormed(c) ==
    /\ c = ParsedComponent(c)
    /\ c.params = [j \in 1..Len(c.params) |-> c.params[j]]
    /\ \A j \in DOMAIN c.params :
         /\ c.params[j] = [key |-> c.params[j].key, value |-> c.params[j].value]
         /\ c.params[j].value # NilItem
    /\ IdentifierText(writeComponentIdentifier(c)) # LF

WellFormedList(comps) ==
    /\ Len(comps) \in Nat /\ DOMAIN comps = 1..Len(comps)
    /\ comps = [i \in 1..Len(comps) |-> comps[i]]
    /\ \A i \in 1..Len(comps) : WellFormed(comps[i])

\* A Signature-Input member that names such components; what the parser reads
\* always does.
WellFormedInput(m) ==
    WellFormedList([i \in 1..Len(m.items) |-> ParsedComponent(m.items[i])])

\* A record of the six parameters.
ParamsShape(p) == p = [key \in IntKeys \cup StrKeys |-> p[key]]

\* SignatureParams: integers and strings, or nil.
TypedParams(p) ==
    /\ ParamsShape(p)
    /\ \A key \in IntKeys \cup StrKeys :
         p[key] = Absent \/ WellTyped([key |-> key, value |-> p[key]])

\* The value of component c is there in both messages, and the same.
SameValue(m, n, c) ==
    LET a == extractComponentValue(m, c)
        b == extractComponentValue(n, c)
    IN  a.ok /\ b.ok /\ a.text = b.text

\* No value the message has for one of the components has a newline.  Only
\* @query-param can have one: it is percent-decoded, and written as it is.
OneLineEach(msg, comps) ==
    \A i \in 1..Len(comps) :
      LET text == extractComponentValue(msg, comps[i]).text
      IN  \A k \in 1..Len(text) : text[k] # LF
=============================================================================
