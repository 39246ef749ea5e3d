---------------------------- MODULE SignatureBase ----------------------------
(***************************************************************************)
(* pkg/base: what a covered component identifier selects from an HTTP      *)
(* message, and the signature base built from the selected values.         *)
(*                                                                         *)
(* A request is a record                                                   *)
(*   [kind |-> "request", method, url, Host, tls, header, trailer]         *)
(* with the fields of http.Request; url is NoURL or a record               *)
(*   [scheme, opaque, user, host, path, forceQuery, query, fragment]       *)
(* with user the userinfo and its @, and query a sequence of               *)
(* <<name, value>> pairs in their encoded form.                            *)
(* A response is                                                           *)
(*   [kind |-> "response", status, header, trailer, related]               *)
(* where related is the request passed along with it, or NoRequest.        *)
(* header and trailer map canonical field names to sequences of raw lines. *)
(*                                                                         *)
(* A component identifier is [name, type, params] with params a sequence   *)
(* of [key, value].  A bare item is a record with one field that tells its *)
(* type: [bool], [int], [str], [tok], [bin], or NilItem.                   *)
(*                                                                         *)
(* Text is a sequence of tokens; a token stands for the characters that    *)
(* no property tells apart.  A newline is always a token of its own, and   *)
(* so is an identifier with its quotes and colon where it begins a line.   *)
(***************************************************************************)
EXTENDS FieldValue

CONSTANTS
    NoURL, NoRequest,       \* nil pointers
    Absent,                 \* a nil field of SignatureParams
    CanonicalHeaderKey(_),  \* http.CanonicalHeaderKey: a name of any case
    QueryUnescape(_),       \* net/url: the text of a query atom, or Invalid
    IdentifierText(_),      \* an identifier as it is written, with ": "
    StructuredField(_),     \* sfv parse + serialize: text -> text or Invalid
    DictionaryMember(_, _)  \* the same for one member of a dictionary

NilItem == [nil |-> TRUE]
True    == [bool |-> TRUE]
IsBool(v) == DOMAIN v = {"bool"}
IsStr(v)  == DOMAIN v = {"str"}

\* A value is a text.
Ok(text) == [ok |-> text \in Seq(Range(text)), text |-> text]
Error    == [ok |-> FALSE]

-----------------------------------------------------------------------------
(* adapter.go                                                              *)

IsRequest(msg)  == msg.kind = "request"
IsResponse(msg) == msg.kind = "response"

\* Of another URL than the client's, these fields are taken over.
URLFrom(u, scheme, host) ==
    [scheme |-> scheme, opaque |-> "", user |-> "", host |-> host, path |-> u.path,
     forceQuery |-> FALSE, query |-> u.query, fragment |-> u.fragment]

\* Mutant: the scheme is that of a plain connection.
resolveIgnoringTLS(req) ==
    LET u == req.url
    IN  IF u.scheme # "" /\ u.host # "" THEN u
        ELSE URLFrom(u, IF u.scheme # "" THEN u.scheme ELSE "http",
                        IF u.host # "" THEN u.host ELSE req.Host)

\* A server's request has a relative URL: scheme and host come from the
\* connection and the Host header.
resolveRequestURL(req) ==
    LET u == req.url
    IN  IF u.scheme # "" /\ u.host # "" THEN u
        ELSE URLFrom(u, IF u.scheme # "" THEN u.scheme
                        ELSE IF req.tls THEN "https" ELSE "http",
                        IF u.host # "" THEN u.host ELSE req.Host)

\* A lookup in an http.Header map: the empty slice for an absent field.
Lines(h, key) == IF key \in DOMAIN h THEN h[key] ELSE <<>>

HeaderValues(msg, name)  == Lines(msg.header, CanonicalHeaderKey(name))
TrailerValues(msg, name) == Lines(msg.trailer, CanonicalHeaderKey(name))

-----------------------------------------------------------------------------
(* Derived components, extract.go.                                         *)

\* getRequestURL, and the component's function F of the resolved URL.
FromURL(msg, F(_)) ==
    IF IsRequest(msg) /\ msg.url # NoURL
    THEN Ok(F(resolveRequestURL(msg))) ELSE Error

\* The raw query string: pairs joined by & in their encoded form.
RawQuery(q) ==
    FlattenSeq([i \in 1..Len(q) |->
      (IF i = 1 THEN <<>> ELSE <<"&">>) \o <<q[i][1], "=", q[i][2]>>])

extractMethod(msg) == IF IsRequest(msg) THEN Ok(<<msg.method>>) ELSE Error

\* URL.String: what comes before the query, the query, the fragment.
Hierarchy(u) ==
    IF u.opaque # "" THEN <<u.scheme, ":", u.opaque>>
    ELSE <<u.scheme, "://", u.user, u.host, u.path>>
QueryPart(u) ==
    IF u.query = <<>> /\ ~u.forceQuery THEN <<>> ELSE <<"?">> \o RawQuery(u.query)
FragmentPart(u) == IF u.fragment = "" THEN <<>> ELSE <<"#", u.fragment>>

\* Mutant: the query is left out.
targetURIWithoutQuery(msg) ==
    FromURL(msg, LAMBDA u : Hierarchy(u) \o FragmentPart(u))

extractTargetURI(msg) ==
    FromURL(msg, LAMBDA u : Hierarchy(u) \o QueryPart(u) \o FragmentPart(u))

extractAuthority(msg) == FromURL(msg, LAMBDA u : <<u.host>>)

extractScheme(msg) == FromURL(msg, LAMBDA u : <<u.scheme>>)

PathOrSlash(u) == IF u.path = "" THEN "/" ELSE u.path

extractRequestTarget(msg) ==
    FromURL(msg, LAMBDA u :
      IF u.query = <<>> THEN <<PathOrSlash(u)>>
      ELSE <<PathOrSlash(u), "?">> \o RawQuery(u.query))

extractPath(msg) == FromURL(msg, LAMBDA u : <<PathOrSlash(u)>>)

extractQuery(msg) == FromURL(msg, LAMBDA u : <<"?">> \o RawQuery(u.query))

\* The first 'name' parameter that is a string; "" when there is none.
queryParamName(comp) ==
    LET named == {i \in 1..Len(comp.params) :
                    comp.params[i].key = "name" /\ IsStr(comp.params[i].value)}
    IN  IF named = {} THEN ""
        ELSE comp.params[CHOOSE i \in named : \A j \in named : i <= j].value.str

\* The value of the first pair with that name, both percent-decoded: any text,
\* also of several lines.  A pair that cannot be decoded is passed over.
extractQueryParam(msg, comp) ==
    LET name  == queryParamName(comp)
        q     == IF IsRequest(msg) /\ msg.url # NoURL THEN msg.url.query ELSE <<>>
        hits  == {i \in 1..Len(q) : /\ QueryUnescape(q[i][1]) = <<name>>
                                    /\ QueryUnescape(q[i][2]) # Invalid}
    IN  IF name = "" \/ hits = {} THEN Error
        ELSE Ok(QueryUnescape(q[CHOOSE i \in hits : \A j \in hits : i <= j][2]))

extractStatus(msg) == IF IsResponse(msg) THEN Ok(<<msg.status>>) ELSE Error

extractDerivedComponentValue(msg, comp) ==
    CASE comp.name = "@method"         -> extractMethod(msg)
      [] comp.name = "@target-uri"     -> extractTargetURI(msg)
      [] comp.name = "@authority"      -> extractAuthority(msg)
      [] comp.name = "@scheme"         -> extractScheme(msg)
      [] comp.name = "@request-target" -> extractRequestTarget(msg)
      [] comp.name = "@path"           -> extractPath(msg)
      [] comp.name = "@query"          -> extractQuery(msg)
      [] comp.name = "@query-param"    -> extractQueryParam(msg, comp)
      [] comp.name = "@status"         -> extractStatus(msg)
      [] OTHER                         -> Error

-----------------------------------------------------------------------------
(* HTTP fields, extract.go.                                                *)

\* The last parameter with that key whose value has the right type decides.
LastOf(params, key, IsType(_)) ==
    LET hits == {i \in 1..Len(params) :
                   params[i].key = key /\ IsType(params[i].value)}
    IN  IF hits = {} THEN NilItem
        ELSE params[CHOOSE i \in hits : \A j \in hits : i >= j].value

parseHTTPFieldParams(params) ==
    [isTrailer |-> LastOf(params, "tr", IsBool) = True,
     useSF     |-> LastOf(params, "sf", IsBool) = True,
     useBS     |-> LastOf(params, "bs", IsBool) = True,
     keyName   |-> LET k == LastOf(params, "key", IsStr)
                   IN  IF k = NilItem THEN "" ELSE k.str]

serializeStructuredFieldValue(raw, keyName) ==
    LET text == IF keyName # "" THEN DictionaryMember(raw, keyName)
                ELSE StructuredField(raw)
    IN  IF text = Invalid THEN Error ELSE Ok(text)

\* The text of a field that is there and whose parameters may be combined.
FieldText(p, raw) ==
    IF raw = Invalid THEN Error
    ELSE IF p.useSF THEN serializeStructuredFieldValue(raw, p.keyName)
    ELSE IF p.useBS THEN Ok(<<":base64">> \o raw \o <<":">>)
    ELSE Ok(raw)

extractHTTPFieldValue(msg, comp) ==
    LET p      == parseHTTPFieldParams(comp.params)
        values == IF p.isTrailer THEN TrailerValues(msg, comp.name)
                  ELSE HeaderValues(msg, comp.name)
    IN  IF \/ p.useSF /\ p.useBS
           \/ p.keyName # "" /\ ~p.useSF
           \/ values = <<>>                     THEN Error
        ELSE FieldText(p, canonicalizeFieldValues(values))

-----------------------------------------------------------------------------
(* Dispatch and the 'req' parameter, extract.go.                           *)

\* The first 'req' parameter decides.
hasReqParameter(comp) ==
    LET hits == {i \in 1..Len(comp.params) : comp.params[i].key = "req"}
    IN  hits # {} /\ comp.params[CHOOSE i \in hits : \A j \in hits : i <= j].value = True

\* compForReq: the identifier without its 'req' parameters.
WithoutReq(comp) ==
    LET kept[n \in 0..Len(comp.params)] ==
          IF n = 0 THEN <<>>
          ELSE IF comp.params[n].key = "req" THEN kept[n - 1]
          ELSE Append(kept[n - 1], comp.params[n])
    IN  [comp EXCEPT !.params = kept[Len(comp.params)]]

ExtractHere(msg, comp) ==
    CASE comp.type = "field"   -> extractHTTPFieldValue(msg, comp)
      [] comp.type = "derived" -> extractDerivedComponentValue(msg, comp)
      [] OTHER                 -> Error

\* Mutants: the value is taken from the response itself; a message without a
\* related request answers for itself.
reqFromResponse(msg, comp) ==
    IF IsResponse(msg) /\ msg.related # NoRequest
    THEN ExtractHere(msg, WithoutReq(comp)) ELSE Error
reqOfAnyMessage(msg, comp) ==
    ExtractHere(IF IsResponse(msg) /\ msg.related # NoRequest THEN msg.related ELSE msg,
                WithoutReq(comp))

extractFromRelatedRequest(msg, comp) ==
    IF IsResponse(msg) /\ msg.related # NoRequest
    THEN ExtractHere(msg.related, WithoutReq(comp)) ELSE Error

extractComponentValue(msg, comp) ==
    IF hasReqParameter(comp) THEN extractFromRelatedRequest(msg, comp)
    ELSE ExtractHere(msg, comp)

-----------------------------------------------------------------------------
(* The signature base: build.go, component_line.go, signature_params.go.   *)

\* A boolean true and a value of no known type are both written as a flag; the
\* type of the component is not written.
writeComponentIdentifier(comp) ==
    [name   |-> comp.name,
     params |-> [i \in 1..Len(comp.params) |->
                   [comp.params[i] EXCEPT !.value = IF @ = NilItem THEN True ELSE @]]]

Identifiers(comps) ==
    [i \in 1..Len(comps) |-> writeComponentIdentifier(comps[i])]

\* The parameters that are present, in the order the code writes them.
IfPresent(key, value) ==
    IF value = Absent THEN <<>> ELSE <<[key |-> key, value |-> value]>>

CanonicalParams(params) ==
    IfPresent("created", params.created) \o IfPresent("expires", params.expires)
      \o IfPresent("nonce", params.nonce) \o IfPresent("alg", params.alg)
      \o IfPresent("keyid", params.keyid) \o IfPresent("tag", params.tag)

\* Mutant: the algorithm is not part of the line.
paramsLineWithoutAlg(comps, params) ==
    [ids |-> Identifiers(comps),
     params |-> CanonicalParams([params EXCEPT !.alg = Absent])]

writeSignatureParamsLine(comps, params) ==
    [ids |-> Identifiers(comps), params |-> CanonicalParams(params)]

\* The value is written as it is, whatever characters it has.
writeComponentLine(comp, value) ==
    <<IdentifierText(writeComponentIdentifier(comp))>> \o value

\* Mutant: a shadowed variable leaves every line with the first value.
firstValueKept(comps, params, values) ==
    IF \E i \in 1..Len(comps) : ~values[i].ok THEN [ok |-> FALSE]
    ELSE [ok |-> TRUE,
          base |-> FlattenSeq([i \in 1..Len(comps) |->
                                 writeComponentLine(comps[i], values[1].text) \o <<LF>>])
                     \o <<writeSignatureParamsLine(comps, params)>>]

\* A text: a line for each component, then @signature-params; the first
\* component that cannot be extracted makes the whole fail.
BaseOf(comps, params, values) ==
    IF \E i \in 1..Len(comps) : ~values[i].ok THEN [ok |-> FALSE]
    ELSE [ok |-> TRUE,
          base |-> FlattenSeq([i \in 1..Len(comps) |->
                                 writeComponentLine(comps[i], values[i].text) \o <<LF>>])
                     \o <<writeSignatureParamsLine(comps, params)>>]

Build(msg, comps, params) ==
    BaseOf(comps, params,
           [i \in 1..Len(comps) |-> extractComponentValue(msg, comps[i])])
=============================================================================
