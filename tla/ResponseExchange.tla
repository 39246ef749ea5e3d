-------------------------- MODULE ResponseExchange --------------------------
(***************************************************************************)
(* Responses that are signed together with the request they answer: what   *)
(* pkg/httpsig makes of the req parameter between a client and a server.   *)
(*                                                                         *)
(* The client composes and signs requests, over and over; servers answer   *)
(* whatever request reaches them and sign the answer with the request as   *)
(* they see it; the client verifies whatever response reaches it with the  *)
(* request as it has it.  Everything in between may be changed: contents,  *)
(* and which signatures a message carries, on how many header lines.       *)
(*                                                                         *)
(* The two headers are ordinary header fields here, since a response may   *)
(* cover the signature of its request.  In a line of Signature a token is  *)
(* the name of one signature and stands for its whole member, label        *)
(* included; in a line of Signature-Input it is the name of a Signer and   *)
(* stands for the member NewSigner serialized.  Times, key resolution and  *)
(* algorithms are the matter of HttpSig.                                   *)
(***************************************************************************)
EXTENDS NetHTTP, SignatureInput

CONSTANTS
    Requests,      \* the requests a client composes
    Responses,     \* the responses an application composes
    Signers,       \* name -> [label, comps, params, key]
    ClientSigners, \* names of the Signers of the client
    ServerSigners, \* names of the Signers of the server
    ClientOptions, \* VerifyOptions [label, required, key] of the client
    ServerOptions, \* those of the server, NoVerifier if it does not verify
    NoVerifier, NoOutcome,
    Names          \* bound: names of signatures

\* A response as programs make it.
ResponseShape(m) ==
    m = [kind |-> "response", status |-> m.status, header |-> m.header,
         trailer |-> m.trailer, related |-> m.related]

ASSUME ExchangeAssumption ==
    /\ ClientSigners \cup ServerSigners \subseteq DOMAIN Signers
    /\ \A s \in DOMAIN Signers : /\ WellFormedList(Signers[s].comps)
                                 /\ TypedParams(Signers[s].params)
                                 /\ serializeSignatureInput(Signers[s].comps, Signers[s].params).ok
    /\ \A m \in Responses : ResponseShape(m) /\ m.related = NoRequest
    /\ \A q \in Requests : RequestShape(q) /\ "Signature" \notin DOMAIN q.header
    /\ Names \cap (Blank \cup Newline \cup {",", "invalid"}) = {}
    /\ CanonicalHeaderKey("signature") = "Signature"

VARIABLES request, \* the client's request
          made,    \* history: signature name -> [signer, msg, base, checked]
          outcome  \* what was verified, with which options and result, or NoOutcome

rvars == <<request, made, outcome>>

RInit ==
    /\ request \in Requests
    /\ made = [n \in {} |-> n]
    /\ outcome = NoOutcome

-----------------------------------------------------------------------------
(* signer.go                                                               *)

\* http.Header.Set, with several lines for other writers than the library.
Set(h, key, value) ==
    [k \in DOMAIN h \cup {key} |-> IF k = key THEN value ELSE h[k]]

WithHeaders(msg, inputs, sigs) ==
    [msg EXCEPT !.header = Set(Set(@, "Signature-Input", inputs), "Signature", sigs)]

\* nil is no request.
ASSUME RequestAssumption ==
    \A q \in Requests :
      /\ q # NoRequest
      /\ \A s \in ClientSigners, n \in Names :
           WithHeaders(q, << <<s>> >>, << <<n>> >>) # NoRequest

\* signMessage, and what it leaves in the history; n is the new signature.
signMessage(n, s, msg, checked) ==
    LET built == Build(msg, Signers[s].comps, Signers[s].params)
    IN  /\ n \notin DOMAIN made
        /\ built.ok
        /\ made' = Set(made, n,
                       [signer |-> s, msg |-> msg, base |-> built.base, checked |-> checked])

\* A request that has been signed before loses its old signature.
SignRequest ==
    /\ \E n \in Names, s \in ClientSigners :
         /\ signMessage(n, s, request, FALSE)
         /\ request' = WithHeaders(request, << <<s>> >>, << <<n>> >>)
    /\ UNCHANGED outcome

-----------------------------------------------------------------------------
(* verifier.go                                                             *)

\* Header.Get: the first line.
Get(h, key) == IF Lines(h, key) = <<>> THEN <<>> ELSE Lines(h, key)[1]

\* The dictionary of a line: the last member with a label.  label maps the tokens
\* that are members to their labels.
DictionaryOf(line, label) ==
    LET at     == {i \in 1..Len(line) : line[i] \in DOMAIN label}
        Has(l) == {i \in at : label[line[i]] = l}
    IN  [l \in {label[line[i]] : i \in at} |->
           line[CHOOSE i \in Has(l) : \A j \in Has(l) : j <= i]]

InputsOf(line) == DictionaryOf(line, [s \in DOMAIN Signers |-> Signers[s].label])
SigsOf(line)   == DictionaryOf(line, [n \in DOMAIN made |-> Signers[made[n].signer].label])

\* NewSigner serializes once.
MemberOf == [s \in DOMAIN Signers |->
               serializeSignatureInput(Signers[s].comps, Signers[s].params).member]

\* The Signature-Input header as ParseSignatureInput gets it.
SignatureInputs(line) ==
    LET dict == InputsOf(line) IN [l \in DOMAIN dict |-> MemberOf[dict[l]]]

SelectLabel(o, signatures) ==
    IF o.label # "" THEN o.label
    ELSE IF Cardinality(DOMAIN signatures) = 1 THEN CHOOSE l \in DOMAIN signatures : TRUE
    ELSE ""

\* Mutant: parameters are compared by their keys.
componentKeysEqual(a, b) ==
    /\ a.name = b.name
    /\ {a.params[i].key : i \in 1..Len(a.params)} = {b.params[i].key : i \in 1..Len(b.params)}

componentEqual(a, b) == a = b

validateRequiredComponents(required, covered) ==
    \A r \in required : \E i \in 1..Len(covered) : componentEqual(covered[i], r)

\* Algorithm.Verify accepts what was made with the key over the base.
SignatureValid(n, key, base) ==
    Signers[made[n].signer].key = key /\ made[n].base = base

Refused == [ok |-> FALSE]

verifyMessage(msg, o) ==
    LET input  == Get(msg.header, "Signature-Input")
        sigs   == SigsOf(Get(msg.header, "Signature"))
        parsed == ParseSignatureInput(SignatureInputs(input))
        label  == SelectLabel(o, parsed.signatures)
        entry  == parsed.signatures[label]
        built  == Build(msg, entry.comps, entry.params)
        passes == /\ input # <<>> /\ Get(msg.header, "Signature") # <<>>
                  /\ parsed.ok
                  /\ label \in DOMAIN parsed.signatures
                  /\ label \in DOMAIN sigs
                  /\ validateRequiredComponents(o.required, entry.comps)
                  /\ built.ok
                  /\ SignatureValid(sigs[label], o.key, built.base)
    IN  IF passes
        THEN [ok |-> TRUE, name |-> sigs[label], comps |-> entry.comps,
              params |-> entry.params, base |-> built.base]
        ELSE Refused

VerifyRequest(req, o) == verifyMessage(req, o)

VerifyResponse(resp, relatedReq, o) == verifyMessage([resp EXCEPT !.related = relatedReq], o)

-----------------------------------------------------------------------------
(* The client's application, the server's, and the way between.            *)

\* The next request, or the same one before it is signed again.
Compose ==
    /\ request' \in Requests
    /\ UNCHANGED <<made, outcome>>

\* The signatures a message has on its way: none, one, or two on one line or on
\* two.
Headers(inputs, sigs) == [inputs |-> inputs, sigs |-> sigs]
Line(a, b)  == <<a, ",", SP, b>>
SignerOf(n) == made[n].signer
One(n)      == Headers(<< <<SignerOf(n)>> >>, << <<n>> >>)
Pairs       == {p \in (DOMAIN made) \X (DOMAIN made) : p[1] # p[2]}

Bundles ==
    {Headers(<<>>, <<>>)}
      \cup {One(n) : n \in DOMAIN made}
      \cup {Headers(<<Line(SignerOf(p[1]), SignerOf(p[2]))>>, <<Line(p[1], p[2])>>) : p \in Pairs}
      \cup {Headers(<< <<SignerOf(p[1])>>, <<SignerOf(p[2])>> >>, << <<p[1]>>, <<p[2]>> >>) :
               p \in Pairs}

Carrying(msg, b) == WithHeaders(msg, b.inputs, b.sigs)

\* SignResponse in a handler that has verified its request or has not, and
\* passes it on or nil.
SignResponse ==
    /\ \E n \in Names \ DOMAIN made :
       \E q \in Requests, b \in Bundles, o \in ServerOptions :
         LET arrived == ServerView(Carrying(q, b))
         IN  /\ o # NoVerifier => VerifyRequest(arrived, o).ok
             /\ \E s \in ServerSigners, m \in Responses, related \in {arrived, NoRequest} :
                  signMessage(n, s, [m EXCEPT !.related = related], o # NoVerifier)
    /\ UNCHANGED <<request, outcome>>

\* The response that comes back may have any contents with any signatures there
\* are, those of requests included.
ReceiveAndVerify ==
    /\ \E m \in Responses, b \in Bundles, o \in ClientOptions :
         outcome' = [resp    |-> [Carrying(m, b) EXCEPT !.related = request],
                     options |-> o,
                     result  |-> VerifyResponse(Carrying(m, b), request, o)]
    /\ UNCHANGED <<request, made>>

RNext == Compose \/ SignRequest \/ SignResponse \/ ReceiveAndVerify

RSpec == RInit /\ [][RNext]_rvars

-----------------------------------------------------------------------------
Accepted == outcome # NoOutcome /\ outcome.result.ok

\* The client's request, the covered components, and what was signed.
Asked   == outcome.resp.related
Covered == outcome.result.comps
Signing == made[outcome.result.name]

CoversRequest == \E i \in 1..Len(Covered) : hasReqParameter(Covered[i])

\* extractFromRelatedRequest refuses req in requests: if an accepted response
\* covers anything of its request, SignResponse signed it.  No signature of a
\* request, made with the same key, passes when it is sent back on a response.
NoReflection == Accepted /\ CoversRequest => IsResponse(Signing.msg)

\* Component c has one value in the two requests.
SameInRequests(q, r, c) ==
    /\ ExtractHere(q, c).ok /\ ExtractHere(r, c).ok
    /\ ExtractHere(q, c).text = ExtractHere(r, c).text

\* What the response covers has no newline in it, as the client sees it: nothing
\* it verified stands for the end of a line of the base.
Unforged == OneLineEach(outcome.resp, Covered)

\* If an accepted response covers anything of its request, the server signed it
\* with a request; and whatever the response covers, that request has in common
\* with the one the client asked about: an answer to another request, or to a
\* changed one, is refused.
AnswersMyRequest ==
    Accepted /\ IsResponse(Signing.msg) =>
      \A i \in 1..Len(Covered) : hasReqParameter(Covered[i]) =>
        /\ Signing.msg.related # NoRequest
        /\ Unforged => SameInRequests(Signing.msg.related, Asked, WithoutReq(Covered[i]))

\* validateRequiredComponents: a component the client requires has been signed
\* with the value the client sees, in the message the identifier names,
\* whatever parameters covered components have twice.
RequiredWereSigned ==
    Accepted /\ Unforged =>
      \A r \in outcome.options.required : SameValue(Signing.msg, outcome.resp, r)

\* "signature";req: the signature of the request.
OfRequest    == <<[key |-> "req", value |-> True]>>
SignatureReq == [name |-> "signature", type |-> "field", params |-> OfRequest]

\* A server that answers verified requests only, and a client that requires the
\* request's signature of the response: what the client's signature covers has
\* reached the server unchanged, although the client compares no more than
\* the text of the Signature field.  The client signed no value with a newline.
RequestReachedServer ==
    Accepted /\ Unforged /\ SignatureReq \in outcome.options.required /\ Signing.checked =>
      LET ours  == made[Get(Asked.header, "Signature")[1]]
          comps == Signers[ours.signer].comps
      IN  OneLineEach(ours.msg, comps) =>
            \A i \in 1..Len(comps) : SameValue(ours.msg, Signing.msg.related, comps[i])

\* The two headers a response does not have yet when it is signed.
SelfCovering(c) ==
    ~hasReqParameter(c) /\ CanonicalHeaderKey(c.name) \in {"Signature", "Signature-Input"}

\* The verified response is what SignResponse made of e, for the request asked.
AsSigned(n, e) ==
    /\ IsResponse(e.msg) /\ e.msg.related \in {NoRequest, ServerView(Asked)}
    /\ outcome.resp = [Carrying(e.msg, One(n)) EXCEPT !.related = Asked]

\* The client's form of a request and the server's give the same values: the
\* answer to the client's request, as the server signed it, is accepted by every
\* client whose options it meets.
OwnResponseVerifies ==
    outcome # NoOutcome =>
      \A n \in DOMAIN made :
        LET s == Signers[made[n].signer]
            o == outcome.options
        IN  /\ AsSigned(n, made[n])
            /\ Portable(Asked) /\ NoBlankLine(Asked)
            /\ \A i \in 1..Len(s.comps) : ~SelfCovering(s.comps[i]) /\ URISafe(s.comps[i], Asked)
            /\ ParseSignatureInput(SignatureInputs(<<made[n].signer>>)).ok
            /\ s.key = o.key /\ o.label \in {"", s.label}
            /\ \A r \in o.required : \E i \in 1..Len(s.comps) : s.comps[i] = r
            => outcome.result.ok
=============================================================================
